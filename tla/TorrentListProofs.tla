------------------------- MODULE TorrentListProofs -------------------------
(***************************************************************************)
(* Proofs about TorrentList: its types, that what is drawn exists, and     *)
(* that the rows show the progress of the downloads, whether they are      *)
(* paused, and no more connections than are open or have panicked.         *)
(***************************************************************************)
EXTENDS TorrentList, FiniteSetTheorems, SequenceTheorems, TLAPS

USE DEF ConnectionType, NavPage, NoSelection

Event ==
  [type : {"GotFileInfo"}, torrent : Torrent, bitfield : SUBSET Piece]
    \cup [type : {"GotPiece"}, torrent : Torrent, piece : Piece]
    \cup [type : {"NewConnection", "Disconnected"}, torrent : Torrent,
          connection_type : ConnectionType]
    \cup [type : {"Paused", "Resumed"}, torrent : Torrent]
    \cup [type : {"Ignored"}]

RowType ==
  [torrent : Torrent, bitfield : SUBSET Piece, is_paused : BOOLEAN,
   connections : [ConnectionType -> 0..MaxCount]]

Starting == pc \in {"Building", "Subscribing", "Listing"}

\* The list's numbers agree with each other and with the rows.
ListAgrees ==
  /\ total_items = Len(rows)
  /\ offset <= total_items
  /\ selected # NoSelection => selected < total_items
  /\ selected = NoSelection => offset = 0
  /\ Starting => offset = 0 /\ rows = <<>>
  /\ ~Subscribed => channel = <<>>

ListInv == TypeOK /\ channel \in Seq(Event) /\ ListAgrees /\ DrawnFits

-----------------------------------------------------------------------------

\* What emit_event leaves in the channel; without a loss it is all there.
LEMMA EmitType ==
  ASSUME NEW events \in Seq(Event), Emit(events),
         channel \in Seq(Event), lagged \in BOOLEAN, lost \in BOOLEAN
  PROVE  /\ channel' \in Seq(Event) /\ lagged' \in BOOLEAN /\ lost' \in BOOLEAN
         /\ ~Subscribed => channel' = channel
         /\ Subscribed /\ ~lost' => ~lost /\ channel' = channel \o events
         /\ ~lost' => ~lost
<1> DEFINE all == channel \o events
           over == IF Len(all) > BroadcastSize THEN Len(all) - BroadcastSize ELSE 0
<1>1. all \in Seq(Event)
  BY ConcatProperties
<1>2. over \in Nat
  BY <1>1, ListAssumption, LenProperties
<1>3. SubSeq(all, over + 1, Len(all)) \in Seq(Event)
  BY <1>1, <1>2, SubSeqProperties, LenProperties
<1>4. SubSeq(all, 1, Len(all)) = all
  BY <1>1, SubSeqProperties, LenProperties, SeqEqual
<1>5. CASE Subscribed
  <2>1. /\ channel' = SubSeq(all, over + 1, Len(all))
        /\ lagged' = (lagged \/ over > 0)
        /\ lost' = (lost \/ over > 0)
    BY <1>5 DEF Emit
  <2> HIDE DEF all, over
  <2>2. ~lost' => over = 0
    <3>1. over > 0 => lost'
      BY <2>1
    <3> QED
      BY <3>1, <1>2
  <2>3. ~lost' => channel' = all
    BY <2>1, <2>2, <1>4
  <2> QED
    BY <1>2, <1>3, <1>5, <2>1, <2>3 DEF all
<1>6. CASE ~Subscribed
  BY <1>6 DEF Emit, eventVars
<1> QED
  BY <1>5, <1>6

LEMMA EventTypes ==
  /\ \A t \in Torrent, bitfield \in SUBSET Piece : GotFileInfo(t, bitfield) \in Event
  /\ \A t \in Torrent, piece \in Piece : GotPiece(t, piece) \in Event
  /\ \A type \in {"NewConnection", "Disconnected"}, t \in Torrent, c \in ConnectionType :
       PeerEvent(type, t, c) \in Event
  /\ \A type \in {"Paused", "Resumed"}, t \in Torrent : TorrentEvent(type, t) \in Event
  /\ Ignored \in Event
BY DEF Event, GotFileInfo, GotPiece, PeerEvent, TorrentEvent, Ignored

LEMMA RowTypes ==
  /\ \A t \in Torrent, bitfield \in SUBSET Piece : Row(t, bitfield) \in RowType
  /\ \A event \in Event, row \in RowType :
       event.type # "Ignored" => Updated(event, row) \in RowType
<1>1. \A t \in Torrent, bitfield \in SUBSET Piece : Row(t, bitfield) \in RowType
  BY ListAssumption DEF Row, RowType
<1>2. ASSUME NEW event \in Event, NEW row \in RowType
      PROVE  Updated(event, row) \in RowType
  <2>1. Counted(event, row.connections) \in [ConnectionType -> 0..MaxCount]
    BY ListAssumption DEF Counted, RowType
  <2>2. row.bitfield \cup (IF event.type = "GotPiece" THEN {event.piece} ELSE {}) \in SUBSET Piece
    BY DEF Event, RowType
  <2>3. (event.type = "Paused" \/ (row.is_paused /\ event.type # "Resumed")) \in BOOLEAN
    OBVIOUS
  <2> QED
    BY <2>1, <2>2, <2>3 DEF Updated, RowType
<1> QED
  BY <1>1, <1>2

-----------------------------------------------------------------------------
(* The list's numbers *)

LEMMA ListInit == Init => ListInv
<1> SUFFICES ASSUME Init PROVE ListInv
  OBVIOUS
<1>1. TypeOK
  <2>1. /\ entries \subseteq Torrent /\ ended \subseteq Torrent
        /\ stored \in [Torrent -> SUBSET Piece] /\ announcing \in [Torrent -> SUBSET Piece]
        /\ discarded \in [Torrent -> SUBSET Piece]
        /\ manager \in [Torrent -> {"None", "Spawned", "Running", "Ended"}]
        /\ paused \in [Torrent -> BOOLEAN]
    BY DEF Init
  <2>2. orders \in [Torrent -> Seq(Order)] /\ telling \in [Torrent -> SUBSET Order]
    BY DEF Init
  <2>3. /\ open \in [Torrent -> [ConnectionType -> Nat]]
        /\ panicked \in [Torrent -> [ConnectionType -> Nat]]
    BY DEF Init
  <2>4. rows \in Seq(RowType) /\ sending \subseteq [torrent : Torrent, order : Order]
    BY DEF Init
  <2> QED
    BY <2>1, <2>2, <2>3, <2>4 DEF Init, TypeOK, RowType
<1>2. channel \in Seq(Event) /\ rows = <<>> /\ Len(rows) = 0
  BY DEF Init
<1> QED
  BY <1>1, <1>2 DEF Init, ListInv, ListAgrees, DrawnFits, Starting, Subscribed

\* Emit, with what the actions that emit have in common.
LEMMA EmitKeeps ==
  ASSUME ListInv, NEW events \in Seq(Event), Emit(events)
  PROVE  /\ channel' \in Seq(Event) /\ lagged' \in BOOLEAN /\ lost' \in BOOLEAN
         /\ ~Subscribed => channel' = <<>>
BY EmitType DEF ListInv, TypeOK, ListAgrees

LEMMA EventsUnchanged ==
  ASSUME ListInv, UNCHANGED eventVars
  PROVE  /\ channel' \in Seq(Event) /\ lagged' \in BOOLEAN /\ lost' \in BOOLEAN
         /\ ~Subscribed => channel' = <<>>
BY DEF ListInv, TypeOK, ListAgrees, eventVars

\* A step of a manager leaves the list alone.
LEMMA ManagerStepsKeepList ==
  ASSUME ListInv, NEW t \in Torrent, ManagerSteps(t)
  PROVE  ListInv'
<1> USE EventTypes
<1>1. UNCHANGED <<pc, modelVars>>
  BY DEF ManagerSteps, Listener, Runs, GotMetadata, Announces, ClientMessage, Told, ManagerEnds,
         Unregisters, Stores, Discards, Connects, Disconnects, Panics
<1>2. stored[t] \in SUBSET Piece
  BY DEF ListInv, TypeOK
<1> DEFINE ClientTyped ==
             /\ entries' \subseteq Torrent /\ ended' \subseteq Torrent
             /\ stored' \in [Torrent -> SUBSET Piece] /\ announcing' \in [Torrent -> SUBSET Piece]
             /\ discarded' \in [Torrent -> SUBSET Piece]
             /\ manager' \in [Torrent -> {"None", "Spawned", "Running", "Ended"}]
             /\ paused' \in [Torrent -> BOOLEAN]
             /\ orders' \in [Torrent -> Seq(Order)] /\ telling' \in [Torrent -> SUBSET Order]
             /\ open' \in [Torrent -> [ConnectionType -> Nat]]
             /\ panicked' \in [Torrent -> [ConnectionType -> Nat]]
             /\ starts' \in Nat /\ connects' \in Nat
           EventsTyped ==
             /\ channel' \in Seq(Event) /\ lagged' \in BOOLEAN /\ lost' \in BOOLEAN
             /\ ~Subscribed => channel' = <<>>
<1>3. ASSUME ClientTyped, EventsTyped PROVE ListInv'
  BY <1>1, <1>3 DEF ListInv, TypeOK, ListAgrees, DrawnFits, VisibleEnd, Starting, Subscribed, modelVars
<1>4. CASE Listener(t)
  <2>1. <<GotFileInfo(t, stored[t])>> \in Seq(Event)
    BY <1>2
  <2>2. EventsTyped
    BY <1>4, <2>1, EmitKeeps DEF Listener, StartFromEntry
  <2>3. ClientTyped
    BY <1>4 DEF Listener, StartFromEntry, ListInv, TypeOK
  <2> QED
    BY <1>3, <2>2, <2>3
<1>5. CASE Runs(t)
  <2>1. <<Ignored>> \in Seq(Event) /\ Emit(<<Ignored>>)
    BY <1>5 DEF Runs
  <2>2. EventsTyped
    BY <2>1, EmitKeeps
  <2>3. ClientTyped
    BY <1>5 DEF Runs, ListInv, TypeOK
  <2> QED
    BY <1>3, <2>2, <2>3
<1>6. CASE GotMetadata(t)
  <2>1. <<GotFileInfo(t, {})>> \in Seq(Event)
    OBVIOUS
  <2>2. EventsTyped
    BY <1>6, <2>1, EmitKeeps DEF GotMetadata
  <2>3. ClientTyped
    BY <1>6 DEF GotMetadata, ListInv, TypeOK
  <2> QED
    BY <1>3, <2>2, <2>3
<1>7. CASE Announces(t)
  <2>1. PICK piece \in announcing[t] :
          Emit(<<GotPiece(t, piece)>> \o (IF stored[t] = Piece THEN <<Ignored>> ELSE <<>>))
    BY <1>7 DEF Announces
  <2>2. piece \in Piece
    BY DEF ListInv, TypeOK
  <2>3. <<GotPiece(t, piece)>> \in Seq(Event)
    BY <2>2
  <2>4. (IF stored[t] = Piece THEN <<Ignored>> ELSE <<>>) \in Seq(Event)
    OBVIOUS
  <2>5. <<GotPiece(t, piece)>> \o (IF stored[t] = Piece THEN <<Ignored>> ELSE <<>>) \in Seq(Event)
    BY <2>3, <2>4, ConcatProperties
  <2>6. EventsTyped
    BY <2>1, <2>5, EmitKeeps
  <2>7. ClientTyped
    BY <1>7 DEF Announces, ListInv, TypeOK
  <2> QED
    BY <1>3, <2>6, <2>7
<1>8. CASE ClientMessage(t)
  <2>1. EventsTyped
    BY <1>8, EventsUnchanged DEF ClientMessage
  <2>2. orders[t] \in Seq(Order) /\ orders[t] # <<>>
    BY <1>8 DEF ClientMessage, ListInv, TypeOK
  <2>3. Tail(orders[t]) \in Seq(Order) /\ Head(orders[t]) \in Order
    BY <2>2
  <2>4. ClientTyped
    BY <1>8, <2>3 DEF ClientMessage, ListInv, TypeOK
  <2> QED
    BY <1>3, <2>1, <2>4
<1>9. CASE Told(t)
  <2>1. PICK order \in telling[t] :
          /\ paused' = [paused EXCEPT ![t] = order = "Pause"]
          /\ Emit(<<TorrentEvent(IF order = "Pause" THEN "Paused" ELSE "Resumed", t)>>)
    BY <1>9 DEF Told
  <2>2. <<TorrentEvent(IF order = "Pause" THEN "Paused" ELSE "Resumed", t)>> \in Seq(Event)
    OBVIOUS
  <2>3. EventsTyped
    BY <2>1, <2>2, EmitKeeps
  <2>4. (order = "Pause") \in BOOLEAN
    OBVIOUS
  <2>5. ClientTyped
    BY <1>9, <2>1, <2>4 DEF Told, ListInv, TypeOK
  <2> QED
    BY <1>3, <2>3, <2>5
<1>13. CASE ManagerEnds(t)
  <2>1. EventsTyped
    BY <1>13, EventsUnchanged DEF ManagerEnds
  <2>2. <<>> \in Seq(Order)
    OBVIOUS
  <2>3. ClientTyped
    BY <1>13, <2>2 DEF ManagerEnds, ListInv, TypeOK
  <2> QED
    BY <1>3, <2>1, <2>3
<1>14. CASE Unregisters(t)
  <2>1. <<Ignored>> \in Seq(Event) /\ Emit(<<Ignored>>)
    BY <1>14 DEF Unregisters
  <2>2. EventsTyped
    BY <2>1, EmitKeeps
  <2>3. ClientTyped
    BY <1>14 DEF Unregisters, ListInv, TypeOK
  <2> QED
    BY <1>3, <2>2, <2>3
<1>10. ASSUME NEW piece \in Piece, Stores(t, piece) \/ Discards(t, piece) PROVE ListInv'
  <2>1. EventsTyped
    BY <1>10, EventsUnchanged DEF Stores, Discards
  <2>2. ClientTyped
    <3>1. CASE Stores(t, piece)
      BY <3>1 DEF Stores, ListInv, TypeOK
    <3>2. CASE Discards(t, piece)
      BY <3>2 DEF Discards, ListInv, TypeOK
    <3> QED
      BY <1>10, <3>1, <3>2
  <2> QED
    BY <1>3, <2>1, <2>2
<1>11. ASSUME NEW type \in Reached, Connects(t, type) PROVE ListInv'
  <2>1. type \in ConnectionType
    BY ListAssumption
  <2>2. <<PeerEvent("NewConnection", t, type)>> \in Seq(Event)
    BY <2>1
  <2>3. EventsTyped
    BY <1>11, <2>2, EmitKeeps DEF Connects
  <2>4. ClientTyped
    BY <1>11, <2>1 DEF Connects, ListInv, TypeOK
  <2> QED
    BY <1>3, <2>3, <2>4
<1>12. ASSUME NEW type \in Reached, Disconnects(t, type) PROVE ListInv'
  <2>1. type \in ConnectionType
    BY ListAssumption
  <2>2. <<PeerEvent("Disconnected", t, type)>> \in Seq(Event)
    BY <2>1
  <2>3. EventsTyped
    BY <1>12, <2>2, EmitKeeps DEF Disconnects
  <2>4. ClientTyped
    BY <1>12, <2>1 DEF Disconnects, ListInv, TypeOK
  <2> QED
    BY <1>3, <2>3, <2>4
<1>15. ASSUME NEW type \in Reached, Panics(t, type) PROVE ListInv'
  <2>1. type \in ConnectionType
    BY ListAssumption
  <2>2. EventsTyped
    BY <1>15, EventsUnchanged DEF Panics
  <2>3. ClientTyped
    BY <1>15, <2>1 DEF Panics, ListInv, TypeOK
  <2> QED
    BY <1>3, <2>2, <2>3
<1> QED
  BY <1>4, <1>5, <1>6, <1>7, <1>8, <1>9, <1>10, <1>11, <1>12, <1>13, <1>14, <1>15 DEF ManagerSteps

\* What the user does to the client leaves the list alone, too.
LEMMA AddsKeepsList ==
  ASSUME ListInv, NEW t \in Torrent, Adds(t)
  PROVE  ListInv'
<1> USE EventTypes
<1>1. /\ entries' \subseteq Torrent
      /\ manager' \in [Torrent -> {"None", "Spawned", "Running", "Ended"}]
      /\ starts' \in Nat
  <2>1. /\ entries \subseteq Torrent /\ starts \in Nat
        /\ manager \in [Torrent -> {"None", "Spawned", "Running", "Ended"}]
    BY DEF ListInv, TypeOK
  <2>2. entries' = entries \/ entries' = entries \cup {t}
    BY DEF Adds
  <2>3. \/ UNCHANGED <<manager, starts>>
        \/ manager' = [manager EXCEPT ![t] = "Spawned"] /\ starts' = starts + 1
    BY DEF Adds, StartFromEntry
  <2> QED
    BY <2>1, <2>2, <2>3
<1>2. /\ channel' \in Seq(Event) /\ lagged' \in BOOLEAN /\ lost' \in BOOLEAN
      /\ ~Subscribed => channel' = <<>>
  <2>1. CASE UNCHANGED eventVars
    BY <2>1, EventsUnchanged
  <2>2. ASSUME NEW bitfield \in SUBSET Piece, Emit(<<GotFileInfo(t, bitfield)>>)
        PROVE  <1>2
    <3>1. <<GotFileInfo(t, bitfield)>> \in Seq(Event)
      OBVIOUS
    <3> QED
      BY <2>2, <3>1, EmitKeeps
  <2>3. stored[t] \in SUBSET Piece
    BY DEF ListInv, TypeOK
  <2> QED
    BY <2>1, <2>2, <2>3 DEF Adds, StartFromEntry
<1>3. /\ UNCHANGED <<stored, announcing, discarded, paused, orders, telling, open, panicked,
                     connects, ended, rows, selected, offset, total_items, visible, sending>>
      /\ pc = "Input" /\ pc' = "Draw" /\ page' = "TorrentList"
  BY DEF Adds
<1> QED
  BY <1>1, <1>2, <1>3 DEF ListInv, TypeOK, ListAgrees, DrawnFits, Starting, Subscribed

\* The first rows, and the numbers of the list before and after drawing.
LEMMA StartKeepsList ==
  ASSUME ListInv, Build \/ Subscribe \/ List
  PROVE  ListInv'
<1>1. CASE Build
  <2>1. manager' \in [Torrent -> {"None", "Spawned", "Running", "Ended"}]
    BY <1>1 DEF Build, ListInv, TypeOK
  <2>2. starts' \in Nat
    <3>1. PICK started \in SUBSET entries : starts' = starts + Cardinality(started)
      BY <1>1 DEF Build
    <3>2. IsFiniteSet(started)
      BY ListAssumption, FS_Subset DEF ListInv, TypeOK
    <3> QED
      BY <3>1, <3>2, FS_CardinalityType DEF ListInv, TypeOK
  <2> QED
    BY <1>1, <2>1, <2>2 DEF Build, ListInv, TypeOK, ListAgrees, DrawnFits, Starting, Subscribed,
                            eventVars, modelVars
<1>2. CASE Subscribe
  BY <1>2 DEF Subscribe, ListInv, TypeOK, ListAgrees, DrawnFits, Starting, Subscribed,
              clientVars, eventVars, modelVars
<1>3. CASE List
  <2>1. Cardinality(entries) \in Nat /\ (entries = {} <=> Cardinality(entries) = 0)
    <3>1. IsFiniteSet(entries)
      BY ListAssumption, FS_Subset DEF ListInv, TypeOK
    <3> QED
      BY <3>1, FS_CardinalityType, FS_EmptySet
  <2>2. PICK listed \in [1..Cardinality(entries) -> entries] :
          rows' = [i \in DOMAIN listed |-> Row(listed[i], stored[listed[i]])]
    BY <1>3 DEF List
  <2>3. \A i \in 1..Cardinality(entries) : Row(listed[i], stored[listed[i]]) \in RowType
    BY RowTypes DEF ListInv, TypeOK
  <2>4. rows' \in Seq(RowType) /\ Len(rows') = Cardinality(entries)
    BY <2>1, <2>2, <2>3
  <2>5. total_items' \in Nat /\ selected' \in Nat \cup {NoSelection}
    BY <1>3, <2>1 DEF List
  <2>6. TypeOK'
    BY <1>3, <2>4, <2>5 DEF List, ListInv, TypeOK, RowType, clientVars, eventVars
  <2>7. ListAgrees'
    BY <1>3, <2>1, <2>4 DEF List, ListInv, ListAgrees, Starting, Subscribed
  <2> QED
    BY <1>3, <2>6, <2>7 DEF List, ListInv, DrawnFits, eventVars
<1> QED
  BY <1>1, <1>2, <1>3

\* The arithmetic of scroll_to_selected, with at most v rows of n on the screen.
LEMMA ScrollFits ==
  ASSUME NEW s \in Nat, NEW o \in Nat, NEW n \in Nat, NEW v \in Nat, NEW new \in Int,
         s < n, o <= n,
         \/ s >= o + v /\ new = s - v + 1
         \/ s < o /\ new = s
         \/ s < o + v /\ s >= o /\ new = o
  PROVE  new \in Nat /\ new <= n /\ (v > 0 => new <= s /\ s < new + v)
OBVIOUS

LEMMA EndFits ==
  ASSUME NEW o \in Nat, NEW v \in Nat, NEW n \in Nat, o <= n, NEW end \in {o + v, n}
  PROVE  o <= end
OBVIOUS

LEMMA DrawKeepsList ==
  ASSUME ListInv, Draw
  PROVE  ListInv'
<1>1. CASE page = "TorrentList"
  <2>1. PICK height \in Heights : visible' = height \div ITEM_HEIGHT
    BY <1>1 DEF Draw
  <2>2. visible' \in Nat
    BY <2>1, ListAssumption
  <2>3. offset' = Scrolled(visible')
    BY <1>1 DEF Draw
  <2>4. /\ total_items = Len(rows) /\ Len(rows) \in Nat /\ offset \in Nat
        /\ offset <= total_items /\ selected \in Nat \cup {NoSelection}
        /\ selected # NoSelection => selected < total_items
        /\ selected = NoSelection => offset = 0
    BY DEF ListInv, TypeOK, ListAgrees
  <2>5. /\ offset' \in Nat /\ offset' <= total_items
        /\ selected = NoSelection => offset' = 0
        /\ selected # NoSelection /\ visible' > 0 => offset' <= selected /\ selected < offset' + visible'
    <3>1. CASE selected = NoSelection
      BY <2>3, <2>4, <3>1 DEF Scrolled
    <3>2. CASE selected # NoSelection
      <4>1. selected \in Nat /\ selected < total_items
        BY <2>4, <3>2
      <4>2. selected # total_items /\ total_items \in Nat
        BY <2>4, <4>1
      <4>3. /\ \/ selected >= offset + visible' /\ offset' = selected - visible' + 1
               \/ selected < offset /\ offset' = selected
               \/ selected < offset + visible' /\ selected >= offset /\ offset' = offset
            /\ offset' \in Int
        <5>1. CASE selected >= offset + visible'
          <6>1. offset' = selected - visible' + 1
            BY <2>3, <3>2, <4>2, <5>1 DEF Scrolled
          <6>2. selected - visible' + 1 \in Int
            BY <2>2, <4>1
          <6> QED
            BY <5>1, <6>1, <6>2
        <5>2. CASE ~(selected >= offset + visible') /\ selected < offset
          BY <2>3, <3>2, <4>1, <5>2 DEF Scrolled
        <5>3. CASE ~(selected >= offset + visible') /\ ~(selected < offset)
          <6>1. offset' = offset
            BY <2>3, <3>2, <5>3 DEF Scrolled
          <6>2. selected >= offset
            BY <2>4, <4>1, <5>3
          <6>3. \A s, o, v \in Nat : ~(s >= o + v) => s < o + v
            OBVIOUS
          <6>4. offset \in Nat /\ offset' \in Int
            BY <2>4, <6>1
          <6>5. selected < offset + visible'
            BY <2>2, <4>1, <5>3, <6>3, <6>4
          <6> QED
            BY <6>1, <6>2, <6>4, <6>5
        <5> QED
          BY <5>1, <5>2, <5>3
      <4> HIDE DEF NoSelection
      <4> QED
        BY <2>2, <2>4, <3>2, <4>1, <4>2, <4>3, ScrollFits
    <3> QED
      BY <3>1, <3>2
  <2>6. /\ UNCHANGED <<clientVars, eventVars, page, rows, selected, total_items, sending>>
        /\ pc = "Draw" /\ pc' = "Event"
    BY DEF Draw
  <2>7. TypeOK' /\ channel' \in Seq(Event)
    BY <2>2, <2>5, <2>6 DEF ListInv, TypeOK, clientVars, eventVars
  <2>8. ListAgrees'
    BY <2>4, <2>5, <2>6 DEF ListAgrees, Starting, Subscribed
  <2>9. DrawnFits'
    <3>1. VisibleEnd' \in {offset' + visible', total_items} /\ VisibleEnd' <= total_items
      BY <2>2, <2>4, <2>5, <2>6 DEF VisibleEnd
    <3>2. offset' <= VisibleEnd'
      <4>1. offset' \in Nat /\ total_items \in Nat /\ offset' <= total_items
        BY <2>4, <2>5
      <4> QED
        BY <2>2, <3>1, <4>1, EndFits
    <3>3. VisibleEnd' <= Len(rows')
      BY <2>4, <2>6, <3>1
    <3>4. selected' # NoSelection /\ visible' > 0 => offset' <= selected' /\ selected' < VisibleEnd'
      BY <2>2, <2>4, <2>5, <2>6, <3>1
    <3> QED
      BY <3>2, <3>3, <3>4 DEF DrawnFits
  <2> QED
    BY <2>7, <2>8, <2>9 DEF ListInv
<1>2. CASE page # "TorrentList"
  BY <1>2 DEF Draw, ListInv, TypeOK, ListAgrees, DrawnFits, Starting, Subscribed, clientVars, eventVars
<1> QED
  BY <1>1, <1>2

LEMMA HandleEventKeepsList ==
  ASSUME ListInv, HandleEvent
  PROVE  ListInv'
<1>1. CASE lagged \/ channel = <<>>
  BY <1>1 DEF HandleEvent, ListInv, TypeOK, ListAgrees, DrawnFits, Starting, Subscribed, clientVars
<1>2. CASE ~lagged /\ channel # <<>>
  <2> DEFINE event == Head(channel)
  <2>1. event \in Event /\ Tail(channel) \in Seq(Event)
    BY <1>2 DEF ListInv
  <2>2. channel' = Tail(channel) /\ UpdateFromEvent(event)
    BY <1>2 DEF HandleEvent
  <2>3. rows \in Seq(RowType) /\ total_items = Len(rows) /\ Len(rows) \in Nat
    BY DEF ListInv, TypeOK, ListAgrees, RowType
  <2> HIDE DEF event
  <2>4. /\ rows' \in Seq(RowType) /\ total_items' = Len(rows') /\ total_items <= total_items'
        /\ total_items' \in Nat
    <3>1. CASE event.type = "Ignored"
      BY <2>2, <2>3, <3>1 DEF UpdateFromEvent
    <3>2. CASE event.type = "GotFileInfo"
      <4>1. Row(event.torrent, event.bitfield) \in RowType
        BY <2>1, <3>2, RowTypes DEF Event
      <4> QED
        BY <2>2, <2>3, <3>2, <4>1 DEF UpdateFromEvent
    <3>3. CASE event.type \notin {"Ignored", "GotFileInfo"}
      <4>1. /\ UNCHANGED total_items
            /\ rows' = [i \in DOMAIN rows |->
                 IF IsFirstRow(i, event.torrent) THEN Updated(event, rows[i]) ELSE rows[i]]
        BY <2>2, <3>3 DEF UpdateFromEvent
      <4>2. \A i \in DOMAIN rows : rows[i] \in RowType /\ Updated(event, rows[i]) \in RowType
        BY <2>1, <2>3, <3>3, RowTypes
      <4>3. \A i \in DOMAIN rows :
              (IF IsFirstRow(i, event.torrent) THEN Updated(event, rows[i]) ELSE rows[i]) \in RowType
        BY <4>2
      <4>4. DOMAIN rows = 1..Len(rows)
        BY <2>3
      <4> QED
        BY <2>3, <4>1, <4>3, <4>4
    <3> QED
      BY <3>1, <3>2, <3>3
  <2>5. /\ UNCHANGED <<clientVars, lost, page, selected, offset, sending>>
        /\ pc = "Event" /\ pc' = "Input" /\ lagged' = FALSE /\ visible' = 0
    BY DEF HandleEvent
  <2>6. TypeOK' /\ channel' \in Seq(Event)
    BY <2>1, <2>2, <2>4, <2>5 DEF ListInv, TypeOK, RowType, clientVars
  <2>7. ListAgrees'
    <3>1. /\ offset \in Nat /\ offset <= total_items
          /\ selected \in Nat \cup {NoSelection}
          /\ selected # NoSelection => selected < total_items
          /\ selected = NoSelection => offset = 0
      BY DEF ListInv, TypeOK, ListAgrees
    <3>2. /\ total_items \in Nat /\ total_items' \in Nat /\ total_items <= total_items'
          /\ total_items' = Len(rows')
      BY <2>3, <2>4
    <3>3. offset <= total_items'
      BY <3>1, <3>2
    <3>4. ~Starting' /\ Subscribed'
      BY <2>5 DEF Starting, Subscribed
    <3>5. CASE selected = NoSelection
      BY <2>5, <3>1, <3>2, <3>3, <3>4, <3>5 DEF ListAgrees
    <3>6. CASE selected # NoSelection
      <4>1. selected \in Nat /\ selected < total_items
        BY <3>1, <3>6
      <4>2. selected < total_items'
        BY <3>2, <4>1
      <4> QED
        BY <2>5, <3>1, <3>2, <3>3, <3>4, <3>6, <4>2 DEF ListAgrees
    <3> QED
      BY <3>5, <3>6
  <2> QED
    BY <2>5, <2>6, <2>7 DEF ListInv, DrawnFits
<1> QED
  BY <1>1, <1>2

LEMMA KeysKeepList ==
  ASSUME ListInv, UserInput \/ Sends \/ Restarts
  PROVE  ListInv'
<1>1. CASE Idles \/ ChangesPage
  BY <1>1 DEF Idles, ChangesPage, ListInv, TypeOK, ListAgrees, DrawnFits, Starting, Subscribed,
              clientVars, eventVars, modelVars
<1>2. CASE Moves
  <2>1. selected \in Nat /\ total_items \in Nat /\ selected < total_items
    BY <1>2 DEF Moves, ListInv, TypeOK, ListAgrees
  <2>2. selected' \in Nat /\ selected' < total_items
    BY <1>2, <2>1 DEF Moves
  <2>3. /\ UNCHANGED <<clientVars, eventVars, page, rows, offset, total_items, visible, sending>>
        /\ pc = "Input" /\ pc' = "Draw" /\ selected # NoSelection
    BY <1>2 DEF Moves
  <2>4. TypeOK' /\ channel' \in Seq(Event)
    BY <2>2, <2>3 DEF ListInv, TypeOK, clientVars, eventVars
  <2>5. ListAgrees'
    BY <2>2, <2>3 DEF ListInv, TypeOK, ListAgrees, Starting, Subscribed
  <2>6. DrawnFits'
    BY <2>3 DEF DrawnFits
  <2> QED
    BY <2>4, <2>5, <2>6 DEF ListInv
<1>3. ASSUME NEW t \in Torrent, Presses(t) PROVE ListInv'
  <2>1. sending' \subseteq [torrent : Torrent, order : Order]
    <3>1. OrderFor(rows[Index + 1]) \in Order
      BY DEF OrderFor, Order
    <3>2. [torrent |-> t, order |-> OrderFor(rows[Index + 1])] \in [torrent : Torrent, order : Order]
      BY <3>1
    <3>3. CASE Registered(t)
      <4>1. sending' = {[torrent |-> t, order |-> OrderFor(rows[Index + 1])]}
        BY <1>3, <3>3 DEF Presses
      <4> QED
        BY <3>2, <4>1
    <3>4. CASE ~Registered(t)
      BY <1>3, <3>4 DEF Presses, ListInv, TypeOK
    <3> QED
      BY <3>3, <3>4
  <2> QED
    BY <1>3, <2>1 DEF Presses, ListInv, TypeOK, ListAgrees, DrawnFits, Starting, Subscribed,
                      clientVars, eventVars
<1>4. CASE Sends
  <2>1. orders' \in [Torrent -> Seq(Order)]
    <3>1. PICK s \in sending :
            \/ UNCHANGED orders
            \/ orders' = [orders EXCEPT ![s.torrent] = Append(@, s.order)]
      BY <1>4 DEF Sends
    <3>2. s.torrent \in Torrent /\ s.order \in Order /\ orders \in [Torrent -> Seq(Order)]
      BY DEF ListInv, TypeOK
    <3>3. Append(orders[s.torrent], s.order) \in Seq(Order)
      BY <3>2
    <3> QED
      BY <3>1, <3>2, <3>3
  <2> QED
    BY <1>4, <2>1 DEF Sends, ListInv, TypeOK, ListAgrees, DrawnFits, Starting, Subscribed, eventVars
<1>5. CASE Restarts
  <2>1. TypeOK'
    <3>1. /\ announcing' \in [Torrent -> SUBSET Piece] /\ discarded' \in [Torrent -> SUBSET Piece]
          /\ manager' \in [Torrent -> {"None", "Spawned", "Running", "Ended"}]
          /\ paused' \in [Torrent -> BOOLEAN]
      BY <1>5 DEF Restarts
    <3>2. orders' \in [Torrent -> Seq(Order)] /\ telling' \in [Torrent -> SUBSET Order]
      BY <1>5 DEF Restarts
    <3>3. /\ open' \in [Torrent -> [ConnectionType -> Nat]]
          /\ panicked' \in [Torrent -> [ConnectionType -> Nat]]
      BY <1>5 DEF Restarts
    <3>4. rows' \in Seq(RowType) /\ sending' \subseteq [torrent : Torrent, order : Order]
      BY <1>5 DEF Restarts
    <3> QED
      BY <1>5, <3>1, <3>2, <3>3, <3>4 DEF Restarts, ListInv, TypeOK, RowType
  <2>2. channel' \in Seq(Event) /\ rows' = <<>> /\ Len(rows') = 0
    BY <1>5 DEF Restarts
  <2> QED
    BY <1>5, <2>1, <2>2 DEF Restarts, ListInv, ListAgrees, DrawnFits, Starting, Subscribed
<1> QED
  BY <1>1, <1>2, <1>3, <1>4, <1>5, AddsKeepsList DEF UserInput

\* The types and the list's numbers, in every reachable state.
THEOREM ListInvariant == Spec => []ListInv
<1>1. Init => ListInv
  BY ListInit
<1>2. ListInv /\ [Next]_vars => ListInv'
  <2> SUFFICES ASSUME ListInv, [Next]_vars PROVE ListInv'
    OBVIOUS
  <2>1. CASE UNCHANGED vars
    BY <2>1 DEF vars, clientVars, eventVars, modelVars, ListInv, TypeOK, ListAgrees, DrawnFits,
                VisibleEnd, Starting, Subscribed
  <2> QED
    BY <2>1, ManagerStepsKeepList, StartKeepsList, DrawKeepsList, HandleEventKeepsList,
       KeysKeepList DEF Next
<1> QED
  BY <1>1, <1>2, PTL DEF Spec

\* Type correctness of the client's side, the channel and the application.
THEOREM ListTypeCorrect == Spec => []TypeOK
<1>1. ListInv => TypeOK
  BY DEF ListInv
<1> QED
  BY <1>1, ListInvariant, PTL

\* Whatever the size of the terminal, the slice that is drawn exists, and it
\* holds the selected row as soon as there is room for one.
THEOREM DrawnAlwaysFits == Spec => []DrawnFits
<1>1. ListInv => DrawnFits
  BY DEF ListInv
<1> QED
  BY <1>1, ListInvariant, PTL

-----------------------------------------------------------------------------
(* The progress of the downloads *)

\* The application will still learn of piece p, by an event after the i-th.
Owed(t, p, i) ==
  \/ p \in announcing[t]
  \/ \E j \in DOMAIN channel :
       /\ j > i
       /\ channel[j].type = "GotPiece" /\ channel[j].torrent = t /\ channel[j].piece = p

RowsOwe ==
  \A t \in Torrent : \A i \in DOMAIN rows : IsFirstRow(i, t) =>
    \A p \in stored[t] : p \in rows[i].bitfield \/ Owed(t, p, 0)

\* A torrent's record that is on its way will make a row like the ones there are.
RecordsOwe ==
  \A i \in DOMAIN channel : channel[i].type = "GotFileInfo" =>
    \A p \in stored[channel[i].torrent] :
      p \in channel[i].bitfield \/ Owed(channel[i].torrent, p, i)

ProgressInv ==
  /\ \A t \in Torrent : \A p, q \in announcing[t] : p = q
  /\ \A t \in Torrent \ entries : stored[t] = {}
  /\ ~lost => RowsOwe /\ RecordsOwe

LEMMA Concatenated ==
  ASSUME NEW s \in Seq(Event), NEW e \in Seq(Event)
  PROVE  /\ Len(s) \in Nat /\ Len(e) \in Nat
         /\ DOMAIN s = 1..Len(s) /\ DOMAIN e = 1..Len(e)
         /\ DOMAIN (s \o e) = 1..(Len(s) + Len(e))
         /\ \A i \in DOMAIN s : i \in DOMAIN (s \o e) /\ (s \o e)[i] = s[i]
         /\ \A i \in DOMAIN (s \o e) : i \notin DOMAIN s =>
              i - Len(s) \in DOMAIN e /\ (s \o e)[i] = e[i - Len(s)]
OBVIOUS

\* An event that is sent makes nobody forget a piece, and a torrent's record is
\* sent with all the pieces that are stored.
LEMMA EmitKeepsProgress ==
  ASSUME ListInv, ProgressInv, NEW events \in Seq(Event), Emit(events),
         UNCHANGED <<stored, announcing, rows>>, entries \subseteq entries',
         \A i \in DOMAIN events : events[i].type = "GotFileInfo" =>
           stored[events[i].torrent] \subseteq events[i].bitfield
  PROVE  ProgressInv'
<1>1. channel \in Seq(Event) /\ lagged \in BOOLEAN /\ lost \in BOOLEAN
  BY DEF ListInv, TypeOK
<1>2. /\ ~Subscribed => channel' = channel
      /\ Subscribed /\ ~lost' => channel' = channel \o events
      /\ ~lost' => ~lost
  BY <1>1, EmitType
<1>3. ASSUME ~lost' PROVE RowsOwe' /\ RecordsOwe'
  <2>1. RowsOwe /\ RecordsOwe
    BY <1>2, <1>3 DEF ProgressInv
  <2>2. CASE ~Subscribed
    BY <1>2, <2>1, <2>2 DEF RowsOwe, RecordsOwe, Owed, IsFirstRow
  <2>3. CASE Subscribed
    <3>1. channel' = channel \o events
      BY <1>2, <1>3, <2>3
    <3>2. /\ \A i \in DOMAIN channel : i \in DOMAIN channel' /\ channel'[i] = channel[i]
          /\ \A i \in DOMAIN channel' : i \notin DOMAIN channel =>
               i - Len(channel) \in DOMAIN events /\ channel'[i] = events[i - Len(channel)]
      BY <1>1, <3>1, Concatenated
    <3>3. \A t, p, i : Owed(t, p, i) => Owed(t, p, i)'
      BY <3>2 DEF Owed
    <3>4. RowsOwe'
      BY <2>1, <3>3 DEF RowsOwe, IsFirstRow
    <3>5. ASSUME NEW i \in DOMAIN channel', channel'[i].type = "GotFileInfo",
                 NEW t, t = channel'[i].torrent, NEW p \in stored[t]
          PROVE  p \in channel'[i].bitfield \/ Owed(t, p, i)'
      <4>1. CASE i \in DOMAIN channel
        <5>1. channel[i].type = "GotFileInfo" /\ channel[i].torrent = t
          BY <3>2, <3>5, <4>1
        <5>2. p \in channel[i].bitfield \/ Owed(t, p, i)
          BY <2>1, <4>1, <5>1 DEF RecordsOwe
        <5> QED
          BY <3>2, <3>3, <4>1, <5>2
      <4>2. CASE i \notin DOMAIN channel
        BY <3>2, <3>5, <4>2
      <4> QED
        BY <4>1, <4>2
    <3>6. RecordsOwe'
      BY <3>5 DEF RecordsOwe
    <3> QED
      BY <3>4, <3>6
  <2> QED
    BY <2>2, <2>3
<1> QED
  BY <1>3 DEF ProgressInv

\* Steps that neither store, announce, send nor show anything.
LEMMA QuietKeepsProgress ==
  ASSUME ProgressInv, UNCHANGED <<stored, announcing, channel, lost, rows>>,
         entries \subseteq entries'
  PROVE  ProgressInv'
BY DEF ProgressInv, RowsOwe, RecordsOwe, Owed, IsFirstRow

\* A piece that completes is announced before the next one.
LEMMA StoringKeepsProgress ==
  ASSUME ListInv, ProgressInv, NEW t \in Torrent, NEW piece \in Piece,
         Stores(t, piece) \/ Discards(t, piece)
  PROVE  ProgressInv'
<1>1. /\ announcing[t] = {} /\ announcing' = [announcing EXCEPT ![t] = {piece}]
      /\ stored' = stored \/ stored' = [stored EXCEPT ![t] = stored[t] \cup {piece}]
      /\ t \in entries /\ UNCHANGED <<entries, channel, lost, rows>>
  BY DEF Stores, Discards, Free, eventVars, modelVars
<1>2. stored \in [Torrent -> SUBSET Piece] /\ announcing \in [Torrent -> SUBSET Piece]
  BY DEF ListInv, TypeOK
<1>3. \A u \in Torrent : \A p, q \in announcing'[u] : p = q
  BY <1>1, <1>2 DEF ProgressInv
<1>4. \A u \in Torrent \ entries' : stored'[u] = {}
  BY <1>1, <1>2 DEF ProgressInv
<1>5. \A u \in Torrent : \A p, i : Owed(u, p, i) => Owed(u, p, i)'
  BY <1>1, <1>2 DEF Owed
<1>6. \A u \in Torrent : \A p \in stored'[u] : \A i : p \in stored[u] \/ Owed(u, p, i)'
  BY <1>1, <1>2 DEF Owed
<1>7. \A i \in DOMAIN channel : channel[i].type = "GotFileInfo" => channel[i].torrent \in Torrent
  BY DEF ListInv, Event
<1>8. ASSUME ~lost' PROVE RowsOwe'
  BY <1>1, <1>5, <1>6, <1>8 DEF ProgressInv, RowsOwe, IsFirstRow
<1>9. ASSUME ~lost' PROVE RecordsOwe'
  BY <1>1, <1>5, <1>6, <1>7, <1>9 DEF ProgressInv, RecordsOwe
<1> QED
  BY <1>3, <1>4, <1>8, <1>9 DEF ProgressInv

\* The announcement takes the place of the piece that was to be announced.
LEMMA AnnouncingKeepsProgress ==
  ASSUME ListInv, ProgressInv, NEW t \in Torrent, Announces(t)
  PROVE  ProgressInv'
<1>1. PICK piece \in announcing[t] :
        Emit(<<GotPiece(t, piece)>> \o (IF stored[t] = Piece THEN <<Ignored>> ELSE <<>>))
  BY DEF Announces
<1> DEFINE rest == IF stored[t] = Piece THEN <<Ignored>> ELSE <<>>
           events == <<GotPiece(t, piece)>> \o rest
<1>2. /\ announcing' = [announcing EXCEPT ![t] = {}]
      /\ UNCHANGED <<entries, stored, rows, pc>>
  BY DEF Announces, modelVars
<1>3. /\ stored \in [Torrent -> SUBSET Piece] /\ announcing \in [Torrent -> SUBSET Piece]
      /\ channel \in Seq(Event) /\ lagged \in BOOLEAN /\ lost \in BOOLEAN
  BY DEF ListInv, TypeOK
<1>4. <<GotPiece(t, piece)>> \in Seq(Event) /\ rest \in Seq(Event)
  BY <1>3, EventTypes
<1>5. events \in Seq(Event)
  BY <1>4, ConcatProperties
<1>6. /\ 1 \in DOMAIN events /\ events[1] = GotPiece(t, piece)
      /\ \A i \in DOMAIN events : i # 1 => events[i] = Ignored
  <2>1. rest = <<>> \/ rest = <<Ignored>>
    OBVIOUS
  <2> QED
    BY <1>4, <2>1, Concatenated
<1> HIDE DEF events
<1>7. /\ ~Subscribed => channel' = channel
      /\ Subscribed /\ ~lost' => channel' = channel \o events
      /\ ~lost' => ~lost
  BY <1>1, <1>3, <1>5, EmitType DEF events
<1>8. \A u \in Torrent : \A p, q \in announcing'[u] : p = q
  BY <1>2, <1>3 DEF ProgressInv
<1>9. ASSUME ~lost' PROVE RowsOwe' /\ RecordsOwe'
  <2>1. RowsOwe /\ RecordsOwe
    BY <1>7, <1>9 DEF ProgressInv
  <2>2. CASE ~Subscribed
    <3>1. channel = <<>> /\ channel' = <<>> /\ rows = <<>>
      BY <1>7, <2>2 DEF ListInv, ListAgrees, Subscribed, Starting
    <3> QED
      BY <1>2, <3>1 DEF RowsOwe, RecordsOwe
  <2>3. CASE Subscribed
    <3>1. channel' = channel \o events
      BY <1>7, <1>9, <2>3
    <3>2. /\ Len(channel) \in Nat /\ DOMAIN channel = 1..Len(channel)
          /\ DOMAIN channel' = 1..(Len(channel) + Len(events)) /\ Len(events) \in Nat
          /\ DOMAIN events = 1..Len(events)
          /\ \A i \in DOMAIN channel : i \in DOMAIN channel' /\ channel'[i] = channel[i]
          /\ \A i \in DOMAIN channel' : i \notin DOMAIN channel =>
               i - Len(channel) \in DOMAIN events /\ channel'[i] = events[i - Len(channel)]
      BY <1>3, <1>5, <3>1, Concatenated
    <3>3. Len(channel) + 1 \in DOMAIN channel' /\ channel'[Len(channel) + 1] = GotPiece(t, piece)
      BY <1>6, <3>2
    <3>4. \A u \in Torrent : \A p : \A i \in 0..Len(channel) : Owed(u, p, i) => Owed(u, p, i)'
      <4> SUFFICES ASSUME NEW u \in Torrent, NEW p, NEW i \in 0..Len(channel), Owed(u, p, i)
                   PROVE  Owed(u, p, i)'
        OBVIOUS
      <4>1. CASE p \in announcing[u] /\ u = t
        <5>1. p = piece
          BY <1>1, <4>1 DEF ProgressInv
        <5>2. Len(channel) + 1 > i
          BY <3>2
        <5> QED
          BY <3>3, <4>1, <5>1, <5>2 DEF Owed, GotPiece
      <4>2. CASE p \in announcing[u] /\ u # t
        BY <1>2, <1>3, <4>2 DEF Owed
      <4>3. CASE p \notin announcing[u]
        BY <3>2, <4>3 DEF Owed
      <4> QED
        BY <4>1, <4>2, <4>3
    <3>5. RowsOwe'
      BY <1>2, <2>1, <3>2, <3>4 DEF RowsOwe, IsFirstRow
    <3>6. ASSUME NEW i \in DOMAIN channel', channel'[i].type = "GotFileInfo"
          PROVE  i \in DOMAIN channel /\ channel[i].torrent \in Torrent
      <4>1. \A j \in DOMAIN events : events[j].type # "GotFileInfo"
        BY <1>6 DEF GotPiece, Ignored
      <4>2. i \in DOMAIN channel
        BY <3>2, <3>6, <4>1
      <4> QED
        BY <1>3, <3>2, <3>6, <4>2 DEF Event
    <3>7. RecordsOwe'
      BY <1>2, <2>1, <3>2, <3>4, <3>6 DEF RecordsOwe
    <3> QED
      BY <3>5, <3>7
  <2> QED
    BY <2>2, <2>3
<1> QED
  BY <1>2, <1>8, <1>9 DEF ProgressInv

\* The other steps of the managers send events that owe no piece.
LEMMA ManagerStepsKeepProgress ==
  ASSUME ListInv, ProgressInv, NEW t \in Torrent, ManagerSteps(t)
  PROVE  ProgressInv'
<1> USE EventTypes
<1>1. stored \in [Torrent -> SUBSET Piece]
  BY DEF ListInv, TypeOK
<1>2. ASSUME NEW event \in Event, Emit(<<event>>), UNCHANGED <<stored, announcing, rows>>,
             entries \subseteq entries',
             event.type = "GotFileInfo" => stored[event.torrent] \subseteq event.bitfield
      PROVE  ProgressInv'
  <2>1. <<event>> \in Seq(Event) /\ \A i \in DOMAIN <<event>> : <<event>>[i] = event
    OBVIOUS
  <2> QED
    BY <1>2, <2>1, EmitKeepsProgress
<1>3. CASE Listener(t)
  BY <1>1, <1>2, <1>3 DEF Listener, StartFromEntry, GotFileInfo, modelVars
<1>4. CASE Runs(t)
  BY <1>2, <1>4 DEF Runs, Ignored, modelVars
<1>5. CASE GotMetadata(t)
  <2>1. stored[t] = {}
    BY <1>5 DEF GotMetadata, ProgressInv
  <2> QED
    BY <1>2, <1>5, <2>1 DEF GotMetadata, GotFileInfo, modelVars
<1>6. CASE Told(t)
  <2>1. PICK order \in telling[t] :
          Emit(<<TorrentEvent(IF order = "Pause" THEN "Paused" ELSE "Resumed", t)>>)
    BY <1>6 DEF Told
  <2>2. PICK type \in {"Paused", "Resumed"} : Emit(<<TorrentEvent(type, t)>>)
    BY <2>1
  <2> QED
    BY <1>2, <1>6, <2>2 DEF Told, TorrentEvent, modelVars
<1>7. CASE Unregisters(t)
  BY <1>2, <1>7 DEF Unregisters, Ignored, modelVars
<1>10. CASE ClientMessage(t) \/ ManagerEnds(t) \/ \E type \in Reached : Panics(t, type)
  <2>1. UNCHANGED <<entries, stored, announcing, channel, lost, rows>>
    BY <1>10 DEF ClientMessage, ManagerEnds, Panics, eventVars, modelVars
  <2> QED
    BY <2>1, QuietKeepsProgress
<1>8. ASSUME NEW type \in Reached, Connects(t, type) PROVE ProgressInv'
  <2>1. PeerEvent("NewConnection", t, type) \in Event
    BY ListAssumption
  <2> QED
    BY <1>2, <1>8, <2>1 DEF Connects, PeerEvent, modelVars
<1>9. ASSUME NEW type \in Reached, Disconnects(t, type) PROVE ProgressInv'
  <2>1. PeerEvent("Disconnected", t, type) \in Event
    BY ListAssumption
  <2> QED
    BY <1>2, <1>9, <2>1 DEF Disconnects, PeerEvent, modelVars
<1> QED
  BY <1>3, <1>4, <1>5, <1>6, <1>7, <1>8, <1>9, <1>10, AnnouncingKeepsProgress,
     StoringKeepsProgress DEF ManagerSteps

\* A torrent that the user adds is either new, and nothing of it is stored, or
\* its record is sent.
LEMMA AddsKeepsProgress ==
  ASSUME ListInv, ProgressInv, NEW t \in Torrent, Adds(t)
  PROVE  ProgressInv'
<1>1. UNCHANGED <<stored, announcing, rows>> /\ entries \subseteq entries'
  BY DEF Adds
<1>2. CASE UNCHANGED eventVars
  BY <1>1, <1>2, QuietKeepsProgress DEF eventVars
<1>3. ASSUME NEW bitfield \in SUBSET Piece, Emit(<<GotFileInfo(t, bitfield)>>),
             stored[t] = bitfield
      PROVE  ProgressInv'
  <2> DEFINE event == GotFileInfo(t, bitfield)
  <2>1. <<event>> \in Seq(Event) /\ \A i \in DOMAIN <<event>> : <<event>>[i] = event
    BY EventTypes
  <2>2. event.torrent = t /\ event.bitfield = bitfield
    BY DEF GotFileInfo
  <2> HIDE DEF event
  <2> QED
    BY <1>1, <1>3, <2>1, <2>2, EmitKeepsProgress DEF event
<1>4. stored[t] \in SUBSET Piece /\ (t \notin entries => stored[t] = {})
  BY DEF ListInv, TypeOK, ProgressInv
<1> QED
  BY <1>2, <1>3, <1>4 DEF Adds, StartFromEntry

\* The first rows hold what is stored; a restart shows and owes nothing.
LEMMA StartKeepsProgress ==
  ASSUME ListInv, ProgressInv, Build \/ Subscribe \/ List \/ Restarts
  PROVE  ProgressInv'
<1>1. CASE Build \/ Subscribe
  <2>1. UNCHANGED <<entries, stored, announcing, channel, lost, rows>>
    BY <1>1 DEF Build, Subscribe, clientVars, eventVars, modelVars
  <2> QED
    BY <2>1, QuietKeepsProgress
<1>2. CASE List
  <2>1. PICK listed \in [1..Cardinality(entries) -> entries] :
          rows' = [i \in DOMAIN listed |-> Row(listed[i], stored[listed[i]])]
    BY <1>2 DEF List
  <2>2. UNCHANGED <<entries, stored, announcing, channel, lost>>
    BY <1>2 DEF List, clientVars, eventVars
  <2>3. \A i \in DOMAIN rows' : rows'[i].bitfield = stored[rows'[i].torrent]
    BY <2>1 DEF Row
  <2>4. RowsOwe'
    BY <2>2, <2>3 DEF RowsOwe, IsFirstRow
  <2>5. RecordsOwe => RecordsOwe'
    BY <2>2 DEF RecordsOwe, Owed
  <2> QED
    BY <2>2, <2>4, <2>5 DEF ProgressInv
<1>3. CASE Restarts
  <2>1. /\ channel' = <<>> /\ rows' = <<>> /\ UNCHANGED <<entries, stored>>
        /\ \A t \in Torrent : announcing'[t] = {}
    BY <1>3 DEF Restarts
  <2> QED
    BY <2>1 DEF ProgressInv, RowsOwe, RecordsOwe
<1> QED
  BY <1>1, <1>2, <1>3

\* Taking an event pays what it owes.
LEMMA HandleEventKeepsProgress ==
  ASSUME ListInv, ProgressInv, HandleEvent
  PROVE  ProgressInv'
<1>1. UNCHANGED <<entries, stored, announcing, lost>>
  BY DEF HandleEvent, clientVars
<1>2. CASE lagged \/ channel = <<>>
  <2>1. UNCHANGED <<channel, rows>>
    BY <1>2 DEF HandleEvent
  <2> QED
    BY <1>1, <2>1, QuietKeepsProgress
<1>3. CASE ~lagged /\ channel # <<>>
  <2> DEFINE event == Head(channel)
  <2>1. channel \in Seq(Event) /\ stored \in [Torrent -> SUBSET Piece]
    BY DEF ListInv, TypeOK
  <2>2. channel' = Tail(channel) /\ UpdateFromEvent(event)
    BY <1>3 DEF HandleEvent
  <2>3. /\ 1 \in DOMAIN channel /\ event = channel[1] /\ event \in Event
        /\ \A i \in DOMAIN channel : i \in Nat
        /\ \A i \in DOMAIN channel' : i \in Nat /\ i + 1 \in DOMAIN channel /\ channel'[i] = channel[i + 1]
        /\ \A i \in DOMAIN channel : i > 1 => i - 1 \in DOMAIN channel' /\ channel'[i - 1] = channel[i]
    BY <1>3, <2>1, <2>2
  <2>4. \A t, p : \A i \in Nat : Owed(t, p, i + 1) => Owed(t, p, i)'
    <3> SUFFICES ASSUME NEW t, NEW p, NEW i \in Nat, Owed(t, p, i + 1) PROVE Owed(t, p, i)'
      OBVIOUS
    <3>1. CASE p \in announcing[t]
      BY <1>1, <3>1 DEF Owed
    <3>2. CASE p \notin announcing[t]
      <4>1. PICK j \in DOMAIN channel :
              /\ j > i + 1
              /\ channel[j].type = "GotPiece" /\ channel[j].torrent = t /\ channel[j].piece = p
        BY <3>2 DEF Owed
      <4>2. j - 1 \in DOMAIN channel' /\ channel'[j - 1] = channel[j] /\ j - 1 > i
        BY <2>3, <4>1
      <4> QED
        BY <4>1, <4>2 DEF Owed
    <3> QED
      BY <3>1, <3>2
  <2>5. \A t, p : Owed(t, p, 0) =>
          \/ Owed(t, p, 0)'
          \/ event.type = "GotPiece" /\ event.torrent = t /\ event.piece = p
    <3> SUFFICES ASSUME NEW t, NEW p, Owed(t, p, 0),
                        ~(event.type = "GotPiece" /\ event.torrent = t /\ event.piece = p)
                 PROVE  Owed(t, p, 0)'
      OBVIOUS
    <3>1. CASE p \in announcing[t]
      BY <1>1, <3>1 DEF Owed
    <3>2. CASE p \notin announcing[t]
      <4>1. PICK j \in DOMAIN channel :
              channel[j].type = "GotPiece" /\ channel[j].torrent = t /\ channel[j].piece = p
        BY <3>2 DEF Owed
      <4>2. j # 1 /\ j \in Nat /\ j > 0
        BY <2>1, <2>3, <4>1
      <4>3. j - 1 \in DOMAIN channel' /\ channel'[j - 1] = channel[j] /\ j - 1 > 0
        BY <2>3, <4>2
      <4> QED
        BY <4>1, <4>3 DEF Owed
    <3> QED
      BY <3>1, <3>2
  <2> HIDE DEF event
  <2>6. ASSUME ~lost' PROVE RecordsOwe'
    <3> SUFFICES ASSUME NEW i \in DOMAIN channel', channel'[i].type = "GotFileInfo",
                        NEW t, t = channel'[i].torrent, NEW p \in stored'[t]
                 PROVE  p \in channel'[i].bitfield \/ Owed(t, p, i)'
      BY DEF RecordsOwe
    <3>1. RecordsOwe
      BY <1>1, <2>6 DEF ProgressInv
    <3>2. i \in Nat /\ i + 1 \in DOMAIN channel /\ channel'[i] = channel[i + 1]
      BY <2>3
    <3>3. p \in channel[i + 1].bitfield \/ Owed(t, p, i + 1)
      BY <1>1, <3>1, <3>2 DEF RecordsOwe
    <3> QED
      BY <2>4, <3>2, <3>3
  <2>7. ASSUME ~lost' PROVE RowsOwe'
    <3> SUFFICES ASSUME NEW t \in Torrent, NEW i \in DOMAIN rows', IsFirstRow(i, t)',
                        NEW p \in stored'[t]
                 PROVE  p \in rows'[i].bitfield \/ Owed(t, p, 0)'
      BY DEF RowsOwe
    <3>1. RowsOwe /\ RecordsOwe /\ p \in stored[t]
      BY <1>1, <2>7 DEF ProgressInv
    <3>2. rows \in Seq(RowType)
      BY DEF ListInv, TypeOK, RowType
    <3>3. CASE event.type = "Ignored"
      <4>1. rows' = rows
        BY <2>2, <3>3 DEF UpdateFromEvent
      <4> QED
        BY <2>5, <3>1, <3>3, <4>1 DEF RowsOwe, IsFirstRow
    <3>4. CASE event.type = "GotFileInfo"
      <4>1. rows' = Append(rows, Row(event.torrent, event.bitfield))
        BY <2>2, <3>4 DEF UpdateFromEvent
      <4>2. /\ Len(rows) \in Nat /\ DOMAIN rows = 1..Len(rows)
            /\ DOMAIN rows' = 1..(Len(rows) + 1)
            /\ \A j \in DOMAIN rows : rows'[j] = rows[j]
            /\ rows'[Len(rows) + 1] = Row(event.torrent, event.bitfield)
        BY <3>2, <4>1
      <4>3. CASE i \in DOMAIN rows
        <5>1. \A j \in 1..i : j \in DOMAIN rows
          BY <4>2, <4>3
        <5>2. i \in 1..i
          BY <4>2, <4>3
        <5>3. \A j \in 1..(i - 1) : j \in 1..i
          BY <4>2, <4>3
        <5>4. IsFirstRow(i, t)
          BY <4>2, <4>3, <5>1, <5>3 DEF IsFirstRow
        <5> QED
          BY <2>5, <3>1, <3>4, <4>2, <4>3, <5>4 DEF RowsOwe
      <4>4. CASE i \notin DOMAIN rows
        <5>1. rows'[i] = Row(event.torrent, event.bitfield)
          BY <4>2, <4>4
        <5>2. event.torrent = t /\ rows'[i].bitfield = event.bitfield
          BY <5>1 DEF IsFirstRow, Row
        <5>3. p \in event.bitfield \/ Owed(t, p, 0 + 1)
          BY <2>3, <3>1, <3>4, <5>2 DEF RecordsOwe
        <5> QED
          BY <2>4, <5>2, <5>3
      <4> QED
        BY <4>3, <4>4
    <3>5. CASE event.type \notin {"Ignored", "GotFileInfo"}
      <4>1. rows' = [j \in DOMAIN rows |->
              IF IsFirstRow(j, event.torrent) THEN Updated(event, rows[j]) ELSE rows[j]]
        BY <2>2, <3>5 DEF UpdateFromEvent
      <4>2. \A j \in DOMAIN rows : rows[j] \in RowType
        BY <3>2
      <4>3. \A j \in DOMAIN rows :
              /\ Updated(event, rows[j]).torrent = rows[j].torrent
              /\ Updated(event, rows[j]).bitfield
                   = rows[j].bitfield \cup (IF event.type = "GotPiece" THEN {event.piece} ELSE {})
        BY <4>2 DEF Updated, RowType
      <4>4. /\ DOMAIN rows' = DOMAIN rows /\ DOMAIN rows = 1..Len(rows) /\ Len(rows) \in Nat
            /\ \A j \in DOMAIN rows : rows'[j].torrent = rows[j].torrent
            /\ \A j \in DOMAIN rows : rows[j].bitfield \subseteq rows'[j].bitfield
        BY <3>2, <4>1, <4>3
      <4>5. \A j \in 1..(i - 1) : j \in DOMAIN rows
        BY <4>4
      <4>6. IsFirstRow(i, t)
        BY <4>4, <4>5 DEF IsFirstRow
      <4>7. p \in rows[i].bitfield \/ Owed(t, p, 0)
        BY <3>1, <4>4, <4>6 DEF RowsOwe
      <4>8. ASSUME event.type = "GotPiece", event.torrent = t, event.piece = p
            PROVE  p \in rows'[i].bitfield
        BY <4>1, <4>3, <4>4, <4>6, <4>8
      <4> QED
        BY <2>5, <4>4, <4>7, <4>8
    <3> QED
      BY <3>3, <3>4, <3>5
  <2> QED
    BY <1>1, <2>6, <2>7 DEF ProgressInv
<1> QED
  BY <1>2, <1>3

\* However the application's start, the managers and its events interleave: what
\* is recorded is shown, or will be by what is on its way.
THEOREM ProgressAlwaysShown == Spec => []ProgressIsShown
<1>1. Init => ProgressInv
  BY DEF Init, ProgressInv, RowsOwe, RecordsOwe
<1>2. ListInv /\ ProgressInv /\ [Next]_vars => ProgressInv'
  <2> SUFFICES ASSUME ListInv, ProgressInv, [Next]_vars PROVE ProgressInv'
    OBVIOUS
  <2>1. CASE UNCHANGED vars
    BY <2>1, QuietKeepsProgress DEF vars, clientVars, eventVars, modelVars
  <2>2. CASE Draw \/ Sends \/ Idles \/ Moves \/ ChangesPage \/ \E t \in Torrent : Presses(t)
    <3>1. UNCHANGED <<entries, stored, announcing, channel, lost, rows>>
      BY <2>2 DEF Draw, Sends, Idles, Moves, ChangesPage, Presses, clientVars, eventVars, modelVars
    <3> QED
      BY <3>1, QuietKeepsProgress
  <2> QED
    BY <2>1, <2>2, ManagerStepsKeepProgress, AddsKeepsProgress, StartKeepsProgress,
       HandleEventKeepsProgress DEF Next, UserInput
<1>3. ProgressInv => ProgressIsShown
  <2> SUFFICES ASSUME ProgressInv, ~lost, NEW t \in Torrent, NEW row \in FirstRow(t),
                      NEW p \in stored[t]
               PROVE  p \in row.bitfield \cup announcing[t]
                              \cup {channel[i].piece : i \in Pending(t, "GotPiece")}
    BY DEF ProgressIsShown
  <2>1. PICK i \in DOMAIN rows : IsFirstRow(i, t) /\ row = rows[i]
    BY DEF FirstRow
  <2>2. p \in row.bitfield \/ Owed(t, p, 0)
    BY <2>1 DEF ProgressInv, RowsOwe
  <2> QED
    BY <2>2 DEF Owed, Pending
<1> QED
  BY <1>1, <1>2, <1>3, ListInvariant, PTL DEF Spec

-----------------------------------------------------------------------------
(* Paused and resumed *)

IsPause(event, t) == event.type \in {"Paused", "Resumed"} /\ event.torrent = t

\* A row of t that says b will say the truth at last, with what is behind the
\* i-th event.
WillSay(t, b, i) ==
  \/ b = paused[t] /\ \A j \in DOMAIN channel : j > i => ~IsPause(channel[j], t)
  \/ \E j \in DOMAIN channel :
       /\ j > i /\ IsPause(channel[j], t)
       /\ \A k \in DOMAIN channel : k > j => ~IsPause(channel[k], t)
       /\ paused[t] = (channel[j].type = "Paused")

RowsWillSay ==
  \A t \in Torrent \ ended : \A i \in DOMAIN rows :
    IsFirstRow(i, t) => WillSay(t, rows[i].is_paused, 0)

\* A record makes a row that is not paused.
RecordsWillSay ==
  \A i \in DOMAIN channel : channel[i].type = "GotFileInfo" =>
    \A t \in Torrent \ ended : channel[i].torrent = t => WillSay(t, FALSE, i)

\* Nobody has told the torrent's manager to pause.
Untouched(t) ==
  /\ ~paused[t] /\ orders[t] = <<>> /\ telling[t] = {}
  /\ \A j \in DOMAIN channel : ~IsPause(channel[j], t)

\* The application does not know the torrent.
Unlisted(t) ==
  /\ \A i \in DOMAIN rows : rows[i].torrent # t
  /\ \A s \in sending : s.torrent # t
  /\ \A i \in DOMAIN channel : channel[i].type = "GotFileInfo" => channel[i].torrent # t

PauseInv ==
  /\ \A t \in Torrent \ ended : manager[t] # "Running" => Untouched(t)
  /\ \A t \in Torrent \ entries : Untouched(t) /\ Unlisted(t)
  /\ Starting => sending = {} /\ \A t \in Torrent : Untouched(t)
  /\ ~lost => RowsWillSay /\ RecordsWillSay

\* What the steps other than an order's leave alone.
Calm ==
  /\ UNCHANGED <<rows, sending>> /\ entries \subseteq entries' /\ ended \subseteq ended'
  /\ \A t \in Torrent : ~paused[t] => ~paused'[t]
  /\ \A t \in Torrent : orders[t] = <<>> => orders'[t] = <<>>
  /\ \A t \in Torrent : telling[t] = {} => telling'[t] = {}
  /\ \A t \in Torrent \ ended' : paused'[t] = paused[t]
  /\ \A t \in Torrent \ ended' : manager'[t] # "Running" => manager[t] # "Running"
  /\ Starting' => Starting

LEMMA EmitRange ==
  ASSUME NEW events \in Seq(Event), Emit(events), channel \in Seq(Event)
  PROVE  \A j \in DOMAIN channel' :
           \/ \E i \in DOMAIN channel : channel'[j] = channel[i]
           \/ \E i \in DOMAIN events : channel'[j] = events[i]
<1> DEFINE all == channel \o events
           over == IF Len(all) > BroadcastSize THEN Len(all) - BroadcastSize ELSE 0
<1>1. /\ all \in Seq(Event) /\ Len(all) \in Nat
      /\ \A j \in DOMAIN all :
           \/ \E i \in DOMAIN channel : all[j] = channel[i]
           \/ \E i \in DOMAIN events : all[j] = events[i]
  BY Concatenated
<1>2. over \in Nat /\ over <= Len(all)
  BY <1>1, ListAssumption
<1>3. CASE Subscribed
  <2>1. channel' = SubSeq(all, over + 1, Len(all))
    BY <1>3 DEF Emit
  <2> HIDE DEF all, over
  <2>2. \A j \in DOMAIN channel' : over + j \in DOMAIN all /\ channel'[j] = all[over + j]
    BY <1>1, <1>2, <2>1
  <2> QED
    BY <1>1, <2>2
<1>4. CASE ~Subscribed
  BY <1>4 DEF Emit, eventVars
<1> QED
  BY <1>3, <1>4

\* Calm steps that send nothing.
LEMMA CalmKeepsPause ==
  ASSUME PauseInv, Calm, UNCHANGED <<channel, lost>>
  PROVE  PauseInv'
<1>1. \A t \in Torrent : Untouched(t) => Untouched(t)'
  BY DEF Calm, Untouched
<1>2. \A t \in Torrent : Unlisted(t) => Unlisted(t)'
  BY DEF Calm, Unlisted
<1>3. \A t \in Torrent \ ended' : \A b, i : WillSay(t, b, i) => WillSay(t, b, i)'
  BY DEF Calm, WillSay
<1>4. RowsWillSay => RowsWillSay'
  BY <1>3 DEF Calm, RowsWillSay, IsFirstRow
<1>5. RecordsWillSay => RecordsWillSay'
  BY <1>3 DEF Calm, RecordsWillSay
<1>6. \A t \in Torrent \ ended' : manager'[t] # "Running" => Untouched(t)'
  BY <1>1 DEF Calm, PauseInv
<1>7. \A t \in Torrent \ entries' : Untouched(t)' /\ Unlisted(t)'
  BY <1>1, <1>2 DEF Calm, PauseInv
<1>8. Starting' => sending' = {} /\ \A t \in Torrent : Untouched(t)'
  BY <1>1 DEF Calm, PauseInv
<1> QED
  BY <1>4, <1>5, <1>6, <1>7, <1>8 DEF PauseInv

\* Calm steps that send other events; a record is of a torrent that is not
\* paused, and that has an entry.
LEMMA EmitKeepsPause ==
  ASSUME ListInv, PauseInv, Calm, NEW events \in Seq(Event), Emit(events),
         \A i \in DOMAIN events : events[i].type \notin {"Paused", "Resumed"},
         \A i \in DOMAIN events : events[i].type = "GotFileInfo" =>
           \A t \in Torrent : events[i].torrent = t =>
             t \in entries' /\ (t \notin ended' => Untouched(t))
  PROVE  PauseInv'
<1>1. channel \in Seq(Event) /\ lagged \in BOOLEAN /\ lost \in BOOLEAN
  BY DEF ListInv, TypeOK
<1>2. \A j \in DOMAIN channel' :
           \/ \E i \in DOMAIN channel : channel'[j] = channel[i]
           \/ \E i \in DOMAIN events : channel'[j] = events[i]
  BY <1>1, EmitRange
<1>3. \A t \in Torrent : Untouched(t) => Untouched(t)'
  BY <1>2 DEF Calm, Untouched, IsPause
<1>4. \A t \in Torrent \ entries' : Unlisted(t) => Unlisted(t)'
  <2> SUFFICES ASSUME NEW t \in Torrent \ entries', Unlisted(t) PROVE Unlisted(t)'
    OBVIOUS
  <2>1. \A i \in DOMAIN channel' : channel'[i].type = "GotFileInfo" => channel'[i].torrent # t
    BY <1>2 DEF Unlisted
  <2> QED
    BY <2>1 DEF Calm, Unlisted
<1>5. \A t \in Torrent \ ended' : manager'[t] # "Running" => Untouched(t)'
  BY <1>3 DEF Calm, PauseInv
<1>6. \A t \in Torrent \ entries' : Untouched(t)' /\ Unlisted(t)'
  BY <1>3, <1>4 DEF Calm, PauseInv
<1>7. Starting' => sending' = {} /\ \A t \in Torrent : Untouched(t)'
  BY <1>3 DEF Calm, PauseInv
<1>8. ASSUME ~lost' PROVE RowsWillSay' /\ RecordsWillSay'
  <2>1. /\ ~Subscribed => channel' = channel
        /\ Subscribed => channel' = channel \o events
        /\ ~lost
    BY <1>1, <1>8, EmitType
  <2>2. RowsWillSay /\ RecordsWillSay
    BY <2>1 DEF PauseInv
  <2>3. CASE ~Subscribed
    <3>1. \A t \in Torrent \ ended' : \A b, i : WillSay(t, b, i) => WillSay(t, b, i)'
      BY <2>1, <2>3 DEF Calm, WillSay
    <3>2. RowsWillSay'
      BY <2>2, <3>1 DEF Calm, RowsWillSay, IsFirstRow
    <3>3. RecordsWillSay'
      BY <2>1, <2>2, <2>3, <3>1 DEF Calm, RecordsWillSay
    <3> QED
      BY <3>2, <3>3
  <2>4. CASE Subscribed
    <3>1. /\ DOMAIN channel = 1..Len(channel) /\ Len(channel) \in Nat
          /\ \A i \in DOMAIN channel : i \in DOMAIN channel' /\ channel'[i] = channel[i]
          /\ DOMAIN channel' = 1..(Len(channel) + Len(events)) /\ Len(events) \in Nat
          /\ \A i \in DOMAIN channel' : i \notin DOMAIN channel =>
               i - Len(channel) \in DOMAIN events /\ channel'[i] = events[i - Len(channel)]
      <4>1. channel' = channel \o events
        BY <2>1, <2>4
      <4> QED
        BY <1>1, <4>1, Concatenated
    <3>2. \A i \in DOMAIN channel' : \A t : IsPause(channel'[i], t) =>
            i \in DOMAIN channel /\ IsPause(channel[i], t)
      BY <3>1 DEF IsPause
    <3>3. \A t \in Torrent \ ended' : \A b, i : WillSay(t, b, i) => WillSay(t, b, i)'
      <4> SUFFICES ASSUME NEW t \in Torrent \ ended', NEW b, NEW i, WillSay(t, b, i)
                   PROVE  WillSay(t, b, i)'
        OBVIOUS
      <4>1. paused'[t] = paused[t]
        BY DEF Calm
      <4>2. CASE b = paused[t] /\ \A j \in DOMAIN channel : j > i => ~IsPause(channel[j], t)
        BY <3>2, <4>1, <4>2 DEF WillSay
      <4>3. ASSUME NEW j \in DOMAIN channel,
                   /\ j > i /\ IsPause(channel[j], t)
                   /\ \A k \in DOMAIN channel : k > j => ~IsPause(channel[k], t)
                   /\ paused[t] = (channel[j].type = "Paused")
            PROVE  WillSay(t, b, i)'
        <5>1. j \in DOMAIN channel' /\ channel'[j] = channel[j]
          BY <3>1
        <5>2. \A k \in DOMAIN channel' : k > j => ~IsPause(channel'[k], t)
          BY <3>2, <4>3
        <5> QED
          BY <4>1, <4>3, <5>1, <5>2 DEF WillSay, IsPause
      <4> QED
        BY <4>2, <4>3 DEF WillSay
    <3>4. RowsWillSay'
      BY <2>2, <3>3 DEF Calm, RowsWillSay, IsFirstRow
    <3>5. ASSUME NEW i \in DOMAIN channel', channel'[i].type = "GotFileInfo",
                 NEW t \in Torrent \ ended', channel'[i].torrent = t
          PROVE  WillSay(t, FALSE, i)'
      <4>1. CASE i \in DOMAIN channel
        <5>1. WillSay(t, FALSE, i)
          BY <2>2, <3>1, <3>5, <4>1 DEF RecordsWillSay, Calm
        <5> QED
          BY <3>3, <5>1
      <4>2. CASE i \notin DOMAIN channel
        <5>1. Untouched(t)
          BY <3>1, <3>5, <4>2
        <5>2. \A j \in DOMAIN channel' : ~IsPause(channel'[j], t)
          BY <3>2, <5>1 DEF Untouched
        <5>3. paused[t] \in BOOLEAN /\ ~paused[t] /\ paused'[t] = paused[t]
          BY <5>1 DEF Untouched, Calm, ListInv, TypeOK
        <5>4. FALSE = paused'[t]
          BY <5>3
        <5> QED
          BY <5>2, <5>4 DEF WillSay
      <4> QED
        BY <4>1, <4>2
    <3>6. RecordsWillSay'
      BY <3>5 DEF RecordsWillSay
    <3> QED
      BY <3>4, <3>6
  <2> QED
    BY <2>3, <2>4
<1> QED
  BY <1>5, <1>6, <1>7, <1>8 DEF PauseInv

\* The manager takes an order: its torrent is known to the application.
LEMMA TakingKeepsPause ==
  ASSUME ListInv, PauseInv, NEW t \in Torrent, ClientMessage(t)
  PROVE  PauseInv'
<1>1. /\ \A u \in Torrent : u # t => orders'[u] = orders[u] /\ telling'[u] = telling[u]
      /\ UNCHANGED <<entries, manager, paused, ended, pc, rows, sending, channel, lost>>
      /\ manager[t] = "Running" /\ orders[t] # <<>>
  BY DEF ClientMessage, Free, eventVars, modelVars, ListInv, TypeOK
<1>2. t \in entries /\ ~Starting
  BY <1>1 DEF PauseInv, Untouched
<1>3. \A u \in Torrent : u # t /\ Untouched(u) => Untouched(u)'
  BY <1>1 DEF Untouched
<1>4. \A u \in Torrent : Unlisted(u) => Unlisted(u)'
  BY <1>1 DEF Unlisted
<1>5. RowsWillSay /\ RecordsWillSay => RowsWillSay' /\ RecordsWillSay'
  BY <1>1 DEF RowsWillSay, RecordsWillSay, WillSay, IsFirstRow
<1>6. ~Starting'
  BY <1>1, <1>2 DEF Starting
<1> QED
  BY <1>1, <1>2, <1>3, <1>4, <1>5, <1>6 DEF PauseInv

\* When it has told its peers, the event that it sends is the last one about
\* pausing.
LEMMA TellingKeepsPause ==
  ASSUME ListInv, PauseInv, NEW t \in Torrent, Told(t)
  PROVE  PauseInv'
<1>1. PICK type \in {"Paused", "Resumed"} :
        Emit(<<TorrentEvent(type, t)>>) /\ paused'[t] = (type = "Paused")
  <2>1. PICK order \in telling[t] :
          /\ paused' = [paused EXCEPT ![t] = order = "Pause"]
          /\ Emit(<<TorrentEvent(IF order = "Pause" THEN "Paused" ELSE "Resumed", t)>>)
    BY DEF Told
  <2>2. paused'[t] = (order = "Pause")
    BY <2>1 DEF ListInv, TypeOK
  <2>3. CASE order = "Pause"
    BY <2>1, <2>2, <2>3
  <2>4. CASE order # "Pause"
    BY <2>1, <2>2, <2>4
  <2> QED
    BY <2>3, <2>4
<1> DEFINE event == TorrentEvent(type, t)
<1>2. <<event>> \in Seq(Event) /\ <<event>>[1] = event /\ DOMAIN <<event>> = {1}
  BY EventTypes
<1>3. event.type = type /\ event.torrent = t
  BY DEF TorrentEvent
<1> HIDE DEF event
<1>4. /\ \A u \in Torrent : u # t => paused'[u] = paused[u] /\ telling'[u] = telling[u]
      /\ UNCHANGED <<entries, manager, orders, ended, pc, rows, sending>>
      /\ telling[t] # {}
  BY DEF Told, modelVars, ListInv, TypeOK
<1>5. channel \in Seq(Event) /\ lagged \in BOOLEAN /\ lost \in BOOLEAN
  BY DEF ListInv, TypeOK
<1>6. t \in entries /\ ~Starting /\ (t \notin ended => manager[t] = "Running")
  BY <1>4 DEF PauseInv, Untouched
<1>7. \A j \in DOMAIN channel' : channel'[j] = event \/ \E i \in DOMAIN channel : channel'[j] = channel[i]
  BY <1>1, <1>2, <1>5, EmitRange DEF event
<1>8. \A u \in Torrent : u # t /\ Untouched(u) => Untouched(u)'
  BY <1>3, <1>4, <1>7 DEF Untouched, IsPause
<1>9. \A u \in Torrent : Unlisted(u) => Unlisted(u)'
  <2> SUFFICES ASSUME NEW u \in Torrent, Unlisted(u) PROVE Unlisted(u)'
    OBVIOUS
  <2>1. \A i \in DOMAIN channel' : channel'[i].type = "GotFileInfo" => channel'[i].torrent # u
    BY <1>3, <1>7 DEF Unlisted
  <2> QED
    BY <1>4, <2>1 DEF Unlisted
<1>10. ASSUME ~lost' PROVE RowsWillSay' /\ RecordsWillSay'
  <2>1. ~lost /\ channel' = channel \o <<event>>
    <3>1. Subscribed
      BY <1>6 DEF Subscribed, Starting
    <3> QED
      BY <1>1, <1>2, <1>5, <1>10, <3>1, EmitType DEF event
  <2>2. RowsWillSay /\ RecordsWillSay
    BY <2>1 DEF PauseInv
  <2> DEFINE last == Len(channel) + 1
  <2>3. /\ DOMAIN channel = 1..Len(channel) /\ Len(channel) \in Nat
        /\ \A i \in DOMAIN channel : i \in DOMAIN channel' /\ channel'[i] = channel[i]
        /\ last \in DOMAIN channel' /\ channel'[last] = event
        /\ DOMAIN channel' = 1..last
        /\ \A i \in DOMAIN channel' : i \notin DOMAIN channel => i = last
    BY <1>2, <1>5, <2>1
  <2> HIDE DEF last
  <2>4. last \in Nat /\ \A i \in DOMAIN channel : i \in Nat /\ i < last
    BY <2>3 DEF last
  <2>5. \A b : \A i \in Nat : i < last => WillSay(t, b, i)'
    <3> SUFFICES ASSUME NEW b, NEW i \in Nat, i < last PROVE WillSay(t, b, i)'
      OBVIOUS
    <3>1. last > i /\ \A k \in DOMAIN channel' : ~(k > last)
      BY <2>3, <2>4
    <3>2. IsPause(channel'[last], t) /\ paused'[t] = (channel'[last].type = "Paused")
      BY <1>1, <1>3, <2>3 DEF IsPause
    <3> QED
      BY <2>3, <3>1, <3>2 DEF WillSay, IsPause
  <2>6. \A u \in Torrent : u # t => \A b, i : WillSay(u, b, i) => WillSay(u, b, i)'
    <3> SUFFICES ASSUME NEW u \in Torrent, u # t, NEW b, NEW i, WillSay(u, b, i)
                 PROVE  WillSay(u, b, i)'
      OBVIOUS
    <3>1. \A j \in DOMAIN channel' : IsPause(channel'[j], u) =>
            j \in DOMAIN channel /\ IsPause(channel[j], u)
      BY <1>3, <2>3 DEF IsPause
    <3>2. CASE b = paused[u] /\ \A j \in DOMAIN channel : j > i => ~IsPause(channel[j], u)
      BY <1>4, <3>1, <3>2 DEF WillSay
    <3>3. ASSUME NEW j \in DOMAIN channel,
                 /\ j > i /\ IsPause(channel[j], u)
                 /\ \A k \in DOMAIN channel : k > j => ~IsPause(channel[k], u)
                 /\ paused[u] = (channel[j].type = "Paused")
          PROVE  WillSay(u, b, i)'
      <4>1. j \in DOMAIN channel' /\ channel'[j] = channel[j]
        BY <2>3
      <4>2. \A k \in DOMAIN channel' : k > j => ~IsPause(channel'[k], u)
        BY <3>1, <3>3
      <4> QED
        BY <1>4, <3>3, <4>1, <4>2 DEF WillSay, IsPause
    <3> QED
      BY <3>2, <3>3 DEF WillSay
  <2>7. RowsWillSay'
    <3>1. 0 \in Nat /\ 0 < last
      BY <2>3 DEF last
    <3> QED
      BY <1>4, <2>2, <2>5, <2>6, <3>1 DEF RowsWillSay, IsFirstRow
  <2>8. ASSUME NEW i \in DOMAIN channel', channel'[i].type = "GotFileInfo",
               NEW u \in Torrent \ ended', channel'[i].torrent = u
        PROVE  WillSay(u, FALSE, i)'
    <3>1. i \in DOMAIN channel /\ channel[i].type = "GotFileInfo" /\ channel[i].torrent = u
      BY <1>3, <2>3, <2>8
    <3>2. CASE u = t
      BY <2>4, <2>5, <3>1, <3>2
    <3>3. CASE u # t
      BY <1>4, <2>2, <2>6, <3>1, <3>3 DEF RecordsWillSay
    <3> QED
      BY <3>2, <3>3
  <2>9. RecordsWillSay'
    BY <2>8 DEF RecordsWillSay
  <2> QED
    BY <2>7, <2>9
<1>11. ~Starting'
  BY <1>4, <1>6 DEF Starting
<1> QED
  BY <1>4, <1>6, <1>8, <1>9, <1>10, <1>11 DEF PauseInv

LEMMA ManagerStepsKeepPause ==
  ASSUME ListInv, PauseInv, NEW t \in Torrent, ManagerSteps(t)
  PROVE  PauseInv'
<1> USE EventTypes
<1>1. /\ paused \in [Torrent -> BOOLEAN] /\ stored \in [Torrent -> SUBSET Piece]
      /\ orders \in [Torrent -> Seq(Order)]
      /\ manager \in [Torrent -> {"None", "Spawned", "Running", "Ended"}]
  BY DEF ListInv, TypeOK
<1>2. ASSUME NEW event \in Event, Emit(<<event>>), Calm,
             event.type \notin {"Paused", "Resumed"},
             event.type = "GotFileInfo" =>
               event.torrent = t /\ t \in entries' /\ (t \notin ended' => Untouched(t))
      PROVE  PauseInv'
  <2>1. <<event>> \in Seq(Event) /\ \A i \in DOMAIN <<event>> : <<event>>[i] = event
    OBVIOUS
  <2> QED
    BY <1>2, <2>1, EmitKeepsPause
<1>3. CASE Listener(t)
  <2>1. /\ UNCHANGED <<rows, sending, entries, ended, paused, orders, telling, pc>>
        /\ manager' = [manager EXCEPT ![t] = "Spawned"] /\ manager[t] = "None"
    BY <1>3 DEF Listener, StartFromEntry, modelVars
  <2>2. Calm
    BY <1>1, <2>1 DEF Calm, Starting
  <2>3. t \in entries' /\ (t \notin ended' => Untouched(t))
    BY <1>3, <2>1 DEF Listener, PauseInv
  <2> QED
    BY <1>1, <1>2, <1>3, <2>2, <2>3 DEF Listener, StartFromEntry, GotFileInfo
<1>4. CASE Runs(t)
  <2>1. /\ UNCHANGED <<rows, sending, entries, ended, paused, orders, telling, pc>>
        /\ manager' = [manager EXCEPT ![t] = "Running"]
    BY <1>4 DEF Runs, modelVars
  <2>2. Calm
    BY <1>1, <2>1 DEF Calm, Starting
  <2> QED
    BY <1>2, <1>4, <2>2 DEF Runs, Ignored
<1>5. CASE GotMetadata(t)
  <2>1. /\ UNCHANGED <<rows, sending, ended, paused, orders, telling, manager, pc>>
        /\ entries' = entries \cup {t} /\ t \notin entries
    BY <1>5 DEF GotMetadata, modelVars
  <2>2. Calm
    BY <2>1 DEF Calm, Starting
  <2>3. t \in entries' /\ Untouched(t)
    BY <2>1 DEF PauseInv
  <2> QED
    BY <1>2, <1>5, <2>2, <2>3 DEF GotMetadata, GotFileInfo
<1>6. CASE Announces(t)
  <2>1. UNCHANGED <<rows, sending, entries, ended, paused, orders, telling, manager, pc>>
    BY <1>6 DEF Announces, modelVars
  <2>2. Calm
    BY <2>1 DEF Calm, Starting
  <2>3. PICK piece \in announcing[t] :
          Emit(<<GotPiece(t, piece)>> \o (IF stored[t] = Piece THEN <<Ignored>> ELSE <<>>))
    BY <1>6 DEF Announces
  <2> DEFINE rest == IF stored[t] = Piece THEN <<Ignored>> ELSE <<>>
             events == <<GotPiece(t, piece)>> \o rest
  <2>4. piece \in Piece
    BY DEF ListInv, TypeOK
  <2>5. <<GotPiece(t, piece)>> \in Seq(Event) /\ rest \in Seq(Event)
    BY <2>4
  <2>6. events \in Seq(Event)
    BY <2>5, ConcatProperties
  <2>7. \A i \in DOMAIN events : events[i] = GotPiece(t, piece) \/ events[i] = Ignored
    <3>1. rest = <<>> \/ rest = <<Ignored>>
      OBVIOUS
    <3> QED
      BY <2>5, <3>1, Concatenated
  <2> HIDE DEF events
  <2>8. \A i \in DOMAIN events : events[i].type \notin {"Paused", "Resumed", "GotFileInfo"}
    BY <2>7 DEF GotPiece, Ignored
  <2>9. Emit(events)
    BY <2>3 DEF events
  <2> QED
    BY <2>2, <2>6, <2>8, <2>9, EmitKeepsPause
<1>7. CASE ManagerEnds(t)
  <2>1. /\ UNCHANGED <<rows, sending, entries, telling, pc, channel, lost>>
        /\ ended' = ended \cup {t} /\ manager' = [manager EXCEPT ![t] = "Ended"]
        /\ paused' = [paused EXCEPT ![t] = FALSE] /\ orders' = [orders EXCEPT ![t] = <<>>]
    BY <1>7 DEF ManagerEnds, eventVars, modelVars
  <2>2. Calm
    BY <1>1, <2>1 DEF Calm, Starting
  <2> QED
    BY <2>1, <2>2, CalmKeepsPause
<1>10. CASE Unregisters(t)
  <2>1. /\ UNCHANGED <<rows, sending, entries, ended, paused, orders, telling, pc>>
        /\ manager' = [manager EXCEPT ![t] = "None"] /\ manager[t] = "Ended"
    BY <1>10 DEF Unregisters, modelVars
  <2>2. Calm
    BY <1>1, <2>1 DEF Calm, Starting
  <2> QED
    BY <1>2, <1>10, <2>2 DEF Unregisters, Ignored
<1>11. ASSUME NEW type \in Reached, Panics(t, type) PROVE PauseInv'
  <2>1. UNCHANGED <<rows, sending, entries, ended, paused, orders, telling, manager, pc, channel, lost>>
    BY <1>11 DEF Panics, eventVars, modelVars
  <2>2. Calm
    BY <2>1 DEF Calm, Starting
  <2> QED
    BY <2>1, <2>2, CalmKeepsPause
<1>8. ASSUME NEW piece \in Piece, Stores(t, piece) \/ Discards(t, piece) PROVE PauseInv'
  <2>1. UNCHANGED <<rows, sending, entries, ended, paused, orders, telling, manager, pc, channel, lost>>
    BY <1>8 DEF Stores, Discards, eventVars, modelVars
  <2>2. Calm
    BY <2>1 DEF Calm, Starting
  <2> QED
    BY <2>1, <2>2, CalmKeepsPause
<1>9. ASSUME NEW type \in Reached, Connects(t, type) \/ Disconnects(t, type) PROVE PauseInv'
  <2>1. UNCHANGED <<rows, sending, entries, ended, paused, orders, telling, manager, pc>>
    BY <1>9 DEF Connects, Disconnects, modelVars
  <2>2. Calm
    BY <2>1 DEF Calm, Starting
  <2>3. PICK event \in {"NewConnection", "Disconnected"} : Emit(<<PeerEvent(event, t, type)>>)
    BY <1>9 DEF Connects, Disconnects
  <2>4. PeerEvent(event, t, type) \in Event /\ PeerEvent(event, t, type).type = event
    BY ListAssumption DEF PeerEvent
  <2> QED
    BY <1>2, <2>2, <2>3, <2>4
<1> QED
  BY <1>3, <1>4, <1>5, <1>6, <1>7, <1>8, <1>9, <1>10, <1>11, TakingKeepsPause, TellingKeepsPause
     DEF ManagerSteps

LEMMA AddsKeepsPause ==
  ASSUME ListInv, PauseInv, NEW t \in Torrent, Adds(t)
  PROVE  PauseInv'
<1>1. /\ UNCHANGED <<rows, sending, paused, orders, telling, ended>> /\ entries \subseteq entries'
      /\ ~Starting' /\ manager[t] # "Spawned"
  BY DEF Adds, Starting
<1>2. \A u \in Torrent \ ended' : manager'[u] # "Running" => manager[u] # "Running"
  BY DEF Adds, StartFromEntry, ListInv, TypeOK
<1>3. Calm
  BY <1>1, <1>2 DEF Calm
<1>4. CASE UNCHANGED eventVars
  BY <1>3, <1>4, CalmKeepsPause DEF eventVars
<1>5. ASSUME NEW bitfield \in SUBSET Piece, StartFromEntry(t, bitfield), t \in entries'
      PROVE  PauseInv'
  <2> DEFINE event == GotFileInfo(t, bitfield)
  <2>1. <<event>> \in Seq(Event) /\ \A i \in DOMAIN <<event>> : <<event>>[i] = event
    BY EventTypes
  <2>2. event.type = "GotFileInfo" /\ event.torrent = t
    BY DEF GotFileInfo
  <2>3. Emit(<<event>>) /\ manager[t] = "None"
    BY <1>5 DEF StartFromEntry
  <2> HIDE DEF event
  <2>4. t \notin ended' => Untouched(t)
    BY <1>1, <2>3 DEF PauseInv
  <2> QED
    BY <1>3, <1>5, <2>1, <2>2, <2>3, <2>4, EmitKeepsPause
<1>6. stored[t] \in SUBSET Piece
  BY DEF ListInv, TypeOK
<1> QED
  BY <1>4, <1>5, <1>6 DEF Adds

\* The first rows are not paused, like everything before a key was pressed.
LEMMA StartKeepsPause ==
  ASSUME ListInv, PauseInv, Build \/ Subscribe \/ List \/ Restarts
  PROVE  PauseInv'
<1>1. CASE Build \/ Subscribe
  <2>1. /\ UNCHANGED <<entries, paused, orders, telling, ended, channel, lost, rows, sending>>
        /\ Starting
    BY <1>1 DEF Build, Subscribe, Starting, clientVars, eventVars, modelVars
  <2>2. \A t \in Torrent : Untouched(t) /\ Untouched(t)'
    BY <2>1 DEF PauseInv, Untouched
  <2>3. sending' = {} /\ \A t \in Torrent : Unlisted(t) => Unlisted(t)'
    BY <2>1 DEF PauseInv, Unlisted
  <2>4. RowsWillSay /\ RecordsWillSay => RowsWillSay' /\ RecordsWillSay'
    BY <2>1 DEF RowsWillSay, RecordsWillSay, WillSay, IsFirstRow
  <2> QED
    BY <2>1, <2>2, <2>3, <2>4 DEF PauseInv
<1>2. CASE List
  <2>1. PICK listed \in [1..Cardinality(entries) -> entries] :
          rows' = [i \in DOMAIN listed |-> Row(listed[i], stored[listed[i]])]
    BY <1>2 DEF List
  <2>2. /\ UNCHANGED <<entries, paused, orders, telling, ended, channel, lost, sending>>
        /\ Starting /\ ~Starting'
    BY <1>2 DEF List, Starting, clientVars, eventVars
  <2>3. \A i \in DOMAIN rows' : rows'[i].torrent \in entries /\ rows'[i].is_paused = FALSE
    BY <2>1 DEF Row
  <2>4. \A t \in Torrent : Untouched(t) /\ Untouched(t)'
    BY <2>2 DEF PauseInv, Untouched
  <2>5. \A t \in Torrent \ entries' : Unlisted(t)'
    BY <2>2, <2>3 DEF PauseInv, Unlisted
  <2>6. \A t \in Torrent : \A i : WillSay(t, FALSE, i)'
    <3> SUFFICES ASSUME NEW t \in Torrent, NEW i PROVE WillSay(t, FALSE, i)'
      OBVIOUS
    <3>1. paused'[t] \in BOOLEAN
      BY <2>2 DEF ListInv, TypeOK
    <3>2. FALSE = paused'[t]
      BY <2>4, <3>1 DEF Untouched
    <3> QED
      BY <2>4, <3>2 DEF WillSay, Untouched
  <2>7. RowsWillSay' /\ RecordsWillSay'
    BY <2>3, <2>6 DEF RowsWillSay, RecordsWillSay
  <2> QED
    BY <2>2, <2>4, <2>5, <2>7 DEF PauseInv
<1>3. CASE Restarts
  <2>1. /\ channel' = <<>> /\ rows' = <<>> /\ sending' = {} /\ UNCHANGED entries
        /\ \A t \in Torrent : paused'[t] = FALSE /\ orders'[t] = <<>> /\ telling'[t] = {}
    BY <1>3 DEF Restarts
  <2>2. \A t \in Torrent : Untouched(t)' /\ Unlisted(t)'
    BY <2>1 DEF Untouched, Unlisted
  <2>3. RowsWillSay' /\ RecordsWillSay'
    BY <2>1 DEF RowsWillSay, RecordsWillSay
  <2> QED
    BY <2>1, <2>2, <2>3 DEF PauseInv
<1> QED
  BY <1>1, <1>2, <1>3

\* A key is pressed on a row, and so for a torrent that has a record.
LEMMA PressingKeepsPause ==
  ASSUME ListInv, PauseInv, (\E t \in Torrent : Presses(t)) \/ Sends
  PROVE  PauseInv'
<1>1. /\ UNCHANGED <<entries, paused, telling, ended, manager, channel, lost, rows>>
      /\ ~Starting /\ ~Starting'
  <2>1. CASE \E t \in Torrent : Presses(t)
    BY <2>1 DEF Presses, Starting, clientVars, eventVars
  <2>2. CASE Sends
    <3>1. UNCHANGED <<entries, paused, telling, ended, manager, channel, lost, rows>> /\ ~Starting'
      BY <2>2 DEF Sends, Starting, eventVars
    <3>2. ~Starting
      BY <2>2 DEF Sends, PauseInv
    <3> QED
      BY <3>1, <3>2
  <2> QED
    BY <2>1, <2>2
<1>2. \A t \in Torrent : \A b, i : WillSay(t, b, i) => WillSay(t, b, i)'
  BY <1>1 DEF WillSay
<1>3. RowsWillSay /\ RecordsWillSay => RowsWillSay' /\ RecordsWillSay'
  BY <1>1, <1>2 DEF RowsWillSay, RecordsWillSay, IsFirstRow
<1>4. CASE \E t \in Torrent : Presses(t)
  <2>1. PICK t \in Torrent : Presses(t)
    BY <1>4
  <2>2. UNCHANGED orders /\ Index + 1 \in DOMAIN rows /\ rows[Index + 1].torrent = t
    BY <2>1 DEF Presses, clientVars
  <2>3. \A s \in sending' : s \in sending \/ s.torrent = t
    BY <2>1 DEF Presses
  <2>4. t \in entries
    BY <2>2 DEF PauseInv, Unlisted
  <2>5. \A u \in Torrent : Untouched(u) => Untouched(u)'
    BY <1>1, <2>2 DEF Untouched
  <2>6. \A u \in Torrent \ entries : Unlisted(u) => Unlisted(u)'
    BY <1>1, <2>3, <2>4 DEF Unlisted
  <2> QED
    BY <1>1, <1>3, <2>5, <2>6 DEF PauseInv
<1>5. CASE Sends
  <2>1. PICK s \in sending :
          \/ UNCHANGED orders
          \/ /\ manager[s.torrent] = "Running"
             /\ orders' = [orders EXCEPT ![s.torrent] = Append(@, s.order)]
    BY <1>5 DEF Sends
  <2>2. s.torrent \in entries /\ sending' = {}
    BY <1>5 DEF Sends, PauseInv, Unlisted, ListInv, TypeOK
  <2>3. \A u \in Torrent : u # s.torrent \/ manager[u] # "Running" => orders'[u] = orders[u]
    BY <2>1 DEF ListInv, TypeOK
  <2>4. \A u \in Torrent : (u # s.torrent \/ manager[u] # "Running") /\ Untouched(u) => Untouched(u)'
    BY <1>1, <2>3 DEF Untouched
  <2>5. \A u \in Torrent : Unlisted(u) => Unlisted(u)'
    BY <1>1, <2>2 DEF Unlisted
  <2> QED
    BY <1>1, <1>3, <2>2, <2>4, <2>5 DEF PauseInv
<1> QED
  BY <1>4, <1>5

\* What an event does to the row of the torrent.
LEMMA PausedByEvent ==
  ASSUME NEW event \in Event, NEW row \in RowType
  PROVE  /\ Updated(event, row).torrent = row.torrent
         /\ event.type = "Paused" => Updated(event, row).is_paused = TRUE
         /\ event.type = "Resumed" => Updated(event, row).is_paused = FALSE
         /\ event.type \notin {"Paused", "Resumed"} => Updated(event, row).is_paused = row.is_paused
<1>1. row.is_paused \in BOOLEAN
  BY DEF RowType
<1>2. /\ Updated(event, row).torrent = row.torrent
      /\ Updated(event, row).is_paused
           = (event.type = "Paused" \/ (row.is_paused /\ event.type # "Resumed"))
  BY DEF Updated, RowType
<1> QED
  BY <1>1, <1>2

\* Taking an event, the application does what the event says.
LEMMA HandleEventKeepsPause ==
  ASSUME ListInv, PauseInv, HandleEvent
  PROVE  PauseInv'
<1>1. /\ UNCHANGED <<entries, paused, orders, telling, ended, manager, lost, sending>>
      /\ ~Starting /\ ~Starting'
  BY DEF HandleEvent, clientVars, Starting
<1>2. CASE lagged \/ channel = <<>>
  <2>1. UNCHANGED <<channel, rows>>
    BY <1>2 DEF HandleEvent
  <2>2. Calm
    BY <1>1, <2>1 DEF Calm
  <2> QED
    BY <1>1, <2>1, <2>2, CalmKeepsPause
<1>3. CASE ~lagged /\ channel # <<>>
  <2> DEFINE event == Head(channel)
  <2>1. channel \in Seq(Event) /\ rows \in Seq(RowType) /\ paused \in [Torrent -> BOOLEAN]
    BY DEF ListInv, TypeOK, RowType
  <2>2. channel' = Tail(channel) /\ UpdateFromEvent(event)
    BY <1>3 DEF HandleEvent
  <2>3. /\ 1 \in DOMAIN channel /\ event = channel[1] /\ event \in Event
        /\ \A i \in DOMAIN channel : i \in Nat /\ i > 0
        /\ \A i \in DOMAIN channel' : i \in Nat /\ i + 1 \in DOMAIN channel /\ channel'[i] = channel[i + 1]
        /\ \A i \in DOMAIN channel : i > 1 => i - 1 \in DOMAIN channel' /\ channel'[i - 1] = channel[i]
    BY <1>3, <2>1, <2>2
  <2> HIDE DEF event
  <2>4. \A t \in Torrent : Untouched(t) => Untouched(t)'
    BY <1>1, <2>3 DEF Untouched, IsPause
  <2>5. ASSUME NEW t \in Torrent, NEW b, NEW i \in Nat, WillSay(t, b, i + 1)
        PROVE  WillSay(t, b, i)'
    <3>1. CASE b = paused[t] /\ \A j \in DOMAIN channel : j > i + 1 => ~IsPause(channel[j], t)
      <4>1. \A j \in DOMAIN channel' : j > i => ~IsPause(channel'[j], t)
        <5> SUFFICES ASSUME NEW j \in DOMAIN channel', j > i PROVE ~IsPause(channel'[j], t)
          OBVIOUS
        <5>1. j + 1 \in DOMAIN channel /\ channel'[j] = channel[j + 1] /\ j + 1 > i + 1
          BY <2>3
        <5> QED
          BY <3>1, <5>1
      <4> QED
        BY <1>1, <3>1, <4>1 DEF WillSay, IsPause
    <3>2. ASSUME NEW j \in DOMAIN channel,
                 /\ j > i + 1 /\ IsPause(channel[j], t)
                 /\ \A k \in DOMAIN channel : k > j => ~IsPause(channel[k], t)
                 /\ paused[t] = (channel[j].type = "Paused")
          PROVE  WillSay(t, b, i)'
      <4>1. j - 1 \in DOMAIN channel' /\ channel'[j - 1] = channel[j] /\ j - 1 > i
        BY <2>3, <3>2
      <4>2. \A k \in DOMAIN channel' : k > j - 1 => ~IsPause(channel'[k], t)
        <5> SUFFICES ASSUME NEW k \in DOMAIN channel', k > j - 1 PROVE ~IsPause(channel'[k], t)
          OBVIOUS
        <5>1. k + 1 \in DOMAIN channel /\ channel'[k] = channel[k + 1] /\ k + 1 > j
          BY <2>3
        <5> QED
          BY <3>2, <5>1
      <4> QED
        BY <1>1, <3>2, <4>1, <4>2 DEF WillSay, IsPause
    <3> QED
      BY <2>5, <3>1, <3>2 DEF WillSay
  <2>6. ASSUME NEW t \in Torrent, NEW b, WillSay(t, b, 0), ~IsPause(event, t)
        PROVE  WillSay(t, b, 0)'
    <3>1. WillSay(t, b, 0 + 1)
      <4>1. \A j \in DOMAIN channel : IsPause(channel[j], t) => j > 0 + 1
        <5> SUFFICES ASSUME NEW j \in DOMAIN channel, IsPause(channel[j], t) PROVE j > 0 + 1
          OBVIOUS
        <5>1. j # 1 /\ j \in Nat /\ j > 0
          BY <2>3, <2>6
        <5> QED
          BY <5>1
      <4>2. CASE b = paused[t] /\ \A j \in DOMAIN channel : j > 0 => ~IsPause(channel[j], t)
        BY <2>3, <4>2 DEF WillSay
      <4>3. CASE ~(b = paused[t] /\ \A j \in DOMAIN channel : j > 0 => ~IsPause(channel[j], t))
        BY <2>6, <4>1, <4>3 DEF WillSay
      <4> QED
        BY <4>2, <4>3
    <3> QED
      BY <2>5, <3>1
  <2>7. ASSUME NEW t \in Torrent, NEW b, NEW c, WillSay(t, c, 0), IsPause(event, t),
               b = (event.type = "Paused")
        PROVE  WillSay(t, b, 0)'
    <3>1. PICK j \in DOMAIN channel :
            /\ j > 0 /\ IsPause(channel[j], t)
            /\ \A k \in DOMAIN channel : k > j => ~IsPause(channel[k], t)
            /\ paused[t] = (channel[j].type = "Paused")
      BY <2>3, <2>7 DEF WillSay
    <3>2. WillSay(t, b, 0 + 1)
      <4>1. CASE j = 1
        BY <2>3, <2>7, <3>1, <4>1 DEF WillSay
      <4>2. CASE j > 0 + 1
        BY <3>1, <4>2 DEF WillSay
      <4> QED
        BY <2>3, <4>1, <4>2
    <3> QED
      BY <2>5, <3>2
  <2>8. ASSUME ~lost' PROVE RecordsWillSay'
    <3>1. RecordsWillSay
      BY <1>1, <2>8 DEF PauseInv
    <3> SUFFICES ASSUME NEW i \in DOMAIN channel', channel'[i].type = "GotFileInfo",
                        NEW t \in Torrent \ ended', channel'[i].torrent = t
                 PROVE  WillSay(t, FALSE, i)'
      BY DEF RecordsWillSay
    <3>2. i \in Nat /\ i + 1 \in DOMAIN channel /\ channel'[i] = channel[i + 1]
      BY <2>3
    <3>3. WillSay(t, FALSE, i + 1)
      BY <1>1, <3>1, <3>2 DEF RecordsWillSay
    <3> QED
      BY <2>5, <3>2, <3>3
  <2>9. CASE event.type = "Ignored"
    <3>1. rows' = rows
      BY <2>2, <2>9 DEF UpdateFromEvent
    <3>2. \A t \in Torrent : Unlisted(t) => Unlisted(t)'
      BY <1>1, <2>3, <3>1 DEF Unlisted
    <3>3. \A t : ~IsPause(event, t)
      BY <2>9 DEF IsPause
    <3>4. ~lost' => RowsWillSay'
      BY <1>1, <2>6, <3>1, <3>3 DEF PauseInv, RowsWillSay, IsFirstRow
    <3> QED
      BY <1>1, <2>4, <2>8, <3>2, <3>4 DEF PauseInv
  <2>10. CASE event.type = "GotFileInfo"
    <3>1. rows' = Append(rows, Row(event.torrent, event.bitfield))
      BY <2>2, <2>10 DEF UpdateFromEvent
    <3>2. /\ Len(rows) \in Nat /\ DOMAIN rows = 1..Len(rows)
          /\ DOMAIN rows' = 1..(Len(rows) + 1)
          /\ \A j \in DOMAIN rows : rows'[j] = rows[j]
          /\ rows'[Len(rows) + 1] = Row(event.torrent, event.bitfield)
      BY <2>1, <3>1
    <3>3. \A t \in Torrent : Unlisted(t) => Unlisted(t)'
      <4> SUFFICES ASSUME NEW t \in Torrent, Unlisted(t) PROVE Unlisted(t)'
        OBVIOUS
      <4>1. event.torrent # t
        BY <2>3, <2>10 DEF Unlisted
      <4>2. Row(event.torrent, event.bitfield).torrent # t
        BY <4>1 DEF Row
      <4>3. \A i \in DOMAIN rows' : rows'[i].torrent # t
        <5> SUFFICES ASSUME NEW i \in DOMAIN rows' PROVE rows'[i].torrent # t
          OBVIOUS
        <5>1. i \in DOMAIN rows \/ i = Len(rows) + 1
          BY <3>2
        <5> QED
          BY <3>2, <4>2, <5>1 DEF Unlisted
      <4> QED
        BY <1>1, <2>3, <4>3 DEF Unlisted
    <3>4. \A t : ~IsPause(event, t)
      BY <2>10 DEF IsPause
    <3>5. ASSUME ~lost', NEW t \in Torrent \ ended', NEW i \in DOMAIN rows', IsFirstRow(i, t)',
                 NEW b, b = rows'[i].is_paused
          PROVE  WillSay(t, b, 0)'
      <4>1. RowsWillSay /\ RecordsWillSay
        BY <1>1, <3>5 DEF PauseInv
      <4>2. CASE i \in DOMAIN rows
        <5>1. \A j \in 1..i : j \in DOMAIN rows
          BY <3>2, <4>2
        <5>2. i \in 1..i /\ \A j \in 1..(i - 1) : j \in 1..i
          BY <3>2, <4>2
        <5>3. IsFirstRow(i, t)
          BY <3>2, <3>5, <5>1, <5>2 DEF IsFirstRow
        <5>4. WillSay(t, rows[i].is_paused, 0)
          BY <1>1, <4>1, <4>2, <5>3 DEF RowsWillSay
        <5> QED
          BY <2>6, <3>2, <3>4, <3>5, <4>2, <5>4
      <4>3. CASE i \notin DOMAIN rows
        <5>1. rows'[i] = Row(event.torrent, event.bitfield)
          BY <3>2, <4>3
        <5>2. event.torrent = t /\ rows'[i].is_paused = FALSE
          BY <3>5, <5>1 DEF IsFirstRow, Row
        <5>3. WillSay(t, FALSE, 0 + 1)
          <6>1. WillSay(t, FALSE, 1)
            BY <1>1, <2>3, <2>10, <4>1, <5>2 DEF RecordsWillSay
          <6>2. 1 = 0 + 1
            OBVIOUS
          <6> QED
            BY <6>1, <6>2
        <5> QED
          BY <2>5, <3>5, <5>2, <5>3
      <4> QED
        BY <4>2, <4>3
    <3>6. ~lost' => RowsWillSay'
      BY <3>5 DEF RowsWillSay
    <3> QED
      BY <1>1, <2>4, <2>8, <3>3, <3>6 DEF PauseInv
  <2>11. CASE event.type \notin {"Ignored", "GotFileInfo"}
    <3>1. rows' = [j \in DOMAIN rows |->
            IF IsFirstRow(j, event.torrent) THEN Updated(event, rows[j]) ELSE rows[j]]
      BY <2>2, <2>11 DEF UpdateFromEvent
    <3>2. \A j \in DOMAIN rows : rows[j] \in RowType
      BY <2>1
    <3>3. /\ DOMAIN rows' = DOMAIN rows /\ DOMAIN rows = 1..Len(rows) /\ Len(rows) \in Nat
          /\ \A j \in DOMAIN rows : rows'[j].torrent = rows[j].torrent
      <4>1. \A j \in DOMAIN rows : Updated(event, rows[j]).torrent = rows[j].torrent
        BY <2>3, <3>2, PausedByEvent
      <4> QED
        BY <2>1, <3>1, <4>1
    <3>4. \A t \in Torrent : Unlisted(t) => Unlisted(t)'
      BY <1>1, <2>3, <3>3 DEF Unlisted
    <3>5. ASSUME ~lost', NEW t \in Torrent \ ended', NEW i \in DOMAIN rows', IsFirstRow(i, t)',
                 NEW b, b = rows'[i].is_paused
          PROVE  WillSay(t, b, 0)'
      <4>1. \A j \in 1..(i - 1) : j \in DOMAIN rows
        BY <3>3
      <4>2. IsFirstRow(i, t)
        BY <3>3, <3>5, <4>1 DEF IsFirstRow
      <4>3. WillSay(t, rows[i].is_paused, 0)
        BY <1>1, <3>3, <3>5, <4>2 DEF PauseInv, RowsWillSay
      <4>4. CASE IsPause(event, t)
        <5>1. rows'[i] = Updated(event, rows[i])
          BY <3>1, <3>3, <4>2, <4>4 DEF IsPause
        <5>2. rows'[i].is_paused = (event.type = "Paused")
          <6>1. rows[i] \in RowType /\ event \in Event
            BY <2>3, <3>2, <3>3
          <6>2. CASE event.type = "Paused"
            <7>1. Updated(event, rows[i]).is_paused = TRUE
              BY <6>1, <6>2, PausedByEvent
            <7>2. (event.type = "Paused") = TRUE
              BY <6>2
            <7> QED
              BY <5>1, <7>1, <7>2
          <6>3. CASE event.type = "Resumed"
            <7>1. Updated(event, rows[i]).is_paused = FALSE
              BY <6>1, <6>3, PausedByEvent
            <7>2. (event.type = "Paused") = FALSE
              BY <6>3
            <7> QED
              BY <5>1, <7>1, <7>2
          <6> QED
            BY <4>4, <6>2, <6>3 DEF IsPause
        <5> QED
          BY <2>7, <3>5, <4>3, <4>4, <5>2
      <4>5. CASE ~IsPause(event, t)
        <5>1. rows'[i].is_paused = rows[i].is_paused
          <6>1. CASE event.torrent = t
            BY <2>3, <3>1, <3>2, <3>3, <4>5, <6>1, PausedByEvent DEF IsPause
          <6>2. CASE event.torrent # t
            BY <3>1, <3>3, <4>2, <6>2 DEF IsFirstRow
          <6> QED
            BY <6>1, <6>2
        <5> QED
          BY <2>6, <3>5, <4>3, <4>5, <5>1
      <4> QED
        BY <4>4, <4>5
    <3>6. ~lost' => RowsWillSay'
      BY <3>5 DEF RowsWillSay
    <3> QED
      BY <1>1, <2>4, <2>8, <3>4, <3>6 DEF PauseInv
  <2> QED
    BY <2>9, <2>10, <2>11
<1> QED
  BY <1>2, <1>3

\* However keys, orders, the managers' ends and the events interleave: the row
\* of a torrent says whether it is paused, or will by the last event on its way.
THEOREM PausedAlwaysShown == Spec => []PausedIsShown
<1>1. Init => PauseInv
  BY DEF Init, PauseInv, Untouched, Unlisted, RowsWillSay, RecordsWillSay
<1>2. ListInv /\ PauseInv /\ [Next]_vars => PauseInv'
  <2> SUFFICES ASSUME ListInv, PauseInv, [Next]_vars PROVE PauseInv'
    OBVIOUS
  <2>1. CASE UNCHANGED vars
    <3>1. Calm /\ UNCHANGED <<channel, lost>>
      BY <2>1 DEF Calm, Starting, vars, clientVars, eventVars, modelVars
    <3> QED
      BY <3>1, CalmKeepsPause
  <2>2. CASE Draw \/ Idles \/ Moves \/ ChangesPage
    <3>1. /\ UNCHANGED <<clientVars, eventVars, rows, sending>>
          /\ ~Starting'
      BY <2>2 DEF Draw, Idles, Moves, ChangesPage, Starting, modelVars
    <3>2. Calm /\ UNCHANGED <<channel, lost>>
      BY <3>1 DEF Calm, clientVars, eventVars
    <3> QED
      BY <3>2, CalmKeepsPause
  <2> QED
    BY <2>1, <2>2, ManagerStepsKeepPause, AddsKeepsPause, StartKeepsPause, PressingKeepsPause,
       HandleEventKeepsPause DEF Next, UserInput
<1>3. ListInv /\ PauseInv => PausedIsShown
  <2> SUFFICES ASSUME ListInv, PauseInv, ~lost, NEW t \in Torrent \ ended, NEW row \in FirstRow(t)
               PROVE  \/ PauseEvents(t) = {} /\ row.is_paused = paused[t]
                      \/ \E i \in PauseEvents(t) :
                           /\ \A j \in PauseEvents(t) : j <= i
                           /\ paused[t] = (channel[i].type = "Paused")
    BY DEF PausedIsShown
  <2>1. PICK i \in DOMAIN rows : IsFirstRow(i, t) /\ row = rows[i]
    BY DEF FirstRow
  <2>2. WillSay(t, row.is_paused, 0)
    BY <2>1 DEF PauseInv, RowsWillSay
  <2>3. \A j \in DOMAIN channel : j \in Nat /\ j > 0
    BY DEF ListInv
  <2>4. PauseEvents(t) = {j \in DOMAIN channel : IsPause(channel[j], t)}
    BY DEF PauseEvents, Pending, IsPause
  <2>5. CASE \A j \in DOMAIN channel : ~IsPause(channel[j], t)
    BY <2>2, <2>4, <2>5 DEF WillSay
  <2>6. CASE \E j \in DOMAIN channel : IsPause(channel[j], t)
    <3>1. PICK j \in DOMAIN channel :
            /\ j > 0 /\ IsPause(channel[j], t)
            /\ \A k \in DOMAIN channel : k > j => ~IsPause(channel[k], t)
            /\ paused[t] = (channel[j].type = "Paused")
      BY <2>2, <2>3, <2>6 DEF WillSay
    <3>2. j \in PauseEvents(t) /\ \A k \in PauseEvents(t) : k <= j
      BY <2>3, <2>4, <3>1
    <3> QED
      BY <3>1, <3>2
  <2> QED
    BY <2>5, <2>6
<1> QED
  BY <1>1, <1>2, <1>3, ListInvariant, PTL DEF Spec

-----------------------------------------------------------------------------
(* The numbers of connections *)

IsPeer(event, type, t, c) ==
  event.type = type /\ event.torrent = t /\ event.connection_type = c

After(type, t, c, i) == {j \in DOMAIN channel : j > i /\ IsPeer(channel[j], type, t, c)}
CountAfter(type, t, c, i) == Cardinality(After(type, t, c, i))

\* The connections whose end the application has not been told of.
Known(t, c) == open[t][c] + panicked[t][c]

\* Of the connections that were opened after the i-th event, those that are not
\* open any more have an event behind it that says so.
OpenCovers(i) ==
  \A t \in Torrent, c \in ConnectionType :
    CountAfter("NewConnection", t, c, i) <= Known(t, c) + CountAfter("Disconnected", t, c, i)

OpenCoversRows ==
  \A t \in Torrent : \A i \in DOMAIN rows : IsFirstRow(i, t) =>
    \A c \in ConnectionType :
      rows[i].connections[c] + CountAfter("NewConnection", t, c, 0)
        <= Known(t, c) + CountAfter("Disconnected", t, c, 0)

CountInv == ~lost => OpenCoversRows /\ \A i \in Nat : OpenCovers(i)

LEMMA AfterIsFinite ==
  ASSUME channel \in Seq(Event), NEW type, NEW t, NEW c, NEW i
  PROVE  IsFiniteSet(After(type, t, c, i)) /\ CountAfter(type, t, c, i) \in Nat
<1>1. IsFiniteSet(1..Len(channel)) /\ DOMAIN channel = 1..Len(channel)
  BY FS_Interval
<1>2. After(type, t, c, i) \in SUBSET (1..Len(channel))
  BY <1>1 DEF After
<1> QED
  BY <1>1, <1>2, FS_Subset, FS_CardinalityType DEF CountAfter

\* A set of numbers has as many elements one place further to the left.
LEMMA ShiftedCount ==
  ASSUME NEW S \in SUBSET Nat, IsFiniteSet(S), NEW R \in SUBSET Int,
         \A j \in S : j - 1 \in R, \A j \in R : j + 1 \in S
  PROVE  Cardinality(R) = Cardinality(S)
<1> DEFINE f == [j \in S |-> j - 1]
<1>1. f \in [S -> R]
  OBVIOUS
<1>2. \A j, k \in S : f[j] = f[k] => j = k
  OBVIOUS
<1>3. \A r \in R : \E j \in S : f[j] = r
  <2> SUFFICES ASSUME NEW r \in R PROVE \E j \in S : f[j] = r
    OBVIOUS
  <2>1. r + 1 \in S /\ f[r + 1] = r
    OBVIOUS
  <2> QED
    BY <2>1
<1> HIDE DEF f
<1>4. f \in Bijection(S, R)
  BY <1>1, <1>2, <1>3 DEF Bijection, Injection, Surjection, IsInjective
<1>5. ExistsBijection(S, R)
  BY <1>4 DEF ExistsBijection
<1> QED
  BY <1>5, FS_Bijection

\* Events that are not about connections leave the numbers alone, and so does
\* whatever sends none.
LEMMA OthersKeepCounts ==
  ASSUME ListInv, CountInv, UNCHANGED <<rows, open, panicked>>, NEW events \in Seq(Event),
         channel' \in Seq(Event), ~lost' => ~lost /\ channel' = channel \o events,
         \A i \in DOMAIN events : events[i].type \notin {"NewConnection", "Disconnected"}
  PROVE  CountInv'
<1> SUFFICES ASSUME ~lost' PROVE OpenCoversRows' /\ \A i \in Nat : OpenCovers(i)'
  BY DEF CountInv
<1>1. channel \in Seq(Event) /\ ~lost /\ channel' = channel \o events
  BY DEF ListInv
<1>2. /\ \A i \in DOMAIN channel : i \in DOMAIN channel' /\ channel'[i] = channel[i]
      /\ \A i \in DOMAIN channel' : i \notin DOMAIN channel =>
           i - Len(channel) \in DOMAIN events /\ channel'[i] = events[i - Len(channel)]
  BY <1>1, Concatenated
<1>3. \A type \in {"NewConnection", "Disconnected"} : \A t, c, i :
        After(type, t, c, i)' = After(type, t, c, i)
  BY <1>2 DEF After, IsPeer
<1>4. \A type \in {"NewConnection", "Disconnected"} : \A t, c, i :
        CountAfter(type, t, c, i)' = CountAfter(type, t, c, i)
  BY <1>3 DEF CountAfter
<1> QED
  BY <1>1, <1>4 DEF CountInv, OpenCoversRows, OpenCovers, IsFirstRow, Known

\* A connection is opened or closed, and an event says so.
LEMMA PeerEventKeepsCounts ==
  ASSUME ListInv, CountInv, NEW t \in Torrent, NEW c \in Reached,
         Connects(t, c) \/ Disconnects(t, c)
  PROVE  CountInv'
<1>1. c \in ConnectionType
  BY ListAssumption
<1>2. PICK type \in {"NewConnection", "Disconnected"} :
        /\ Emit(<<PeerEvent(type, t, c)>>)
        /\ type = "NewConnection" => open' = [open EXCEPT ![t][c] = @ + 1]
        /\ type = "Disconnected" => open' = [open EXCEPT ![t][c] = @ - 1] /\ open[t][c] > 0
  BY DEF Connects, Disconnects
<1> DEFINE event == PeerEvent(type, t, c)
<1>3. <<event>> \in Seq(Event)
  BY <1>1, EventTypes
<1>4. event.type = type /\ event.torrent = t /\ event.connection_type = c
  BY DEF PeerEvent
<1> HIDE DEF event
<1>5. UNCHANGED rows
  BY DEF Connects, Disconnects, modelVars
<1>6. /\ channel \in Seq(Event) /\ lagged \in BOOLEAN /\ lost \in BOOLEAN
      /\ open \in [Torrent -> [ConnectionType -> Nat]]
  BY DEF ListInv, TypeOK
<1>7. /\ ~Subscribed => channel' = channel
      /\ Subscribed /\ ~lost' => ~lost /\ channel' = channel \o <<event>>
      /\ ~lost' => ~lost /\ channel' \in Seq(Event)
  BY <1>2, <1>3, <1>6, EmitType DEF event
<1>8. /\ \A u \in Torrent, d \in ConnectionType : u # t \/ d # c => Known(u, d)' = Known(u, d)
      /\ type = "NewConnection" => Known(t, c)' = Known(t, c) + 1
      /\ type = "Disconnected" => Known(t, c)' = Known(t, c) - 1
      /\ \A u \in Torrent, d \in ConnectionType : Known(u, d) \in Nat /\ Known(u, d)' \in Nat
  <2>1. /\ open[t][c] \in Nat /\ open[t] \in [ConnectionType -> Nat]
        /\ DOMAIN open = Torrent /\ DOMAIN open[t] = ConnectionType
        /\ \A u \in Torrent, d \in ConnectionType : open[u][d] \in Nat
    BY <1>1, <1>6
  <2>2. ASSUME NEW n \in Nat, open' = [open EXCEPT ![t] = [open[t] EXCEPT ![c] = n]]
        PROVE  /\ \A u \in Torrent, d \in ConnectionType : u # t \/ d # c => open'[u][d] = open[u][d]
               /\ open'[t][c] = n
    BY <1>1, <2>1, <2>2
  <2>3. /\ \A u \in Torrent, d \in ConnectionType : u # t \/ d # c => open'[u][d] = open[u][d]
        /\ type = "NewConnection" => open'[t][c] = open[t][c] + 1
        /\ type = "Disconnected" => open'[t][c] = open[t][c] - 1
        /\ \A u \in Torrent, d \in ConnectionType : open[u][d] \in Nat /\ open'[u][d] \in Nat
    <3>1. CASE type = "NewConnection"
      <4>1. open' = [open EXCEPT ![t] = [open[t] EXCEPT ![c] = open[t][c] + 1]]
        BY <1>2, <3>1
      <4>2. open[t][c] + 1 \in Nat
        BY <2>1
      <4> QED
        BY <2>1, <2>2, <3>1, <4>1, <4>2
    <3>2. CASE type = "Disconnected"
      <4>1. open' = [open EXCEPT ![t] = [open[t] EXCEPT ![c] = open[t][c] - 1]]
        BY <1>2, <3>2
      <4>2. open[t][c] - 1 \in Nat
        BY <1>2, <2>1, <3>2
      <4> QED
        BY <2>1, <2>2, <3>2, <4>1, <4>2
    <3> QED
      BY <3>1, <3>2
  <2>4. /\ \A u \in Torrent, d \in ConnectionType : panicked[u][d] \in Nat
        /\ UNCHANGED panicked
    BY DEF Connects, Disconnects, ListInv, TypeOK
  <2> QED
    BY <1>1, <2>3, <2>4 DEF Known
<1> SUFFICES ASSUME ~lost' PROVE OpenCoversRows' /\ \A i \in Nat : OpenCovers(i)'
  BY DEF CountInv
<1>9. CASE ~Subscribed
  <2>1. channel' = <<>> /\ rows' = <<>>
    BY <1>5, <1>7, <1>9 DEF ListInv, ListAgrees, Subscribed, Starting
  <2>2. \A kind, u, d, i : After(kind, u, d, i)' = {}
    BY <2>1 DEF After
  <2>3. \A kind, u, d, i : CountAfter(kind, u, d, i)' = 0
    BY <2>2, FS_EmptySet DEF CountAfter
  <2> QED
    BY <1>8, <2>1, <2>3 DEF OpenCoversRows, OpenCovers
<1>10. CASE Subscribed
  <2> DEFINE last == Len(channel) + 1
  <2>1. ~lost /\ channel' = channel \o <<event>>
    BY <1>7, <1>10
  <2>2. /\ DOMAIN channel = 1..Len(channel) /\ Len(channel) \in Nat
        /\ \A i \in DOMAIN channel : i \in DOMAIN channel' /\ channel'[i] = channel[i]
        /\ last \in DOMAIN channel' /\ channel'[last] = event
        /\ \A i \in DOMAIN channel' : i \notin DOMAIN channel => i = last
        /\ last \in Nat /\ last \notin DOMAIN channel
    BY <1>3, <1>6, <2>1
  <2> HIDE DEF last
  <2>3. \A kind, u, d, i : kind # type \/ u # t \/ d # c =>
          CountAfter(kind, u, d, i)' = CountAfter(kind, u, d, i)
    <3>1. \A kind, u, d, i : kind # type \/ u # t \/ d # c =>
            After(kind, u, d, i)' = After(kind, u, d, i)
      BY <1>4, <2>2 DEF After, IsPeer
    <3> QED
      BY <3>1 DEF CountAfter
  <2>4. \A i \in Nat : i < last => CountAfter(type, t, c, i)' = CountAfter(type, t, c, i) + 1
    <3> SUFFICES ASSUME NEW i \in Nat, i < last
                 PROVE  CountAfter(type, t, c, i)' = CountAfter(type, t, c, i) + 1
      OBVIOUS
    <3>1. After(type, t, c, i)' = After(type, t, c, i) \cup {last}
      BY <1>4, <2>2 DEF After, IsPeer
    <3>2. last \notin After(type, t, c, i)
      BY <2>2 DEF After
    <3> QED
      BY <1>6, <3>1, <3>2, AfterIsFinite, FS_AddElement DEF CountAfter
  <2>5. \A i \in Nat : i >= last => \A kind, u, d : CountAfter(kind, u, d, i)' = 0
    <3> SUFFICES ASSUME NEW i \in Nat, i >= last, NEW kind, NEW u, NEW d
                 PROVE  CountAfter(kind, u, d, i)' = 0
      OBVIOUS
    <3>1. \A j \in DOMAIN channel' : ~(j > i)
      BY <2>2 DEF last
    <3>2. After(kind, u, d, i)' = {}
      BY <3>1 DEF After
    <3> QED
      BY <3>2, FS_EmptySet DEF CountAfter
  <2>6. \A kind, u, d, i : CountAfter(kind, u, d, i) \in Nat
    BY <1>6, AfterIsFinite
  <2>7. ASSUME NEW i \in Nat, i < last, NEW u \in Torrent, NEW d \in ConnectionType, NEW n \in Nat,
               n + CountAfter("NewConnection", u, d, i)
                 <= Known(u, d) + CountAfter("Disconnected", u, d, i)
        PROVE  n + CountAfter("NewConnection", u, d, i)'
                 <= Known(u, d)' + CountAfter("Disconnected", u, d, i)'
    <3> DEFINE new == CountAfter("NewConnection", u, d, i)
               gone == CountAfter("Disconnected", u, d, i)
    <3>1. new \in Nat /\ gone \in Nat /\ Known(u, d) \in Nat
      BY <1>8, <2>6
    <3>2. CASE u # t \/ d # c
      BY <1>8, <2>3, <2>7, <3>2
    <3>3. CASE u = t /\ d = c /\ type = "NewConnection"
      <4>1. /\ CountAfter("NewConnection", u, d, i)' = new + 1
            /\ CountAfter("Disconnected", u, d, i)' = gone
            /\ Known(u, d)' = Known(u, d) + 1
        BY <1>8, <2>3, <2>4, <2>7, <3>3
      <4> QED
        BY <2>7, <3>1, <4>1
    <3>4. CASE u = t /\ d = c /\ type = "Disconnected"
      <4>1. /\ CountAfter("NewConnection", u, d, i)' = new
            /\ CountAfter("Disconnected", u, d, i)' = gone + 1
            /\ Known(u, d)' = Known(u, d) - 1
        BY <1>8, <2>3, <2>4, <2>7, <3>4
      <4> QED
        BY <2>7, <3>1, <4>1
    <3> QED
      BY <3>2, <3>3, <3>4
  <2>8. OpenCoversRows /\ \A i \in Nat : OpenCovers(i)
    BY <2>1 DEF CountInv
  <2>9. OpenCoversRows'
    <3> SUFFICES ASSUME NEW u \in Torrent, NEW i \in DOMAIN rows, IsFirstRow(i, u),
                        NEW d \in ConnectionType
                 PROVE  rows[i].connections[d] + CountAfter("NewConnection", u, d, 0)'
                          <= Known(u, d)' + CountAfter("Disconnected", u, d, 0)'
      BY <1>5 DEF OpenCoversRows, IsFirstRow
    <3>1. rows[i].connections[d] \in Nat
      <4>1. rows \in Seq(RowType)
        BY DEF ListInv, TypeOK, RowType
      <4>2. rows[i] \in RowType
        BY <4>1
      <4>3. rows[i].connections[d] \in 0..MaxCount
        BY <4>2 DEF RowType
      <4> QED
        BY <4>3, ListAssumption
    <3>2. 0 \in Nat /\ 0 < last
      BY <2>2 DEF last
    <3>3. rows[i].connections[d] + CountAfter("NewConnection", u, d, 0)
            <= Known(u, d) + CountAfter("Disconnected", u, d, 0)
      BY <2>8 DEF OpenCoversRows
    <3> QED
      BY <2>7, <3>1, <3>2, <3>3
  <2>10. ASSUME NEW i \in Nat, NEW u \in Torrent, NEW d \in ConnectionType
         PROVE  CountAfter("NewConnection", u, d, i)'
                  <= Known(u, d)' + CountAfter("Disconnected", u, d, i)'
    <3>1. CASE i >= last
      BY <1>8, <2>5, <3>1
    <3>2. CASE i < last
      <4>1. 0 + CountAfter("NewConnection", u, d, i)
              <= Known(u, d) + CountAfter("Disconnected", u, d, i)
        <5>1. CountAfter("NewConnection", u, d, i)
                <= Known(u, d) + CountAfter("Disconnected", u, d, i)
          BY <2>8 DEF OpenCovers
        <5>2. CountAfter("NewConnection", u, d, i) \in Nat
          BY <2>6
        <5> QED
          BY <5>1, <5>2
      <4>2. 0 + CountAfter("NewConnection", u, d, i)'
              <= Known(u, d)' + CountAfter("Disconnected", u, d, i)'
        BY <2>7, <3>2, <4>1
      <4>3. CountAfter("NewConnection", u, d, i)' \in Nat
        <5>1. CountAfter("NewConnection", u, d, i) \in Nat
          BY <2>6
        <5>2. CASE type = "NewConnection" /\ u = t /\ d = c
          <6>1. CountAfter("NewConnection", u, d, i)' = CountAfter("NewConnection", u, d, i) + 1
            BY <2>4, <3>2, <5>2
          <6> QED
            BY <5>1, <6>1
        <5>3. CASE ~(type = "NewConnection" /\ u = t /\ d = c)
          BY <2>3, <5>1, <5>3
        <5> QED
          BY <5>2, <5>3
      <4> QED
        BY <4>2, <4>3
    <3> QED
      BY <2>2, <3>1, <3>2
  <2>11. \A i \in Nat : OpenCovers(i)'
    BY <2>10 DEF OpenCovers
  <2> QED
    BY <2>9, <2>11
<1> QED
  BY <1>9, <1>10

\* What an event does to the counts of its torrent's row.
LEMMA CountedByEvent ==
  ASSUME NEW event \in Event, NEW row \in RowType, NEW c \in ConnectionType,
         NEW x, x = row.connections[c], NEW y, y = Updated(event, row).connections[c]
  PROVE  /\ x \in Nat /\ y \in Nat
         /\ y <= x + 1
         /\ event.type # "NewConnection" \/ event.connection_type # c => y <= x
         /\ event.type = "Disconnected" /\ event.connection_type = c => x = 0 \/ y <= x - 1
<1>1. row.connections \in [ConnectionType -> 0..MaxCount]
  BY DEF RowType
<1>2. x \in Nat
  <2>1. x \in 0..MaxCount
    BY <1>1
  <2> QED
    BY <2>1, ListAssumption
<1>3. y = Counted(event, row.connections)[c]
  BY DEF Updated, RowType
<1>4. y = IF event.type = "NewConnection" /\ event.connection_type = c /\ x < MaxCount
          THEN x + 1
          ELSE IF event.type = "Disconnected" /\ event.connection_type = c /\ x > 0
          THEN x - 1
          ELSE x
  BY <1>3 DEF Counted
<1> QED
  BY <1>2, <1>4

\* The first event is taken out of the numbers of those to come, and into the
\* row's.
LEMMA HandleEventKeepsCounts ==
  ASSUME ListInv, CountInv, HandleEvent
  PROVE  CountInv'
<1>1. UNCHANGED lost /\ \A t, c : Known(t, c)' = Known(t, c)
  BY DEF HandleEvent, clientVars, Known
<1>2. CASE lagged \/ channel = <<>>
  <2>1. UNCHANGED <<channel, rows>>
    BY <1>2 DEF HandleEvent
  <2>2. \A type, t, c, i : CountAfter(type, t, c, i)' = CountAfter(type, t, c, i)
    BY <2>1 DEF CountAfter, After
  <2> QED
    BY <1>1, <2>1, <2>2 DEF CountInv, OpenCoversRows, OpenCovers, IsFirstRow
<1>3. CASE ~lagged /\ channel # <<>>
  <2> SUFFICES ASSUME ~lost PROVE OpenCoversRows' /\ \A i \in Nat : OpenCovers(i)'
    BY <1>1 DEF CountInv
  <2> DEFINE event == Head(channel)
  <2>1. channel \in Seq(Event) /\ rows \in Seq(RowType)
    BY DEF ListInv, TypeOK, RowType
  <2>2. channel' = Tail(channel) /\ UpdateFromEvent(event)
    BY <1>3 DEF HandleEvent
  <2>3. /\ 1 \in DOMAIN channel /\ event = channel[1] /\ event \in Event
        /\ \A i \in DOMAIN channel : i \in Nat /\ i > 0
        /\ \A i \in DOMAIN channel' : i \in Nat /\ i + 1 \in DOMAIN channel /\ channel'[i] = channel[i + 1]
        /\ \A i \in DOMAIN channel : i > 1 => i - 1 \in DOMAIN channel' /\ channel'[i - 1] = channel[i]
    BY <1>3, <2>1, <2>2
  <2> HIDE DEF event
  <2>4. OpenCoversRows /\ \A i \in Nat : OpenCovers(i)
    BY DEF CountInv
  <2>5. \A type, t, c, i : CountAfter(type, t, c, i) \in Nat
    BY <2>1, AfterIsFinite
  <2>6. ASSUME NEW type, NEW t, NEW c, NEW i \in Nat
        PROVE  CountAfter(type, t, c, i)' = CountAfter(type, t, c, i + 1)
    <3> DEFINE S == After(type, t, c, i + 1)
               R == After(type, t, c, i)'
    <3>1. S \in SUBSET Nat /\ R \in SUBSET Int /\ IsFiniteSet(S)
      <4>1. IsFiniteSet(S)
        BY <2>1, AfterIsFinite
      <4>2. S \in SUBSET Nat /\ R \in SUBSET Int
        BY <2>3 DEF After
      <4> QED
        BY <4>1, <4>2
    <3>2. ASSUME NEW j \in S PROVE j - 1 \in R
      <4>1. j \in DOMAIN channel /\ j > i + 1 /\ IsPeer(channel[j], type, t, c)
        BY DEF After
      <4>2. j - 1 \in DOMAIN channel' /\ channel'[j - 1] = channel[j] /\ j - 1 > i
        BY <2>3, <4>1
      <4> QED
        BY <4>1, <4>2 DEF After, IsPeer
    <3>3. ASSUME NEW j \in R PROVE j + 1 \in S
      <4>1. j \in DOMAIN channel' /\ j > i /\ IsPeer(channel[j], type, t, c)'
        BY DEF After
      <4>2. j + 1 \in DOMAIN channel /\ channel'[j] = channel[j + 1] /\ j + 1 > i + 1
        BY <2>3, <4>1
      <4> QED
        BY <4>1, <4>2 DEF After, IsPeer
    <3> HIDE DEF S, R
    <3>4. Cardinality(R) = Cardinality(S)
      BY <3>1, <3>2, <3>3, ShiftedCount
    <3> QED
      BY <3>4 DEF S, R, CountAfter
  <2>7. \A type, t, c : CountAfter(type, t, c, 0)' = CountAfter(type, t, c, 1)
    <3>1. 0 \in Nat /\ 0 + 1 = 1
      OBVIOUS
    <3> QED
      BY <2>6, <3>1
  <2>8. ASSUME NEW type, NEW t, NEW c
        PROVE  CountAfter(type, t, c, 0)
                 = IF IsPeer(event, type, t, c) THEN CountAfter(type, t, c, 1) + 1
                   ELSE CountAfter(type, t, c, 1)
    <3>1. 1 \notin After(type, t, c, 1) /\ IsFiniteSet(After(type, t, c, 1))
      <4>1. IsFiniteSet(After(type, t, c, 1))
        BY <2>1, AfterIsFinite
      <4>2. 1 \notin After(type, t, c, 1)
        BY DEF After
      <4> QED
        BY <4>1, <4>2
    <3>2. \A j \in DOMAIN channel : j > 0 /\ (j > 1 \/ j = 1)
      BY <2>3
    <3>3. CASE IsPeer(event, type, t, c)
      <4>1. After(type, t, c, 0) = After(type, t, c, 1) \cup {1}
        BY <2>3, <3>2, <3>3 DEF After
      <4> QED
        BY <3>1, <3>3, <4>1, FS_AddElement DEF CountAfter
    <3>4. CASE ~IsPeer(event, type, t, c)
      <4>1. After(type, t, c, 0) = After(type, t, c, 1)
        BY <2>3, <3>2, <3>4 DEF After
      <4> QED
        BY <3>4, <4>1 DEF CountAfter
    <3> QED
      BY <3>3, <3>4
  <2>9. \A i \in Nat : OpenCovers(i)'
    <3> SUFFICES ASSUME NEW i \in Nat PROVE OpenCovers(i)'
      OBVIOUS
    <3>1. i + 1 \in Nat /\ OpenCovers(i + 1)
      BY <2>4
    <3> QED
      BY <1>1, <2>6, <3>1 DEF OpenCovers
  <2>10. CASE event.type \in {"Ignored", "GotFileInfo"}
    <3>1. \A type \in {"NewConnection", "Disconnected"} : \A t, c :
            CountAfter(type, t, c, 0)' = CountAfter(type, t, c, 0)
      BY <2>7, <2>8, <2>10 DEF IsPeer
    <3>2. CASE event.type = "Ignored"
      <4>1. rows' = rows
        BY <2>2, <3>2 DEF UpdateFromEvent
      <4>2. OpenCoversRows'
        BY <1>1, <2>4, <3>1, <4>1 DEF OpenCoversRows, IsFirstRow
      <4> QED
        BY <2>9, <4>2
    <3>3. CASE event.type = "GotFileInfo"
      <4>1. rows' = Append(rows, Row(event.torrent, event.bitfield))
        BY <2>2, <3>3 DEF UpdateFromEvent
      <4>2. /\ Len(rows) \in Nat /\ DOMAIN rows = 1..Len(rows)
            /\ DOMAIN rows' = 1..(Len(rows) + 1)
            /\ \A j \in DOMAIN rows : rows'[j] = rows[j]
            /\ rows'[Len(rows) + 1] = Row(event.torrent, event.bitfield)
        BY <2>1, <4>1
      <4>3. ASSUME NEW t \in Torrent, NEW i \in DOMAIN rows', IsFirstRow(i, t)',
                   NEW c \in ConnectionType, NEW y, y = rows'[i].connections[c]
            PROVE  y + CountAfter("NewConnection", t, c, 0)'
                     <= Known(t, c)' + CountAfter("Disconnected", t, c, 0)'
        <5>1. CASE i \in DOMAIN rows
          <6>1. \A j \in 1..i : j \in DOMAIN rows
            BY <4>2, <5>1
          <6>2. i \in 1..i /\ \A j \in 1..(i - 1) : j \in 1..i
            BY <4>2, <5>1
          <6>3. IsFirstRow(i, t)
            BY <4>2, <4>3, <6>1, <6>2 DEF IsFirstRow
          <6>4. y = rows[i].connections[c]
            BY <4>2, <4>3, <5>1
          <6> QED
            BY <1>1, <2>4, <3>1, <5>1, <6>3, <6>4 DEF OpenCoversRows
        <5>2. CASE i \notin DOMAIN rows
          <6>1. rows'[i] = Row(event.torrent, event.bitfield)
            BY <4>2, <5>2
          <6>2. y = 0
            BY <4>3, <6>1 DEF Row
          <6>3. CountAfter("NewConnection", t, c, 0) <= Known(t, c) + CountAfter("Disconnected", t, c, 0)
            BY <2>4 DEF OpenCovers
          <6>4. CountAfter("NewConnection", t, c, 0) \in Nat
            BY <2>5
          <6> QED
            BY <1>1, <3>1, <6>2, <6>3, <6>4
        <5> QED
          BY <5>1, <5>2
      <4>4. OpenCoversRows'
        BY <4>3 DEF OpenCoversRows
      <4> QED
        BY <2>9, <4>4
    <3> QED
      BY <2>10, <3>2, <3>3
  <2>11. CASE event.type \notin {"Ignored", "GotFileInfo"}
    <3>1. rows' = [j \in DOMAIN rows |->
            IF IsFirstRow(j, event.torrent) THEN Updated(event, rows[j]) ELSE rows[j]]
      BY <2>2, <2>11 DEF UpdateFromEvent
    <3>2. \A j \in DOMAIN rows : rows[j] \in RowType
      BY <2>1
    <3>3. /\ DOMAIN rows' = DOMAIN rows /\ DOMAIN rows = 1..Len(rows) /\ Len(rows) \in Nat
          /\ \A j \in DOMAIN rows : rows'[j].torrent = rows[j].torrent
      <4>1. \A j \in DOMAIN rows : Updated(event, rows[j]).torrent = rows[j].torrent
        BY <2>3, <3>2, PausedByEvent
      <4> QED
        BY <2>1, <3>1, <4>1
    <3>4. ASSUME NEW t \in Torrent, NEW i \in DOMAIN rows', IsFirstRow(i, t)',
                 NEW c \in ConnectionType, NEW y, y = rows'[i].connections[c]
          PROVE  y + CountAfter("NewConnection", t, c, 0)'
                   <= Known(t, c)' + CountAfter("Disconnected", t, c, 0)'
      <4> DEFINE x == rows[i].connections[c]
                 new == CountAfter("NewConnection", t, c, 1)
                 gone == CountAfter("Disconnected", t, c, 1)
      <4>1. \A j \in 1..(i - 1) : j \in DOMAIN rows
        BY <3>3
      <4>2. IsFirstRow(i, t)
        BY <3>3, <3>4, <4>1 DEF IsFirstRow
      <4>3. rows[i] \in RowType /\ event \in Event /\ i \in DOMAIN rows
        BY <2>3, <3>2, <3>3
      <4>4. x + CountAfter("NewConnection", t, c, 0)
              <= Known(t, c) + CountAfter("Disconnected", t, c, 0)
        BY <2>4, <4>2, <4>3 DEF OpenCoversRows
      <4>5. new <= Known(t, c) + gone
        BY <2>4 DEF OpenCovers
      <4>6. new \in Nat /\ gone \in Nat /\ Known(t, c) \in Nat
        BY <2>5 DEF ListInv, TypeOK, Known
      <4>7. /\ CountAfter("NewConnection", t, c, 0)
                 = IF IsPeer(event, "NewConnection", t, c) THEN new + 1 ELSE new
            /\ CountAfter("Disconnected", t, c, 0)
                 = IF IsPeer(event, "Disconnected", t, c) THEN gone + 1 ELSE gone
        BY <2>8
      <4>8. /\ CountAfter("NewConnection", t, c, 0)' = new
            /\ CountAfter("Disconnected", t, c, 0)' = gone /\ Known(t, c)' = Known(t, c)
        BY <1>1, <2>7
      <4>9. /\ x \in Nat /\ y \in Nat
            /\ y <= IF IsPeer(event, "NewConnection", t, c) THEN x + 1 ELSE x
            /\ IsPeer(event, "Disconnected", t, c) => x = 0 \/ y <= x - 1
        <5>1. CASE event.torrent = t
          <6> DEFINE z == Updated(event, rows[i]).connections[c]
          <6>1. y = z
            BY <3>1, <3>4, <4>2, <4>3, <5>1
          <6> HIDE DEF x, z
          <6>2. /\ x \in Nat /\ z \in Nat
                /\ z <= x + 1
                /\ event.type # "NewConnection" \/ event.connection_type # c => z <= x
                /\ event.type = "Disconnected" /\ event.connection_type = c => x = 0 \/ z <= x - 1
            BY <4>3, CountedByEvent DEF x, z
          <6> QED
            BY <5>1, <6>1, <6>2 DEF IsPeer
        <5>2. CASE event.torrent # t
          <6>1. y = x
            BY <3>1, <3>4, <4>2, <4>3, <5>2 DEF IsFirstRow
          <6>2. x \in 0..MaxCount
            BY <4>3 DEF RowType
          <6>3. x \in Nat
            BY <6>2, ListAssumption
          <6> QED
            BY <5>2, <6>1, <6>3 DEF IsPeer
        <5> QED
          BY <5>1, <5>2
      <4>10. ~(IsPeer(event, "NewConnection", t, c) /\ IsPeer(event, "Disconnected", t, c))
        BY DEF IsPeer
      <4> HIDE DEF x, new, gone
      <4>11. y + new <= Known(t, c) + gone
        <5>1. CASE IsPeer(event, "NewConnection", t, c)
          BY <4>4, <4>6, <4>7, <4>9, <4>10, <5>1
        <5>2. CASE IsPeer(event, "Disconnected", t, c)
          <6>1. x + new <= Known(t, c) + (gone + 1)
            BY <4>4, <4>7, <4>10, <5>2
          <6>2. CASE x = 0
            BY <4>5, <4>6, <4>9, <4>10, <5>2, <6>2
          <6>3. CASE y <= x - 1
            BY <4>6, <4>9, <6>1, <6>3
          <6> QED
            BY <4>9, <5>2, <6>2, <6>3
        <5>3. CASE ~IsPeer(event, "NewConnection", t, c) /\ ~IsPeer(event, "Disconnected", t, c)
          BY <4>4, <4>6, <4>7, <4>9, <5>3
        <5> QED
          BY <5>1, <5>2, <5>3
      <4> QED
        BY <4>8, <4>11
    <3>5. OpenCoversRows'
      BY <3>4 DEF OpenCoversRows
    <3> QED
      BY <2>9, <3>5
  <2> QED
    BY <2>10, <2>11
<1> QED
  BY <1>2, <1>3

LEMMA QuietKeepsCounts ==
  ASSUME CountInv, UNCHANGED <<rows, open, panicked, channel, lost>>
  PROVE  CountInv'
<1>1. \A type, t, c, i : CountAfter(type, t, c, i)' = CountAfter(type, t, c, i)
  BY DEF CountAfter, After
<1> QED
  BY <1>1 DEF CountInv, OpenCoversRows, OpenCovers, IsFirstRow, Known

\* A connection whose task panics is not open any more, but still counted.
LEMMA PanicKeepsCounts ==
  ASSUME ListInv, CountInv, NEW t \in Torrent, NEW c \in Reached, Panics(t, c)
  PROVE  CountInv'
<1>1. UNCHANGED <<rows, channel, lost>>
  BY DEF Panics, eventVars, modelVars
<1>2. \A type, u, d, i : CountAfter(type, u, d, i)' = CountAfter(type, u, d, i)
  BY <1>1 DEF CountAfter, After
<1>3. \A u \in Torrent, d \in ConnectionType : Known(u, d)' = Known(u, d)
  <2>1. \A u \in Torrent, d \in ConnectionType : open[u][d] \in Nat /\ panicked[u][d] \in Nat
    BY DEF ListInv, TypeOK
  <2>2. ASSUME NEW u \in Torrent, NEW d \in ConnectionType
        PROVE  /\ open'[u][d] = IF u = t /\ d = c THEN open[u][d] - 1 ELSE open[u][d]
               /\ panicked'[u][d] = IF u = t /\ d = c THEN panicked[u][d] + 1 ELSE panicked[u][d]
    BY DEF Panics, ListInv, TypeOK
  <2> QED
    BY <2>1, <2>2 DEF Known
<1> QED
  BY <1>1, <1>2, <1>3 DEF CountInv, OpenCoversRows, OpenCovers, IsFirstRow

LEMMA EmitKeepsCounts ==
  ASSUME ListInv, CountInv, UNCHANGED <<rows, open, panicked>>, NEW events \in Seq(Event), Emit(events),
         \A i \in DOMAIN events : events[i].type \notin {"NewConnection", "Disconnected"}
  PROVE  CountInv'
<1>1. channel \in Seq(Event) /\ lagged \in BOOLEAN /\ lost \in BOOLEAN
  BY DEF ListInv, TypeOK
<1>2. /\ channel' \in Seq(Event)
      /\ ~Subscribed => UNCHANGED <<channel, lost>>
      /\ Subscribed => (~lost' => ~lost /\ channel' = channel \o events)
  BY <1>1, EmitType DEF Emit, eventVars
<1> QED
  BY <1>2, QuietKeepsCounts, OthersKeepCounts

LEMMA ManagerStepsKeepCounts ==
  ASSUME ListInv, CountInv, NEW t \in Torrent, ManagerSteps(t) \/ Adds(t)
  PROVE  CountInv'
<1> USE EventTypes
<1>1. stored \in [Torrent -> SUBSET Piece]
  BY DEF ListInv, TypeOK
<1>2. ASSUME NEW event \in Event, Emit(<<event>>), UNCHANGED <<rows, open, panicked>>,
             event.type \notin {"NewConnection", "Disconnected"}
      PROVE  CountInv'
  <2>1. <<event>> \in Seq(Event) /\ \A i \in DOMAIN <<event>> : <<event>>[i] = event
    OBVIOUS
  <2> QED
    BY <1>2, <2>1, EmitKeepsCounts
<1>3. ASSUME NEW bitfield \in SUBSET Piece, StartFromEntry(t, bitfield), UNCHANGED <<rows, open, panicked>>
      PROVE  CountInv'
  BY <1>2, <1>3 DEF StartFromEntry, GotFileInfo
<1>4. CASE Listener(t)
  BY <1>1, <1>3, <1>4 DEF Listener, modelVars
<1>5. CASE Runs(t) \/ Unregisters(t)
  BY <1>2, <1>5 DEF Runs, Unregisters, Ignored, modelVars
<1>6. CASE GotMetadata(t)
  BY <1>2, <1>6 DEF GotMetadata, GotFileInfo, modelVars
<1>7. CASE Announces(t)
  <2>1. PICK piece \in announcing[t] :
          Emit(<<GotPiece(t, piece)>> \o (IF stored[t] = Piece THEN <<Ignored>> ELSE <<>>))
    BY <1>7 DEF Announces
  <2> DEFINE rest == IF stored[t] = Piece THEN <<Ignored>> ELSE <<>>
             events == <<GotPiece(t, piece)>> \o rest
  <2>2. piece \in Piece
    BY DEF ListInv, TypeOK
  <2>3. <<GotPiece(t, piece)>> \in Seq(Event) /\ rest \in Seq(Event)
    BY <2>2
  <2>4. events \in Seq(Event)
    BY <2>3, ConcatProperties
  <2>5. \A i \in DOMAIN events : events[i] = GotPiece(t, piece) \/ events[i] = Ignored
    <3>1. rest = <<>> \/ rest = <<Ignored>>
      OBVIOUS
    <3> QED
      BY <2>3, <3>1, Concatenated
  <2> HIDE DEF events
  <2>6. \A i \in DOMAIN events : events[i].type \notin {"NewConnection", "Disconnected"}
    BY <2>5 DEF GotPiece, Ignored
  <2>7. Emit(events) /\ UNCHANGED <<rows, open, panicked>>
    BY <1>7, <2>1 DEF events, Announces, modelVars
  <2> QED
    BY <2>4, <2>6, <2>7, EmitKeepsCounts
<1>8. CASE Told(t)
  <2>1. PICK order \in telling[t] :
          Emit(<<TorrentEvent(IF order = "Pause" THEN "Paused" ELSE "Resumed", t)>>)
    BY <1>8 DEF Told
  <2>2. PICK type \in {"Paused", "Resumed"} : Emit(<<TorrentEvent(type, t)>>)
    BY <2>1
  <2> QED
    BY <1>2, <1>8, <2>2 DEF Told, TorrentEvent, modelVars
<1>9. CASE \/ ClientMessage(t) \/ ManagerEnds(t)
           \/ \E piece \in Piece : Stores(t, piece) \/ Discards(t, piece)
  BY <1>9, QuietKeepsCounts DEF ClientMessage, ManagerEnds, Stores, Discards, eventVars, modelVars
<1>10. CASE Adds(t)
  <2>1. UNCHANGED <<rows, open, panicked>>
    BY <1>10 DEF Adds
  <2>2. CASE UNCHANGED eventVars
    BY <2>1, <2>2, QuietKeepsCounts DEF eventVars
  <2> QED
    BY <1>1, <1>3, <1>10, <2>1, <2>2 DEF Adds
<1> QED
  BY <1>4, <1>5, <1>6, <1>7, <1>8, <1>9, <1>10, PeerEventKeepsCounts, PanicKeepsCounts
     DEF ManagerSteps

\* The first rows count nothing, and nothing is left after a restart.
LEMMA StartKeepsCounts ==
  ASSUME ListInv, CountInv, List \/ Restarts
  PROVE  CountInv'
<1>1. CASE List
  <2>1. PICK listed \in [1..Cardinality(entries) -> entries] :
          rows' = [i \in DOMAIN listed |-> Row(listed[i], stored[listed[i]])]
    BY <1>1 DEF List
  <2>2. UNCHANGED <<open, panicked, channel, lost>>
    BY <1>1 DEF List, clientVars, eventVars
  <2>3. \A i \in DOMAIN rows' : \A c \in ConnectionType : rows'[i].connections[c] = 0
    BY <2>1 DEF Row
  <2>4. \A type, t, c, i : CountAfter(type, t, c, i)' = CountAfter(type, t, c, i)
    BY <2>2 DEF CountAfter, After
  <2>5. \A type, t, c, i : CountAfter(type, t, c, i) \in Nat
    BY AfterIsFinite DEF ListInv
  <2>6. ASSUME \A i \in Nat : OpenCovers(i) PROVE OpenCoversRows'
    <3>1. \A t, c : Known(t, c)' = Known(t, c)
      BY <2>2 DEF Known
    <3>2. OpenCovers(0)
      BY <2>6
    <3> SUFFICES ASSUME NEW t \in Torrent, NEW i \in DOMAIN rows', NEW c \in ConnectionType
                 PROVE  rows'[i].connections[c] + CountAfter("NewConnection", t, c, 0)'
                          <= Known(t, c)' + CountAfter("Disconnected", t, c, 0)'
      BY DEF OpenCoversRows
    <3>3. CountAfter("NewConnection", t, c, 0) <= Known(t, c) + CountAfter("Disconnected", t, c, 0)
      BY <3>2 DEF OpenCovers
    <3> QED
      BY <2>3, <2>4, <2>5, <3>1, <3>3
  <2>7. ASSUME \A i \in Nat : OpenCovers(i) PROVE \A i \in Nat : OpenCovers(i)'
    BY <2>2, <2>4, <2>7 DEF OpenCovers, Known
  <2> QED
    BY <2>2, <2>6, <2>7 DEF CountInv
<1>2. CASE Restarts
  <2>1. /\ channel' = <<>> /\ rows' = <<>>
        /\ \A t \in Torrent, c \in ConnectionType : Known(t, c)' = 0
    BY <1>2 DEF Restarts, Known
  <2>2. \A type, t, c, i : After(type, t, c, i)' = {}
    BY <2>1 DEF After
  <2>3. \A type, t, c, i : CountAfter(type, t, c, i)' = 0
    BY <2>2, FS_EmptySet DEF CountAfter
  <2> QED
    BY <2>1, <2>3 DEF CountInv, OpenCoversRows, OpenCovers
<1> QED
  BY <1>1, <1>2

\* However connections open, close and panic while the application starts and
\* takes its events: no row counts more than are open or have panicked.
THEOREM NeverCountedTooMany == Spec => []NeverCountsTooMany
<1>1. Init => CountInv
  <2> SUFFICES ASSUME Init PROVE CountInv
    OBVIOUS
  <2>1. \A type, t, c, i : After(type, t, c, i) = {}
    BY DEF Init, After
  <2>2. \A type, t, c, i : CountAfter(type, t, c, i) = 0
    BY <2>1, FS_EmptySet DEF CountAfter
  <2>3. \A t \in Torrent, c \in ConnectionType : Known(t, c) = 0
    BY DEF Init, Known
  <2> QED
    BY <2>2, <2>3 DEF Init, CountInv, OpenCoversRows, OpenCovers
<1>2. ListInv /\ CountInv /\ [Next]_vars => CountInv'
  <2> SUFFICES ASSUME ListInv, CountInv, [Next]_vars PROVE CountInv'
    OBVIOUS
  <2>1. CASE \/ UNCHANGED vars
             \/ Build \/ Subscribe \/ Draw \/ Idles \/ Moves \/ ChangesPage \/ Sends
             \/ \E t \in Torrent : Presses(t)
    <3>1. UNCHANGED <<rows, open, panicked, channel, lost>>
      BY <2>1 DEF Build, Subscribe, Draw, Idles, Moves, ChangesPage, Sends, Presses,
                  vars, clientVars, eventVars, modelVars
    <3> QED
      BY <3>1, QuietKeepsCounts
  <2> QED
    BY <2>1, ManagerStepsKeepCounts, StartKeepsCounts, HandleEventKeepsCounts DEF Next, UserInput
<1>3. ListInv /\ CountInv => NeverCountsTooMany
  <2> SUFFICES ASSUME ListInv, CountInv, ~lost, NEW t \in Torrent, NEW type \in ConnectionType,
                      NEW row \in FirstRow(t)
               PROVE  row.connections[type]
                        + Cardinality({i \in Pending(t, "NewConnection") :
                                         channel[i].connection_type = type})
                      <= Known(t, type)
                        + Cardinality({i \in Pending(t, "Disconnected") :
                                         channel[i].connection_type = type})
    BY DEF NeverCountsTooMany, CountsAtMost, Known
  <2>1. PICK i \in DOMAIN rows : IsFirstRow(i, t) /\ row = rows[i]
    BY DEF FirstRow
  <2>2. \A j \in DOMAIN channel : j > 0
    BY DEF ListInv
  <2>3. \A event : {j \in Pending(t, event) : channel[j].connection_type = type}
                     = After(event, t, type, 0)
    BY <2>2 DEF Pending, After, IsPeer
  <2>4. row.connections[type] + CountAfter("NewConnection", t, type, 0)
          <= Known(t, type) + CountAfter("Disconnected", t, type, 0)
    BY <2>1 DEF CountInv, OpenCoversRows
  <2> QED
    BY <2>3, <2>4 DEF CountAfter
<1> QED
  BY <1>1, <1>2, <1>3, ListInvariant, PTL DEF Spec
=============================================================================
