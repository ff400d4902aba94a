---------------------------- MODULE TorrentList ----------------------------
(***************************************************************************)
(* The terminal application (tui-app: main.rs, model.rs, update/,          *)
(* render_view/torrent_list.rs) with the events that feed it (events.rs):  *)
(* its loop draws, takes at most one event and at most one key.  The       *)
(* events come from the managers and connections of the client through a   *)
(* broadcast channel that drops its oldest events when it is full.         *)
(*                                                                         *)
(* A torrent has one manager at a time (Client has the races of two).      *)
(***************************************************************************)
EXTENDS Integers, Sequences, FiniteSets

CONSTANTS
  Torrent,          \* info hashes
  Piece,            \* the pieces of each torrent
  BroadcastSize,    \* the capacity of the events' channel (32)
  ClientChannelSize,\* CLIENT_CHANNEL_SIZE (16)
  MaxCount,         \* u8::MAX, where a row's counts saturate
  ITEM_HEIGHT,      \* the lines of one row (5)
  Heights,          \* the heights that the viewport may have
  MaxStarts,        \* bound: a run of the application starts no more managers
  MaxConnects,      \* bound: and opens no more connections
  Reached           \* bound: the types of the connections that are opened

ConnectionType == {"Inbound", "Outbound"}
NavPage == {"TorrentList", "AddingTorrent"}
Order == {"Pause", "Resume"}
NoSelection == -1

ASSUME ListAssumption ==
  /\ IsFiniteSet(Torrent)
  /\ BroadcastSize \in Nat \ {0} /\ ClientChannelSize \in Nat \ {0}
  /\ MaxCount \in Nat /\ ITEM_HEIGHT \in Nat \ {0}
  /\ Heights \subseteq Nat /\ Heights # {}
  /\ MaxStarts \in Nat /\ MaxConnects \in Nat /\ Reached \subseteq ConnectionType

VARIABLES
  entries,          \* the torrents with a record in the database
  stored,           \* the pieces that are recorded
  manager,          \* of each torrent: "None", "Spawned", "Running" or "Ended"
  announcing,       \* the piece that it has just completed
  discarded,        \* the pieces that it will not complete again
  paused,           \* whether it last told its peers to pause
  orders,           \* the client's messages in its channel
  telling,          \* the order of which it is telling its peers
  open,             \* the connections that were announced and still are open
  panicked,         \* those whose task has panicked
  starts, connects, \* how many managers and connections there were
  channel,          \* the events that the application has not taken
  lagged,           \* whether its next try_recv returns Lagged
  lost,             \* history: whether an event was dropped
  ended,            \* history: the torrents whose manager has ended
  pc,               \* where the application's loop is
  page, rows, selected, offset, total_items,
  visible,          \* the number of rows that the drawing has room for
  sending           \* the order that it waits to send

clientVars == <<entries, stored, manager, announcing, discarded, paused, orders, telling, open,
                panicked, starts, connects, ended>>
eventVars == <<channel, lagged, lost>>
modelVars == <<page, rows, selected, offset, total_items, visible, sending>>
vars == <<clientVars, eventVars, pc, modelVars>>

-----------------------------------------------------------------------------
(* Events *)

Subscribed == pc \notin {"Building", "Subscribing"}

\* emit_event: nothing is sent before the first subscription.
Emit(events) ==
  LET all == channel \o events
      over == IF Len(all) > BroadcastSize THEN Len(all) - BroadcastSize ELSE 0
  IN IF Subscribed
     THEN /\ channel' = SubSeq(all, over + 1, Len(all))
          /\ lagged' = (lagged \/ over > 0)
          /\ lost' = (lost \/ over > 0)
     ELSE UNCHANGED eventVars

GotFileInfo(t, bitfield) == [type |-> "GotFileInfo", torrent |-> t, bitfield |-> bitfield]
GotPiece(t, piece) == [type |-> "GotPiece", torrent |-> t, piece |-> piece]
PeerEvent(type, t, connection_type) ==
  [type |-> type, torrent |-> t, connection_type |-> connection_type]
TorrentEvent(type, t) == [type |-> type, torrent |-> t]

\* StartDownload, Finished and DownloadCanceled, which change nothing here.
Ignored == [type |-> "Ignored"]

-----------------------------------------------------------------------------
(* The client: managers and connections *)

\* init_from_entry, and the task that start_peer_manager spawns.
StartFromEntry(t, bitfield) ==
  /\ starts < MaxStarts /\ manager[t] = "None"
  /\ starts' = starts + 1
  /\ manager' = [manager EXCEPT ![t] = "Spawned"]
  /\ Emit(<<GotFileInfo(t, bitfield)>>)

\* The listener starts a manager for a peer that asks for a known torrent.  It
\* waits for the registry's lock, which the application keeps while it sends.
Listener(t) ==
  /\ pc \notin {"Building", "Sending"} /\ t \in entries
  /\ StartFromEntry(t, stored[t])
  /\ UNCHANGED <<entries, stored, announcing, discarded, paused, orders, telling, open, panicked, connects, ended, pc, modelVars>>

\* The task registers the manager and runs it.
Runs(t) ==
  /\ pc # "Sending" /\ manager[t] = "Spawned"
  /\ manager' = [manager EXCEPT ![t] = "Running"]
  /\ Emit(<<Ignored>>)
  /\ UNCHANGED <<entries, stored, announcing, discarded, paused, orders, telling, open, panicked, starts, connects, ended, pc, modelVars>>

\* The manager's loop waits for its next message.
Free(t) == manager[t] = "Running" /\ announcing[t] = {} /\ telling[t] = {}

\* download_metadata: the last block of a magnet link's metadata.
GotMetadata(t) ==
  /\ Free(t) /\ t \notin entries
  /\ entries' = entries \cup {t}
  /\ Emit(<<GotFileInfo(t, {})>>)
  /\ UNCHANGED <<stored, manager, announcing, discarded, paused, orders, telling, open, panicked, starts, connects, ended, pc, modelVars>>

\* handle_piece, up to the end of update_bitfields.
Stores(t, piece) ==
  /\ Free(t) /\ t \in entries
  /\ piece \notin stored[t] \cup discarded[t]
  /\ stored' = [stored EXCEPT ![t] = @ \cup {piece}]
  /\ announcing' = [announcing EXCEPT ![t] = {piece}]
  /\ UNCHANGED <<entries, manager, discarded, paused, orders, telling, open, panicked, starts, connects, ended, eventVars, pc, modelVars>>

\* A piece with a wrong hash is returned like one that was stored.  It stays in
\* flight (PieceManager), and is not completed again.
Discards(t, piece) ==
  /\ Free(t) /\ t \in entries
  /\ piece \notin stored[t] \cup discarded[t]
  /\ discarded' = [discarded EXCEPT ![t] = @ \cup {piece}]
  /\ announcing' = [announcing EXCEPT ![t] = {piece}]
  /\ UNCHANGED <<entries, stored, manager, paused, orders, telling, open, panicked, starts, connects, ended, eventVars, pc, modelVars>>

\* mutant: the last piece is only announced as the end of the download
AnnouncesEndOnly(t) ==
  /\ \E piece \in announcing[t] :
       Emit(IF stored[t] = Piece THEN <<Ignored>> ELSE <<GotPiece(t, piece)>>)
  /\ announcing' = [announcing EXCEPT ![t] = {}]
  /\ UNCHANGED <<entries, stored, manager, discarded, paused, orders, telling, open, panicked, starts, connects, ended, pc, modelVars>>

Announces(t) ==
  /\ \E piece \in announcing[t] :
       Emit(<<GotPiece(t, piece)>>
              \o (IF stored[t] = Piece THEN <<Ignored>> ELSE <<>>))
  /\ announcing' = [announcing EXCEPT ![t] = {}]
  /\ UNCHANGED <<entries, stored, manager, discarded, paused, orders, telling, open, panicked, starts, connects, ended, pc, modelVars>>

\* mutant: a paused manager takes no order
TakesUntilPaused(t) ==
  /\ Free(t) /\ orders[t] # <<>> /\ ~paused[t]
  /\ orders' = [orders EXCEPT ![t] = Tail(@)]
  /\ telling' = [telling EXCEPT ![t] = {Head(orders[t])}]
  /\ UNCHANGED <<entries, stored, manager, announcing, discarded, paused, open, panicked, starts, connects, ended,
                 eventVars, pc, modelVars>>

ClientMessage(t) ==
  /\ Free(t) /\ orders[t] # <<>>
  /\ orders' = [orders EXCEPT ![t] = Tail(@)]
  /\ telling' = [telling EXCEPT ![t] = {Head(orders[t])}]
  /\ UNCHANGED <<entries, stored, manager, announcing, discarded, paused, open, panicked, starts, connects, ended,
                 eventVars, pc, modelVars>>

\* broadcast_peers has told the last peer.
Told(t) ==
  /\ \E order \in telling[t] :
       /\ paused' = [paused EXCEPT ![t] = order = "Pause"]
       /\ Emit(<<TorrentEvent(IF order = "Pause" THEN "Paused" ELSE "Resumed", t)>>)
  /\ telling' = [telling EXCEPT ![t] = {}]
  /\ UNCHANGED <<entries, stored, manager, announcing, discarded, orders, open, panicked, starts, connects, ended, pc, modelVars>>

\* The manager's loop ends with an error or panics, and its channel with it.
ManagerEnds(t) ==
  /\ Free(t)
  /\ manager' = [manager EXCEPT ![t] = "Ended"]
  /\ paused' = [paused EXCEPT ![t] = FALSE]
  /\ orders' = [orders EXCEPT ![t] = <<>>]
  /\ discarded' = [discarded EXCEPT ![t] = {}]
  /\ ended' = ended \cup {t}
  /\ UNCHANGED <<entries, stored, announcing, telling, open, panicked, starts, connects, eventVars, pc, modelVars>>

\* DownloadCanceled, and the end of its task.  After a panic neither happens.
Unregisters(t) ==
  /\ pc # "Sending" /\ manager[t] = "Ended"
  /\ manager' = [manager EXCEPT ![t] = "None"]
  /\ Emit(<<Ignored>>)
  /\ UNCHANGED <<entries, stored, announcing, discarded, paused, orders, telling, open, panicked, starts, connects, ended, pc, modelVars>>

\* A connection is announced once its manager has a place for it, which the
\* manager may have left since.  A remote peer need not wait until it runs.
Connects(t, type) ==
  /\ connects < MaxConnects
  /\ \/ manager[t] \in {"Running", "Ended"} \/ t \in ended
     \/ manager[t] = "Spawned" /\ type = "Inbound"
  /\ connects' = connects + 1
  /\ open' = [open EXCEPT ![t][type] = @ + 1]
  /\ Emit(<<PeerEvent("NewConnection", t, type)>>)
  /\ UNCHANGED <<entries, stored, manager, announcing, discarded, paused, orders, telling, panicked, starts, ended, pc, modelVars>>

\* run_gracefully, when the connection's loop has returned.
Disconnects(t, type) ==
  /\ open[t][type] > 0
  /\ open' = [open EXCEPT ![t][type] = @ - 1]
  /\ Emit(<<PeerEvent("Disconnected", t, type)>>)
  /\ UNCHANGED <<entries, stored, manager, announcing, discarded, paused, orders, telling, panicked, starts, connects, ended, pc, modelVars>>

\* A Cancel of the remote (todo!), an answer that nobody asked for or a payload
\* that is too short: the task ends without an event.
Panics(t, type) ==
  /\ open[t][type] > 0
  /\ open' = [open EXCEPT ![t][type] = @ - 1]
  /\ panicked' = [panicked EXCEPT ![t][type] = @ + 1]
  /\ UNCHANGED <<entries, stored, manager, announcing, discarded, paused, orders, telling, starts, connects, ended,
                 eventVars, pc, modelVars>>

-----------------------------------------------------------------------------
(* The application's start *)

Row(t, bitfield) ==
  [torrent |-> t, bitfield |-> bitfield, is_paused |-> FALSE,
   connections |-> [type \in ConnectionType |-> 0]]

\* ClientOptions::build: continue_download_unfinished skips what it cannot open.
Build ==
  /\ pc = "Building"
  /\ \E started \in SUBSET {t \in entries : stored[t] # Piece} :
       /\ starts' = starts + Cardinality(started) /\ starts' <= MaxStarts
       /\ manager' = [t \in Torrent |-> IF t \in started THEN "Spawned" ELSE manager[t]]
  /\ pc' = "Subscribing"
  /\ UNCHANGED <<entries, stored, announcing, discarded, paused, orders, telling, open, panicked, connects, ended, eventVars, modelVars>>

Subscribe ==
  /\ pc = "Subscribing"
  /\ pc' = "Listing"
  /\ UNCHANGED <<clientVars, eventVars, modelVars>>

\* get_all_torrents and Model::new
List ==
  /\ pc = "Listing"
  /\ \E listed \in [1..Cardinality(entries) -> entries] :
       /\ entries = {listed[i] : i \in DOMAIN listed}
       /\ rows' = [i \in DOMAIN listed |-> Row(listed[i], stored[listed[i]])]
  /\ total_items' = Cardinality(entries)
  /\ selected' = IF entries = {} THEN NoSelection ELSE 0
  /\ pc' = "Draw"
  /\ UNCHANGED <<clientVars, eventVars, page, offset, visible, sending>>

-----------------------------------------------------------------------------
(* Drawing *)

\* mutant: the selected row is scrolled to just below the last one drawn
ScrolledShort(max_visible_items) ==
  IF selected >= offset + max_visible_items THEN selected - max_visible_items
  ELSE IF selected # NoSelection /\ selected < offset THEN selected
  ELSE offset

\* scroll_to_selected
Scrolled(max_visible_items) ==
  IF selected # NoSelection /\ selected >= offset + max_visible_items /\ selected # total_items
  THEN selected - max_visible_items + 1
  ELSE IF selected # NoSelection /\ selected < offset THEN selected
  ELSE offset

\* unwrap_or_default
Index == IF selected = NoSelection THEN 0 ELSE selected

\* get_visible_item_range: from offset up to, and without, this row.
VisibleEnd ==
  IF offset + visible < total_items THEN offset + visible ELSE total_items

Draw ==
  /\ pc = "Draw"
  /\ \/ /\ page = "TorrentList"
        /\ \E height \in Heights : visible' = height \div ITEM_HEIGHT
        /\ offset' = Scrolled(visible')
     \/ page = "AddingTorrent" /\ UNCHANGED <<offset, visible>>
  /\ pc' = "Event"
  /\ UNCHANGED <<clientVars, eventVars, page, rows, selected, total_items, sending>>

-----------------------------------------------------------------------------
(* Events that arrive *)

\* get_torrent_from_info_hash_mut: the first row of the torrent.
IsFirstRow(i, t) == rows[i].torrent = t /\ \A j \in 1..(i - 1) : rows[j].torrent # t
FirstRow(t) == {rows[i] : i \in {j \in DOMAIN rows : IsFirstRow(j, t)}}

\* mutant: only new connections are counted
CountedUp(event, counts) ==
  [type \in ConnectionType |->
     IF event.type = "NewConnection" /\ event.connection_type = type /\ counts[type] < MaxCount
     THEN counts[type] + 1 ELSE counts[type]]

\* increase_inbound and increase_outbound: saturating_add_signed
Counted(event, counts) ==
  [type \in ConnectionType |->
     IF event.type = "NewConnection" /\ event.connection_type = type /\ counts[type] < MaxCount
     THEN counts[type] + 1
     ELSE IF event.type = "Disconnected" /\ event.connection_type = type /\ counts[type] > 0
     THEN counts[type] - 1
     ELSE counts[type]]

\* mutant: Resumed is ignored, as StartDownload is
UpdatedWithoutResumed(event, row) ==
  [row EXCEPT
     !.is_paused = event.type = "Paused" \/ @,
     !.bitfield = @ \cup (IF event.type = "GotPiece" THEN {event.piece} ELSE {}),
     !.connections = Counted(event, @)]

\* mutant: neither Paused nor Resumed changes the row
UpdatedWithoutPause(event, row) ==
  [row EXCEPT
     !.bitfield = @ \cup (IF event.type = "GotPiece" THEN {event.piece} ELSE {}),
     !.connections = Counted(event, @)]

Updated(event, row) ==
  [row EXCEPT
     !.is_paused = event.type = "Paused" \/ (@ /\ event.type # "Resumed"),
     !.bitfield = @ \cup (IF event.type = "GotPiece" THEN {event.piece} ELSE {}),
     !.connections = Counted(event, @)]

\* update_from_application_event
UpdateFromEvent(event) ==
  IF event.type = "Ignored" THEN UNCHANGED <<rows, total_items>>
  ELSE IF event.type = "GotFileInfo"
  THEN /\ rows' = Append(rows, Row(event.torrent, event.bitfield))
       /\ total_items' = total_items + 1
  ELSE /\ rows' = [i \in DOMAIN rows |->
                     IF IsFirstRow(i, event.torrent) THEN Updated(event, rows[i]) ELSE rows[i]]
       /\ UNCHANGED total_items

\* handle_client_event: Lagged is an error, and no event is taken.
HandleEvent ==
  /\ pc = "Event"
  /\ pc' = "Input"
  /\ lagged' = FALSE
  /\ IF lagged \/ channel = <<>> THEN UNCHANGED <<channel, rows, total_items>>
     ELSE UpdateFromEvent(Head(channel)) /\ channel' = Tail(channel)
  /\ visible' = 0
  /\ UNCHANGED <<clientVars, lost, page, selected, offset, sending>>

-----------------------------------------------------------------------------
(* Keys *)

\* No key within 100 ms, or one that changes nothing but the text.
Idles ==
  /\ pc = "Input" /\ pc' = "Draw"
  /\ UNCHANGED <<clientVars, eventVars, modelVars>>

\* TorrentListState::next and previous
Moves ==
  /\ pc = "Input" /\ page = "TorrentList" /\ selected # NoSelection
  /\ selected' \in {(selected + 1) % total_items, (selected + total_items - 1) % total_items}
  /\ pc' = "Draw"
  /\ UNCHANGED <<clientVars, eventVars, page, rows, offset, total_items, visible, sending>>

OrderFor(row) == IF row.is_paused THEN "Resume" ELSE "Pause"

Registered(t) == manager[t] \in {"Running", "Ended"}

\* PauseResumeTorrent: without a registered manager nothing is sent.
Presses(t) ==
  /\ pc = "Input" /\ page = "TorrentList"
  /\ Index + 1 \in DOMAIN rows /\ rows[Index + 1].torrent = t
  /\ IF Registered(t)
     THEN sending' = {[torrent |-> t, order |-> OrderFor(rows[Index + 1])]} /\ pc' = "Sending"
     ELSE pc' = "Draw" /\ UNCHANGED sending
  /\ UNCHANGED <<clientVars, eventVars, page, rows, selected, offset, total_items, visible>>

ChannelClosed(t) == manager[t] # "Running"

\* The end of pause_download and resume_download.
Sends ==
  /\ \E s \in sending :
       \/ ChannelClosed(s.torrent) /\ UNCHANGED orders
       \/ /\ manager[s.torrent] = "Running" /\ Len(orders[s.torrent]) < ClientChannelSize
          /\ orders' = [orders EXCEPT ![s.torrent] = Append(@, s.order)]
  /\ pc' = "Draw" /\ sending' = {}
  /\ UNCHANGED <<entries, stored, manager, announcing, discarded, paused, telling, open, panicked, starts, connects, ended,
                 eventVars, page, rows, selected, offset, total_items, visible>>

ChangesPage ==
  /\ pc = "Input" /\ pc' = "Draw"
  /\ page' \in NavPage \ {page}
  /\ UNCHANGED <<clientVars, eventVars, rows, selected, offset, total_items, visible, sending>>

\* Enter with a torrent file or a magnet link: add_torrent and add_magnet, and
\* go_to_main_page.
Adds(t) ==
  /\ pc = "Input" /\ page = "AddingTorrent" /\ manager[t] # "Spawned"
  /\ \/ /\ Registered(t)
        /\ UNCHANGED <<entries, manager, starts, eventVars>>
     \/ /\ t \in entries
        /\ StartFromEntry(t, stored[t]) /\ UNCHANGED entries
     \/ /\ t \notin entries
        /\ StartFromEntry(t, {}) /\ entries' = entries \cup {t}
     \/ /\ t \notin entries /\ manager[t] = "None" /\ starts < MaxStarts
        /\ manager' = [manager EXCEPT ![t] = "Spawned"] /\ starts' = starts + 1
        /\ UNCHANGED <<entries, eventVars>>
  /\ page' = "TorrentList" /\ pc' = "Draw"
  /\ UNCHANGED <<stored, announcing, discarded, paused, orders, telling, open, panicked, connects, ended,
                 rows, selected, offset, total_items, visible, sending>>

-----------------------------------------------------------------------------

\* relative_selected_index is computed on usize: in a build with overflow checks
\* an offset behind the selected row ends the application, in others it wraps
\* around and no row is shown as selected.
Overflows == pc = "Event" /\ page = "TorrentList" /\ Index < offset

\* The key q, a text that is neither a file nor a link (todo!), or a torrent
\* that cannot be added (expect) end the application; it is started again.
Restarts ==
  /\ pc = "Input" \/ Overflows
  /\ manager' = [t \in Torrent |-> "None"]
  /\ announcing' = [t \in Torrent |-> {}] /\ discarded' = [t \in Torrent |-> {}]
  /\ paused' = [t \in Torrent |-> FALSE]
  /\ orders' = [t \in Torrent |-> <<>>] /\ telling' = [t \in Torrent |-> {}]
  /\ open' = [t \in Torrent |-> [type \in ConnectionType |-> 0]]
  /\ panicked' = [t \in Torrent |-> [type \in ConnectionType |-> 0]]
  /\ starts' = 0 /\ connects' = 0 /\ ended' = {}
  /\ channel' = <<>> /\ lagged' = FALSE /\ lost' = FALSE
  /\ pc' = "Building" /\ page' = "TorrentList" /\ rows' = <<>>
  /\ selected' = NoSelection /\ offset' = 0 /\ total_items' = 0 /\ visible' = 0
  /\ sending' = {}
  /\ UNCHANGED <<entries, stored>>

Init ==
  /\ entries \in SUBSET Torrent
  /\ stored \in [Torrent -> SUBSET Piece] /\ \A t \in Torrent \ entries : stored[t] = {}
  /\ manager = [t \in Torrent |-> "None"]
  /\ announcing = [t \in Torrent |-> {}] /\ discarded = [t \in Torrent |-> {}]
  /\ paused = [t \in Torrent |-> FALSE]
  /\ orders = [t \in Torrent |-> <<>>] /\ telling = [t \in Torrent |-> {}]
  /\ open = [t \in Torrent |-> [type \in ConnectionType |-> 0]]
  /\ panicked = [t \in Torrent |-> [type \in ConnectionType |-> 0]]
  /\ starts = 0 /\ connects = 0 /\ ended = {}
  /\ channel = <<>> /\ lagged = FALSE /\ lost = FALSE
  /\ pc = "Building" /\ page = "TorrentList" /\ rows = <<>>
  /\ selected = NoSelection /\ offset = 0 /\ total_items = 0 /\ visible = 0
  /\ sending = {}

ManagerSteps(t) ==
  \/ Listener(t) \/ Runs(t) \/ GotMetadata(t) \/ Announces(t)
  \/ ClientMessage(t) \/ Told(t) \/ ManagerEnds(t) \/ Unregisters(t)
  \/ \E piece \in Piece : Stores(t, piece) \/ Discards(t, piece)
  \/ \E type \in Reached : Connects(t, type) \/ Disconnects(t, type) \/ Panics(t, type)

UserInput ==
  \/ Idles \/ Moves \/ ChangesPage
  \/ \E t \in Torrent : Presses(t) \/ Adds(t)

Next ==
  \/ \E t \in Torrent : ManagerSteps(t)
  \/ Build \/ Subscribe \/ List
  \/ Draw \/ HandleEvent \/ UserInput \/ Sends
  \/ Restarts

Spec == Init /\ [][Next]_vars

Loop == Draw \/ HandleEvent \/ UserInput \/ Sends
ManagerLoop(t) == ClientMessage(t) \/ Told(t) \/ Announces(t)

\* The loop goes on without a key, since event::poll has a timeout, and a
\* manager that runs takes its messages.  Of the steps of either loop at most
\* one is enabled at a time.
FairSpec == Spec /\ WF_vars(Loop) /\ \A t \in Torrent : WF_vars(ManagerLoop(t))

-----------------------------------------------------------------------------
(* Properties *)

TypeOK ==
  /\ entries \subseteq Torrent /\ ended \subseteq Torrent
  /\ stored \in [Torrent -> SUBSET Piece] /\ announcing \in [Torrent -> SUBSET Piece]
  /\ discarded \in [Torrent -> SUBSET Piece]
  /\ manager \in [Torrent -> {"None", "Spawned", "Running", "Ended"}]
  /\ paused \in [Torrent -> BOOLEAN]
  /\ orders \in [Torrent -> Seq(Order)] /\ telling \in [Torrent -> SUBSET Order]
  /\ open \in [Torrent -> [ConnectionType -> Nat]]
  /\ panicked \in [Torrent -> [ConnectionType -> Nat]]
  /\ starts \in Nat /\ connects \in Nat
  /\ lagged \in BOOLEAN /\ lost \in BOOLEAN
  /\ pc \in {"Building", "Subscribing", "Listing", "Draw", "Event", "Input", "Sending"}
  /\ page \in NavPage
  /\ rows \in Seq([torrent : Torrent, bitfield : SUBSET Piece, is_paused : BOOLEAN,
                   connections : [ConnectionType -> 0..MaxCount]])
  /\ selected \in Nat \cup {NoSelection} /\ offset \in Nat /\ total_items \in Nat
  /\ visible \in Nat
  /\ sending \subseteq [torrent : Torrent, order : Order]

Pending(t, type) == {i \in DOMAIN channel : channel[i].type = type /\ channel[i].torrent = t}

\* Though pieces complete while the application starts, and its events come one
\* by one: unless the channel has dropped one, every recorded piece is in the
\* torrent's row or will be by what is on its way.
ProgressIsShown ==
  ~lost => \A t \in Torrent : \A row \in FirstRow(t) :
    stored[t] \subseteq row.bitfield \cup announcing[t]
                          \cup {channel[i].piece : i \in Pending(t, "GotPiece")}

\* With the events of t that are on their way, the first row of t counts at most
\* `most` connections of a type.
CountsAtMost(t, type, most) ==
  LET Of(event) == Cardinality({i \in Pending(t, event) : channel[i].connection_type = type})
  IN \A row \in FirstRow(t) :
       row.connections[type] + Of("NewConnection") <= most + Of("Disconnected")

\* A row may count too few connections, since it only sees those that were
\* opened after it was made, and saturates; unless an event was dropped it never
\* counts more than are open or have panicked.
NeverCountsTooMany ==
  ~lost => \A t \in Torrent, type \in ConnectionType :
    CountsAtMost(t, type, open[t][type] + panicked[t][type])

PauseEvents(t) == Pending(t, "Paused") \cup Pending(t, "Resumed")

\* Unless an event was dropped or its manager has ended, a torrent's row says
\* whether it is paused, or will by the last event on its way.
PausedIsShown ==
  ~lost => \A t \in Torrent \ ended : \A row \in FirstRow(t) :
    \/ PauseEvents(t) = {} /\ row.is_paused = paused[t]
    \/ \E i \in PauseEvents(t) :
         /\ \A j \in PauseEvents(t) : j <= i
         /\ paused[t] = (channel[i].type = "Paused")

\* However the list grows, the selection moves and the terminal is resized: the
\* slice of rows that is drawn exists, and the selected row is in it whenever
\* there is room for a row.
DrawnFits ==
  pc = "Event" /\ page = "TorrentList" =>
    /\ offset <= VisibleEnd /\ VisibleEnd <= Len(rows)
    /\ selected # NoSelection /\ visible > 0 => offset <= selected /\ selected < VisibleEnd

\* Though events are dropped and is_paused may be stale: a user who presses the
\* key again and again on the row of a running torrent, and not all the time,
\* finds it downloading again and again.
PressesFirstRow(t) == Presses(t) /\ IsFirstRow(Index + 1, t)

CanBeResumed ==
  \A t \in Torrent :
    /\ []<><<PressesFirstRow(t)>>_vars /\ []<><<Idles>>_vars
    /\ <>[](manager[t] = "Running")
    => []<>~paused[t]

\* The loop never hangs in a press, though the channel of the manager is full or
\* the manager ends while it waits.
PressReturns == pc = "Sending" ~> pc # "Sending"

-----------------------------------------------------------------------------
(* What the repository says and the code does not keep: the model refutes  *)
(* each of these (README, section 4).                                       *)

\* The row shows "inbound_connections" and "outbound_connections"
\* (tui-app/src/render_view/torrent_list.rs): those whose task has panicked, too.
OnlyOpenAreCounted ==
  ~lost => \A t \in Torrent, type \in ConnectionType : CountsAtMost(t, type, open[t][type])

\* "if it's None (no torrents), we have selected the first element which is
\* fine, since there won't be any shown here" (torrent_list.rs).
NoSelectionIsEmpty == selected = NoSelection => rows = <<>>

\* "adjust offset to ensure selected item is visible" (model.rs).
SelectedIsVisible ==
  pc = "Event" /\ page = "TorrentList" /\ selected # NoSelection => offset <= selected
=============================================================================
