# A TLA+ model of riptorrent

This directory specifies and checks the core of `src/riptorrent`, a BitTorrent
client written as communicating tokio tasks: how pieces are chosen, downloaded,
stored and recorded, how a connection pipelines its requests, how a manager keeps
its connections, how metadata is assembled, how the wire is framed, how trackers
are asked, how the client starts and ends its managers, and how the terminal
application (`src/tui-app`) shows all this. `PROJECT.json` lists the parts, the runs, which
definition models which lines, the hazards and the theorems; this file explains
them.

## 1. The system

### Tasks and what they exchange

    TUI (tui-app) --calls--> Client --ClientMessage (mpsc)--> PeerManager, one task per torrent
        ^                      |  registry: Mutex<HashMap<InfoHash, senders>>      |   ^
        |  ApplicationEvent    |  listener task: incoming connections              |   | ReqMessage (mpsc, 64)
        +---- broadcast(32) ---+                                        ResMessage |   | shared by all peers
                                                                    (mpsc, 16 per  v   |
    tracker <--HTTP-- PeerFetcher (inside the PeerManager)               peer)    Peer, one task per connection <--TCP--> remote peer
    database record, output file <-- PeerManager only

* `Client` (`client.rs`) keeps the registry of running managers, starts one from
  a torrent file, a magnet link, a database record (at start-up) or an incoming
  connection, and forwards pause and resume.
* `PeerManager` (`peer_manager/`) is an event loop that handles one message at a
  time, but awaits inside its handlers (database, trackers, sends to peers). It
  keeps the `TorrentState`, the map of connections, the `PieceSelector` and,
  once the metadata is known, the `PieceManager` with its `DownloadQueue` and
  the output file.
* `PieceSelector` keeps the rarity of every piece, a lazily cleaned min-heap, our
  bitfield, the peers' bitfields and the in-flight flags.
* `MetadataPieceManager` assembles the metadata of a magnet link from blocks.
* `Peer` (`peer/`) translates between the wire and the manager: it pipelines
  requests (`to_send`, `have_sent`) and keeps the choking and interest flags.
* `MessageFramer` (`messages/`) frames and decodes the wire's bytes.
* `PeerFetcher` and `TrackerRequest` ask the trackers tier by tier.
* The TUI keeps a list of torrents. Its loop draws, takes at most one event from
  the broadcast channel, waits up to 100 ms for a key, and begins again.

### State, operations, hard behaviour, correctness

| component | state | operations | what is hard | what makes it correct |
|---|---|---|---|---|
| piece selector | rarity, heap, `have`, peer bitfields, in-flight flags | add/remove peer, bitfield, have, metadata, select, piece stored | lazily discarded entries, message orders, vectors that are resized when the metadata arrives | one length for all vectors; never selects a piece we have; no holder is lost; rarest first |
| download queue | pieces with the states of their blocks | prepare requests, block arrives, timeout, completion | several peers on one piece, late and duplicate answers, `swap_remove` | a piece is queued once; requests never change what is queued |
| piece storage | output file, database record | verify, write, record, read back | failure or crash between write and record | the record never runs ahead of the file, nothing recorded is fetched or written again |
| manager event loop | torrent state, map of connections | 9 peer messages, tracker timer, client messages | awaits inside handlers, bounded channels both ways, reconnects under one id | state transitions only when complete; no deadlock with the peers; a connection with an id of its own is never removed; every stored piece is told to every connection |
| metadata manager | block states, bytes | set length, request, add block, check | timeouts, wrong lengths, answers of any length, reset after a bad hash | metadata is used only when its hash matches; it is eventually complete |
| peer connection | `to_send`, `have_sent`, four flags | 9 manager messages, 10 wire messages, timeout, close | pipelining over two asynchronous sources, choke, pause | requests in flight are counted; a peer with work left is asked |
| client registry | running managers | add, pause, resume, end, incoming | check-then-spawn with an await in between, a Mutex held over an await | who is registered is there; no call takes a record back; every call returns |
| codec, geometry, trackers | none, none, tier order | decode, encode; sizes; tier update | partial frames, unknown types; last piece and last block | every frame is decoded once; blocks tile the torrent |
| TUI | rows, selection, scroll offset | events, keys, drawing | lost and late events, keys pressed on what is out of date, a list that grows under the selection | without a loss the rows agree with the managers; what is drawn exists; the user is never stuck |

The hazards behind the fourth column, each at its line, are in `PROJECT.json`.

## 2. Modules

| module | models | how |
|---|---|---|
| `PieceSelector` | `piece_selector.rs`, every method | one operator per method; its own `SelectorSpec` calls them in any order |
| `PieceManager` | the handlers of `event_loop.rs` that reach `req_preparer.rs`, `file_manager.rs` and `database.rs` | extends `PieceSelector`; one action per handler; failures, crash and restart |
| `Download` | nothing in the code: the promise about file and record | abstract specification, instantiated by `PieceManager` |
| `PieceGeometry` | the lengths and places of pieces and blocks (`req_preparer.rs`, `file_manager.rs`) | pure functions on byte numbers |
| `PieceStorage` | the download with its bytes | extends `PieceManager` and `PieceGeometry`; no steps of its own |
| `PeerConnection` | `peer/event_loop.rs`, `peer/extensions.rs`, `peer/conn.rs`, and what the manager's handlers send one peer | one action per message; both bounded channels; the remote as environment |
| `Connections` | the map `peers`, `send_peer`, `broadcast_peers` and the handlers that use them, `peer/conn.rs`, for several connections | one action per handler and per message sent; ids that are shared; both kinds of bounded channels |
| `MetadataPieceManager` | `metadata_piece_manager.rs` with its callers | one action per handler; bytes; answers late, wrong, of any length or missing |
| `Client` | `client.rs`: calls, registry, listener, the life of manager tasks | one action between two awaits; a std mutex and a number of workers |
| `MessageFramer` | `messages/mod.rs` in tokio's framed reader | bytes; any cut into reads; another client on the other end |
| `MessageChannel` | nothing in the code: the promise of the codec | abstract specification, instantiated by `MessageFramer` |
| `PeerFetcher` | `peer_fetcher.rs`, and a tier's loop of `core/tracker.rs` | tiers as sequences; trackers fail, hang and answer in any order |
| `TorrentList` | `tui-app`: `main.rs`, `model.rs`, `update/`, the slice drawn by `render_view/torrent_list.rs`; `events.rs` | one action per part of the loop; the client and its managers as what sends the events |
| `MC...` | | values of the constants for TLC |
| `...Proofs` | | theorems |

`PieceManager` is composed of `PieceSelector` (extended) and refines `Download`;
`PieceStorage` composes it with `PieceGeometry`. The other modules meet at
messages: what `PeerConnection` puts in `inbox` is what `PieceManager`,
`Connections` and `MetadataPieceManager` handle, `Client!Save` and
`Client!GotMetadata` are the two points at which a manager touches the record
that `PieceManager` calls `db`, and `TorrentList` keeps of the managers what their
events tell. Those seams are kept apart on purpose: every property below concerns
one side of a seam.

Operators marked "mutant" (`TouchedAnyPiece`, `CountsBlocksOnly`, ...) are not part of
the models: each is a plausible slip in the code that the properties are known
to reject when it replaces the definition after it.

### PieceSelector

Pieces are numbered from 1. A `Vec<bool>` is a function on `1..n`; the empty
vectors of a magnet link without metadata are `<<>>`. The heap is a set of
`<<rarity, piece>>`: equal entries are popped one after the other and all but
the first are always discarded, because a selected piece is in flight.
`select_pieces_for_peer` pops until it holds `count + 1` pieces or the heap is
empty; `Popped(id, k)` states which entries that removes. A peer's bitfield may
be longer than the torrent (it is decoded from whole bytes) or shorter.

### PieceManager

| code | model |
|---|---|
| `TorrentState` | `torrent_state`; "Stopped" when no manager runs |
| `DownloadQueue(Vec<PieceState>)` | `download_queue`, a sequence of `[piece_i, blocks]` |
| `BlockState::{None, InProcess, Finished}` | "None"; "InProcess" until `TIMEOUT_FOR_REQ` has elapsed, then "TimedOut"; "Good" or "Bad" for a finished block and what the buffer holds there |
| the await of `update_bitfields` in `handle_piece` | `saving`, the piece being recorded; the loop takes no message meanwhile |
| output file | `file`, the chunks that were appended, `Partial` for what a failed write left |
| record in the database | `db`, its bitfield, `<<>>` when there is none |
| `FinishedPiece` broadcasts | `announced` |

A handler is one action, with every call it makes: `GotBlock` updates the block,
and when the piece is complete removes it (`swap_remove`), checks the hash,
writes the piece and leaves `BitfieldUpdated` (or `ManagerStops`, the failing
update) to follow; `NeedBlockQueue` takes requestable blocks in the order of the
queue and runs as many rounds of the selector as it needs. An answer may have any
length: it finishes the block it begins in and overwrites what had arrived of the
blocks behind it (`WithAnswer`); one that leaves the piece panics. The file is opened
with `append(true)`, where a positioned write appends on Linux, so no property
speaks of places in the file: `OnlyFailuresWaste` says how much is appended, and
`FileIsTheTorrent` is refuted. Errors and panics end the
manager (`ManagerStops`, `WritePieceToFile`, `GotMetadataFails`); `Restart` builds it
again from the record, or from the magnet link when there is none.

Left out here: message contents and events, the map of connections (`Connections`);
pause and resume (`PeerConnection`), the metadata's blocks (`GotMetadata` stands for the
last one) and the trackers (a failing request, like a panic, is `ManagerStops`).

### PieceGeometry and PieceStorage

Bytes are numbers, a range of bytes is a set. `GetPieceSize`, `NumBlocks`,
`GetBlockLen`, `Begin` and `Offset` are the functions of the code; `BlockAt` is
the division by which `update_state` finds the block of an answer. The
assumption of `PieceStorage` connects them with the manager's numbers of pieces
and blocks: with it, the states of a piece's blocks say which of its bytes have
arrived and which are awaited. That the torrent has one hash for each piece and
that its lengths fit into the code's integers is assumed of the metainfo.

### Download

Only what outlives the process: is there a record, how many verified copies of
each piece the file holds, which pieces are recorded. A piece is recorded only
after it was written; a recorded piece is never written again; nothing is taken
back. `PieceManager!ImplementsDownload` is this specification under the mapping
`metadata <- db # <<>>`, `copies <- Copies`, `recorded <- RecordedPieces`.

### PeerConnection

| code | model |
|---|---|
| one turn of `Peer::run`'s loop | one action; the peer's state is a record `t` that the helpers of `peer/mod.rs` transform (`SetInterested`, `RequestBlockQueue`, `SendPeer`, ...), and every turn ends in `RequestNextBlocks` |
| `construct_stream`'s merge of wire and mailbox | `mail_next`: tokio's merge looks at the other stream next |
| mailbox (16), the manager's channel (64) | `mailbox`, `inbox`; what exceeds the capacity is what its sender still waits to put in, and who waits does nothing else |
| `queue.to_send`, `queue.have_sent` | numbers of block and metadata requests; `have_sent` wraps around at `UsizeMax`, or panics in a debug build |
| `run` ends with an error, or returns | `Fails`, `Leaves`: the mailbox is dropped before or after the peer's `Drop`, which sends `PeerDisconnected` |
| `send_extended_handshake` before the loop | `SendExtendedHandshake`, which may fail |
| a write to the closed socket that fails in the middle of a turn | `writes`: the number of messages the turn had sent to the manager before each write, and the end keeps so many of them (`CutAt`) |
| the manager's handlers | their effect on this one peer: what they send it, and whether the map still holds it |
| the remote | `owed`, what it still has to answer; a choke drops the block requests, as the protocol has it; `strayed` remembers whether one did, or an answer came that nobody asked for |

Of a message only its type and number of requests are kept. What the model
leaves out: contents, the first handshake, other peers' messages in
the manager's channel (`InboxSize` is this peer's share; several peers are in
`Connections`). `Limit` is the reqq of the remote less the margin, modulo `Word`.

### Connections

| code | model |
|---|---|
| `peers: HashMap<PeerId, PeerConn>` | `peers`, a function from the ids in the map to connections; iterated in any order (`Orders`) |
| the only `Sender` of a mailbox, in the map | a connection without an entry keeps what is in its mailbox and gets nothing more |
| the awaits of `send_peer` and `broadcast_peers` | `sending`: one message is sent per step, and the manager takes no other while one is left |
| the manager's `mpsc` (64) | `channel`; what is beyond `InboxSize` belongs to senders that still wait |
| `Drop for Peer` | `Ends`, with the mailbox kept (`Leaving`) or gone (`Failing`) before it |
| one id for several connections | `Remotes`: who may be at the other ends |

A handler that answers is two kinds of steps: it is taken, with what it reads
(`WhatDoWeHave` copies the bitfield), and its messages are sent later. A reply that
fails takes whoever has the id off the map; a failing broadcast does nothing. Of
the mail, only the bitfield, the finished pieces and what starts a connection
are told apart; the pieces the remote was told of are `told`. Choking, requests and
interest are `PeerConnection`'s.

### MetadataPieceManager

`queue` holds per block "None", "InProcess" (until `TIMEOUT_METADATA_REQ`, then
"TimedOut") or "Finished"; `bytes` the buffer, each byte the torrent's ("Right") or
not; a new buffer is of zeros, which may be right. `asked` are the requests a
remote has not answered. An answer is a handler's step with whatever data follows
the message: right or wrong, of any length, or none (a rejection, and also a
request of the remote's own, finishes a block). The check of the hash and the
transition belong to the same step, as in the handler. Remotes may announce wrong
lengths. Data beyond the buffer, an index outside of the queue and metadata that
cannot be read end the manager ("Stopped").

### Client

A call of the application is cut where it awaits the database or a channel, or takes the
registry's mutex: between two of these nobody else can see it. The std mutex blocks its
thread: calls run on threads of their own, because the futures of `pause_download` and
`resume_download` hold a guard and so are not `Send`; managers and the listener are
tasks, and one that waits for the lock keeps one of the `Workers` (`blocked`). A
manager's task is "Spawned", registers itself, is "Running", and ends with an error
("Ended", then "Gone" when it has removed the entry) or in a panic. The listener hands a
connection to its manager (`HandOver`) and takes the next one only when that has taken
it, however long its queue is full: no step of the listener's is assumed there. Of a
manager's work only what touches the record is kept: `GotMetadata` creates it, `Save`
replaces its bitfield by the manager's own.

### MessageFramer

`Decode` is one call of the decoder by tokio's `Framed`, which calls it until it
returns `None`, then reads; `Read` delivers any number of the bytes on the wire.
`Decode`'s branches (`NoMessage`, `TooLarge`, `Yields`, `SkipsUnknown`, `Panics`) are the
decoder's, in its order, over real bytes and a big-endian length; `LacksBytes` is
its demand for more. A payload is any sequence of bytes of `Payloads`; one that is
shorter than the fields of its type (`Shortest`, `IsReadable`) makes the decoder
panic, and the connection's task with it. The other
end is this encoder (`Encode`) or another client (`ForeignMessage`): keep-alives
with bytes, unknown types, frames too large, payloads too short.

### MessageChannel

A pipe of messages: one can be sent, the oldest that was not received can be
received, and the stream ends only when nothing is left in it. How the
bytes were cut, the frames without a message and the sizes are not in it.
`MessageFramer!ImplementsChannel` is this specification under the mapping
`sent <- Meant` (the messages the other end has written), `received <- Got` (those
the decoder has returned) and its own `ended`.

### TorrentList

| code | model |
|---|---|
| the loop of `main` | `pc`: "Draw", "Event", "Input", and "Sending" while a press awaits the manager's channel |
| `client.build()`, `subscribe_to_events`, `get_all_torrents` | `Build`, `Subscribe`, `List`: managers work meanwhile, and what they send before `Subscribe` is never seen |
| the broadcast channel | `channel`, `lagged`; `lost` remembers whether an event was dropped |
| `TorrentInfo` | a row: bitfield, `is_paused`, counts of connections that saturate |
| `TorrentListState` | `selected`, `offset`, `total_items`; `visible` is the drawing's height in rows |
| manager, connections | what sends events: `Stores` and `Announces` are the two ends of a finished piece, `ClientMessage` an order taken and `Told` its end, when every peer was told, `Connects`, `Disconnects` and `Panics` a connection |

`Draw` picks any height, as a terminal may be resized between two frames. An
event for a torrent updates its first row, though a second row appears whenever
the manager of a listed torrent is started again by the listener or by adding it
(`GotFileInfo` always appends). A piece that was discarded for its hash is
announced like a stored one. A connection's task that panics (a remote's Cancel, an
answer that nobody asked for, a payload too short) emits no `Disconnected`: it is
`panicked`, and the rows count it for ever. An inbound connection is announced
also while its manager is only spawned, and connections outlive their manager. A
key that changes only the text field, or no key,
is `Idles`. Errors that end the application are `Restarts`.

### PeerFetcher

A request asks a copy of every tier at once, a tier's trackers in turn. A
tracker fails, hangs (`TimesOut` ends its tier) or answers, which moves it to the
front of the real tier, at the index it had in the copy. Intervals and peers of
the answers follow `req_tracker_add_peers`.

## 3. Runs

| run | instance | shows |
|---|---|---|
| `selector` | 2 peers (symmetric), 2 pieces, bitfields of length 1 and 3, selection of 1 | `RarityNeverUndercounts`, `NeverSelectsHeldPiece`, `RarestFirst` |
| `manager` | 2 peers (one with a part of the torrent, one that leaves), blocks of 2 bytes, pieces of 3 bytes, a torrent of 4, answers of one or two blocks with good and bad data, early asking, 1 failure | `QueuedOnce`, `RecordedNotQueued`, `SeedingIsComplete`, `BlocksFillThePiece`, `OnlyFailuresWaste`, `ImplementsDownload`, no deadlock |
| `manager_liveness` | a seeder that stays and one that leaves, good data, 1 failure | `NothingIsForgotten`, `DownloadCompletes` |
| `connection` | channels of 1, a remote that answers, chokes, cancels and closes; pause, resume, metadata, pieces that its answers complete | `InterestIsTold`, `OutstandingIsCounted`, `NothingWaitsIdle`, `OneBatchAtATime` |
| `connection_liveness` | channels of 1, a remote that chokes, answers, sends what nobody asked for and fails; a manager that stops | `QueuedIsSent` |
| `client` | 1 torrent, 1 caller, the listener, 2 managers, 3 workers, channel of 1, panics | `RegisteredIsThere`, `MetadataHasRecord`, `ProgressIsKept`, `CallsReturn`, `EndedIsForgotten` |
| `framer` | 3 messages, payloads of 0 to 2 bytes, a maximum of 2, two known types, one of which needs a byte of payload, one unknown type | `FineIsDecoded`, `ImplementsChannel` |
| `metadata` | 3 peers, one without the extension, one that answers; metadata of 3 bytes in blocks of 2, announced lengths of 0, 2, 3 and 5, answers of 0 to 3 bytes | `DownloadsTheTorrent`, `SomethingIsMissing`, `MetadataArrives` |
| `fetcher` | tiers of 3 and 2 trackers, 3 requests, 2 peers are enough, intervals of 0 and 1 | `TiersKeepTheirTrackers`, `AnswererBecomesFirst`, `RequestEnds` |
| `connections` | 2 connections of one peer or of two, 2 pieces, channels of 1, one connection that the remote may close, 2 messages or orders | `NothingIsMissed`, `AloneIsRegistered`, `NothingIsLeftBehind`, `PiecesAreTold`, `EndedIsForgotten` |
| `torrent_list` | 1 torrent of 1 piece, a channel for 2 events, heights of no row and of one, 1 manager started, 1 inbound connection, counts up to 1 | `ProgressIsShown`, `NeverCountsTooMany`, `PausedIsShown`, `DrawnFits`, `CanBeResumed`, `PressReturns`, no deadlock |
| `manager_discarded` | | what the code does not keep, section 4 |

The type invariants, and what the other properties rest on or imply
(`HeldEntriesAreInFlight`, `HaveIsRecorded`, `RecordedIsWritten`, `RegisteredIsKnown`,
`DecodesInOrder`, `EndedIsComplete`), are theorems (section 5) and take no part in the
runs.

Bounds. Two peers give every race there is between peers for one piece (a
selection for one, a block of another, a disconnect in between); a third would
only repeat them. Two pieces of different sizes give order in the heap and the
queue, a `swap_remove` that moves an entry, and completion with other pieces
queued. `MAX_PIECES_IN_PARALLEL = 0` makes a round select one piece, so that
`prepare_next_blocks` needs several rounds. `MaxRarity` bounds only how often
peers repeat themselves. One failure or crash at any point, followed by a
restart, is enough for a record and a file to disagree.

Channels of size 1 stand for 16 and 64: a channel matters by being full, and both can be
full at once. `MaxQueued` bounds what the manager hands out; 2 let a block and a
metadata request, or two batches, be queued together (run `connection`). `UsizeMax` only
has to be more than what is ever counted honestly; a remote that upsets the count is
handed no more while it owes more than `MaxQueued`. Pieces that other peers complete are
in `connection_liveness`, where one request at a time is enough, since the property asks
whether the batch is ever sent, not how many are. One torrent in `client`: torrents
share only the mutex, which the second manager contends for as well; two managers are
the least that race for one entry and one record; with 3 workers the two managers and
the listener can all block without starving each other, which is the least for
`CallsReturn`. Three messages in `framer` put an unknown frame before, between and
behind known ones, and every read boundary falls everywhere. Two blocks of metadata are
the least that can finish in two orders; with 3 bytes the last one is short, an answer
of 3 overruns it, and the wrong lengths are of no, of fewer and of more blocks. Three
requests are the least after which a tier of three has been rotated fully.

With blocks of 2, pieces of 3 and a torrent of 4 bytes both the last piece and the
last block of either piece are short; the theorems have every other length. Two
connections in `connections` are the least that can share an id, and the two
values of `Remotes` are all there are up to names; two pieces let one finish
before and one after a bitfield is copied. In `torrent_list` one torrent already
gets two rows when its manager is started while it is listed; two events are the
least channel in which an event can be dropped behind one that is still there.
Counts saturate at 1: with one connection only the lower end is reached; with
`MaxConnects = 2` both are (3.7 million states; the invariants hold). `ITEM_HEIGHT`
is the code's.

Deadlock is checked in the runs `manager` and `torrent_list`; elsewhere the system may
come to rest: a bound is reached, the connection or the stream has ended.

### Fairness

`PieceManager!FairSpec`. The event loop and the database's answer are polled by
the runtime: weak fairness of `GotMetadata` and `BitfieldUpdated`. A peer that
stays connects, sends its bitfield and asks whenever it has nothing left to
request (`peer/event_loop.rs`, lines 166 and 200): weak fairness. Its answers to
a request may be overtaken by the timeout again and again, but a request that is
renewed for ever is eventually answered in time: strong fairness per block,
because a timeout disables the answer. `Restart` is weakly fair: the user
starts the program again. Liveness is stated for peers that ask only after
their bitfield was handled (`AskingEarly = {}`) and that have every piece;
otherwise it fails: an entry popped for a peer without the piece is lost
(`UpToDateEntriesAreKept`, section 4).

`PeerConnection!Fairness`. The manager's loop takes its messages (weak). The
mailbox is strongly fair, because tokio's merge alternates: the wire can not
keep it from being polled. The remote answers what it was asked (strong per
kind, since its message may be delayed behind others). Nothing is assumed of a
remote's other messages, of chokes or of the client. `QueuedIsSent` holds up to the
moment the remote has `strayed`: it choked while it owed blocks, or sent an answer
that was not asked for. After that `have_sent` may never be 0 again, with a
choke alone too (`UnchokedIsAsked`, section 4). And it holds up to `CircularWait`: the
code's two bounded channels can wait for each other, and the run reaches it. Chokes,
unasked answers and the circular wait are all in the run.

`MetadataPieceManager!Fairness`. A remote that answers does so; requests time
out; and a peer that waits for no answer asks again on every message, so that
again and again it is the one that finds a block to request (strong fairness of
a request by an answering peer: others take requests in between). `MetadataArrives`
makes two assumptions in the property itself. One is that hash mismatches end: with wrong
answers for ever there is no bound on the retries; those that came before may have left
wrong bytes and requests anywhere. The other, `[]GoesOn`, is that the length announced
first was right, since it is never corrected, and that no answer stopped the manager.

`Client!Fairness`. Calls continue, and a running manager takes its messages while
a worker is left (weak). Who waits for the std mutex gets it if it is given
back again and again (strong; the mutex is not fair, but its holders are few).
Nothing is assumed of the listener while it hands over a connection.

`Connections!Fairness`. The manager takes messages and sends what it has to send
(weak), connections read their mail (weak). Nothing is assumed of remotes or
of the client. Both liveness properties except the `CircularWait`.

`TorrentList!FairSpec`. The loop goes on without a key, since `event::poll` has a
timeout: weak fairness of `Loop`, of whose steps one part is enabled at a time. A
running manager takes its orders, and finishes what it is announcing or telling its
peers (`ManagerLoop`, weak). `CanBeResumed` assumes, in the property
itself, a user who presses the key again and again and also pauses in between.

`MessageFramer` and `PeerFetcher` assume that the reader is polled, that the
remote closes at last, and that the timeout of every tier's request fires.

## 4. Where the code does not do what it says

Run `manager_discarded` shows that a piece whose hash mismatched is never
downloaded again by this manager, though `file_manager.rs:43` says it will be;
`PROJECT.json` quotes the line.

The same models refute more statements of the repository. They are the last
definitions of their modules, each with the words it translates; to see the
counterexample, put the definition into the run's configuration, with the
changes named here.

| definition | configuration | the code |
|---|---|---|
| `RarityIsPeerCount` | `MCPieceSelector` | counts a repeated Have again (`piece_selector.rs:154`) |
| `UpToDateEntriesAreKept` | `MCPieceSelector` | drops current entries of pieces the asking peer lacks (`:172`) |
| `FirstBitfieldSizesOthers` | `MCPieceSelector` | never resizes the other peers' empty bitfields, the condition is inverted (`:132`) |
| `AnnouncedIsHad` | `MCPieceManager` | announces a piece whose hash mismatched (`file_manager.rs:32`) |
| `QueueWithinMax` | `MCPieceManager`, `MAX_PIECES_IN_PARALLEL = 1` | queues more than `MAX_PIECES_IN_PARALLEL` pieces (`piece_selector.rs:171`) |
| `LeftIsWhatIsMissing` | `MCPieceManager` | counts the pieces that are missing as if each were one block long (`peer_fetcher.rs:147`) |
| `FileIsTheTorrent` | `MCPieceManager` | stores the pieces in the order of their completion: the file is opened with `append` (`piece_manager/mod.rs:48`) |
| `SeedsWhatItHas` | `MCPieceManager` | cannot read the file back (`piece_manager/mod.rs:46`) |
| `WithinMaxReq` | `MCPeerConnection`, `MaxQueued = 4` | sends two batches as one, beyond the remote's reqq (`peer/event_loop.rs:81`) |
| `PausedIsNotInterested` | `MCPeerConnection` | is interested again by a WeHave that the pause overtook (`peer/event_loop.rs:98`) |
| `OutstandingIsCounted` | `ConnectionLiveness` | counts a remote's own metadata request as an answer (`peer/extensions.rs:76`) |
| `EndOfStreamIsNoticed` | `ConnectionLiveness`, `RemoteSends = {"Close"}` | does not notice that the remote closed (`peer/conn.rs:113`) |
| `UnchokedIsAsked` | `ConnectionLiveness` | never asks a peer again after a choke with requests in flight (`peer/event_loop.rs:173`) |
| `RemovesItself` | `MCConnections` | takes the connection off the map that replaced the one that ended (`peer_manager/event_loop.rs:175`) |
| `WaitsForSomething` | `MCConnections` | keeps a connection that is off the map and whose remote has closed waiting for ever (`peer/conn.rs:113`) |
| `BitfieldIsSent` | `MCConnections`, `StoredBefore = {{1, 2}}` | sends no bitfield when it is full (`peer/event_loop.rs:91`) |
| `OneManagerPerTorrent` | `MCClient` | starts two managers of one torrent (`client.rs:236`) |
| `RegisteredIsRunning` | `MCClient` | keeps the entry of a manager that panicked (`client.rs:319`) |
| `RunningIsRegistered` | `MCClient` | removes the entry of another manager of the torrent (`client.rs:319`) |
| `CallsReturn` | `MCClient`, `Workers = 1` | holds a std mutex over an await (`client.rs:203`) |
| `ReadsWhenNeeded` | `MCMessageFramer` | waits for bytes behind an unknown frame (`messages/mod.rs:166`) |
| `EncodedIsReceived` | `MCMessageFramer` | encodes a keep-alive as nothing (`messages/mod.rs:190`) |
| `IntervalIsFollowed` | `MCPeerFetcher` | follows the first interval only (`peer_fetcher.rs:113`) |
| `OnlyOpenAreCounted` | `MCTorrentList` | emits no `Disconnected` when a connection's task panics (`peer/event_loop.rs:26`, `:177`) |
| `NoSelectionIsEmpty` | `MCTorrentList` | selects nothing in a list that was empty at first and has grown (`render_view/torrent_list.rs:28`) |
| `SelectedIsVisible` | `MCTorrentList` | scrolls past the selected row when the window has no room for a row (`model.rs:206`) |

## 5. Theorems

For all values of the constants that satisfy each module's assumption; the
assumptions only say what the constants are (finitely many peers, at least one
piece, sizes that are naturals, a reqq and a margin that fit into the word).

`PieceManagerProofs`, first part: the selector. `SelectorInv` is the type invariant,
`HeldEntriesAreInFlight` and the finiteness of the heap, which the counting in
`Popped` needs. There is one lemma per method that says the method preserves it;
they are used again by the manager. `HeldPiecesNeverSelected` follows because a
usable entry is not in flight and so, by the invariant, not had.
`HoldersAreCounted` compares, per method, how the set of holders and the rarity
of a piece change. `SelectionIsRarestFirst`: of two usable entries the earlier
has fewer usable entries before it.

Its second part: the manager. The properties are not inductive by themselves. That no
piece is queued twice needs that every queued piece is in flight; that none of
them is recorded needs that it is not had and that the running manager has what
is recorded; while the database is awaited, both must hold of the saved piece
too, which must be in the file and not queued. `ManagerInv` is the conjunction,
with one lemma per handler. From it follow `PiecesAreQueuedOnce`,
`RecordedNeverQueued`, `HaveAlwaysRecorded`, `RecordedAlwaysWritten`,
`SeedingOnlyWhenComplete` and `ManagerImplementsDownload`, whose step lemma maps
each handler to a step of `Download` or a stutter.

What the file holds beyond that is counted by `OnlyFailuresEverWaste`: a step appends a
piece only when it becomes the one being saved, and that was neither recorded nor
saved before, so a chunk is a recorded piece, the saved one, or one that a failure or a
crash left. With the complete record of a seeding manager, and no failure so far,
`SeedingWithoutFailureIsExact`: each piece is in the file once and nothing else is, in
whichever order.

`NothingIsEverForgotten` is the safety half of `DownloadCompletes`: a missing piece
that a connected peer holds can always still be downloaded. It assumes
`SeedersAsk`, as the run does, because popping for a peer that lacks a piece may
drop the piece's entry (section 4); haves, repeated bitfields and disconnects are of
any kind. Four invariants give it: what is in flight and not had is queued,
being saved or was discarded (`HandedOutAlwaysKept`; that a selection queues all it
marks follows by counting, since the queue's order is injective into a set of its
size); what is queued has a block to come (`QueuedAlwaysOpen`); a missing
piece that is not in flight has an entry of its current rarity; and
`RarityNeverUndercounts`, here along the manager's steps. `HonestAnnouncedIsHad` says when
`AnnouncedIsHad`, refuted in section 4, does hold: when no peer sends wrong data.

Its third part is about `PieceStorage`. `PiecesTile`, `BlocksTile` and the lemmas before
them are arithmetic: parts of one length, the last one cut, tile a range, for every
length. A queued piece has the blocks that `NBlocks` gives it (`TypeOK`): this is
`BlocksAlwaysFill`. Where a piece ends up in the file no theorem says, because the file
is opened with `append`.

`PeerConnectionProofs`: every handler of the loop is some turn followed by
`Turn`, or an end. The lemmas say of each helper that it keeps a turn's types and
the told interest, of `RequestNextBlocks` that it leaves nothing idle, and of each
handler that it is such a turn; the manager's handlers leave the peer alone.
`ConnectionTypeCorrect`, `InterestAlwaysTold` and `NothingEverWaitsIdle` follow.
`OutstandingAlwaysCounted` and `BatchesNeverOverlap` need one more assumption,
`HonestRemote`: a remote that only answers what it was asked. Without it both are
false.

`ClientProofs`: the registry's entries and the records behind the managers, with
`EntriesHaveRecord`, what a call that was given entries by `get_all` knows while it
starts their managers. `ProgressAlwaysKept` is an action property: `SavesOnly`
goes through every action that touches a record. `HolderAlwaysServed` is the safety
half of `CallsReturn`: with more workers than managers, whoever holds the mutex over
the await can send, or the manager it waits for can take a message. The bound is
exact: TLC finds the deadlock with as many workers as managers.

`MetadataPieceManagerProofs`: `AlwaysTheTorrent` and `AlwaysSomethingMissing` are
inductive together with the queue's type; the case that matters is the check of
a queue that has just become full.

`ConnectionsProofs`: what a connection has put into the manager's channel comes out
in that order, so its `NewConnection` never comes behind its `PeerDisconnected`
(`ChannelOrder`). From it `LeavesNothingBehind`,
`KnowsRegistered` and `KeepsAlone`. `MissesNothing` follows a stored piece from the
bitfield that was copied, or the broadcast, through `sending` and the mailbox to
what the remote was told.

`TorrentListProofs`: `ListInv` relates selection, offset, the number of rows and
`total_items`; `DrawnAlwaysFits` is one of its conjuncts, preserved by the arithmetic of
`scroll_to_selected`. `ProgressAlwaysShown` needs more: a torrent's record that is on
its way will make a row, so what is missing in it must be announced by an event behind
it (`RecordsOwe`); a piece that was stored and is not yet announced is the only one of
its kind; and nothing is stored of a torrent without a record, whose first record is
sent with an empty bitfield. `PausedAlwaysShown` is of the same form (`RecordsWillSay`),
and has to know in addition that nothing can have told a manager to pause that does not
run or whose torrent has no record (`Untouched`, `Unlisted`), so that a new row may
start as not paused. `NeverCountedTooMany` bounds a row by the connections that are open
or ended in a panic, which nothing reports. It rests on a statement about every suffix
of the channel (`OpenCovers`): the connections announced in it that are neither open nor
panicked are reported as closed in it too. That covers the rows that are made later, and
the `Disconnected` that meets a count of 0.

`MessageFramerProofs`: what is in the buffer and on the wire is, byte for byte, the
frames of the messages that are still to come, so the decoder always stands at the
beginning of a frame (`FramerInv`). Its lemmas are about `FlattenSeq` and about the four
bytes of a length, which `BigEndian` reads back. A call of the decoder then removes
exactly the first frame or asks for bytes that are missing: `DecodesAlwaysInOrder`,
`EndedAlwaysComplete` and the refinement `FramerImplementsChannel`, whose step lemma
says of each call whether it receives the next message or stutters. `FineIsNeverAnError`
is the safety half of `FineIsDecoded`: a stream of messages that are known, long enough
and not too large never ends in an error or a panic. What would be an induction over
data is one over a number, by the least counterexample.

`PeerFetcherProofs`: moving an element to the front is a permutation
(`Promoted`), and the permutations of a tier compose, so `TiersAlwaysKeepTheirTrackers`.
What is left of a request's copy of a tier is an end of that tier as it was, which
puts every index that an answer reports inside of the tier; and as long as no
tracker of the tier has answered, the tier is the copy: `AnswererAlwaysBecomesFirst`.
`GivesUpOnlyUnanswered`: the loop ends in an error only when no tracker answered.

Only model-checked: every liveness property (`DownloadCompletes`, `QueuedIsSent`,
`CallsReturn`, `EndedIsForgotten`, `PiecesAreTold`,
`MetadataArrives`, `FineIsDecoded`, `RequestEnds`, `CanBeResumed`,
`PressReturns`), since the prover does not handle fairness and ENABLED; and section 4.

## 6. Not modelled

Rendering but for the slice of the list, the text field and the error lines of
the application, and the old command line, which is no longer built (layout);
bencode, torrent files, magnet links and tracker answers (parsing); the
handshake's bytes, HTTP and the TCP connect (I/O); the layouts of payloads and
client identifiers (pure conversions without a state). The statistics sent to
trackers are modelled only as far as `LeftIsWhatIsMissing`. Two managers of one
torrent are in `Client`, not in `TorrentList`.

## 7. Plan

All modules of the first plan are written, and every safety property and refinement
that the runs check is proved. What is left: the composition of `PieceManager`
with the races for the record in `Client`, and the safety halves of the other
liveness properties, as `NothingIsEverForgotten` and `HolderAlwaysServed` are of
theirs: that a peer which owes nothing is handed what is queued (`QueuedIsSent`),
and that a block of the metadata that is missing can be requested (`MetadataArrives`).
