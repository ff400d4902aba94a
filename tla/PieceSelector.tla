--------------------------- MODULE PieceSelector ---------------------------
(***************************************************************************)
(* The piece selector of one torrent (piece_manager/piece_selector.rs).    *)
(*                                                                         *)
(* It counts how many peers hold each piece, keeps a min-heap of           *)
(* <<rarity, piece>> entries that is only cleaned when it is popped, and   *)
(* hands pieces to peers rarest first.  Pieces are numbered from 1 (the    *)
(* code numbers them from 0); a Vec<bool> is a function on 1..n, and the   *)
(* empty Vec, which `have`, `piece_rarity` and `pieces_in_flight` are      *)
(* until the metadata of a magnet link is known, is <<>>.                  *)
(*                                                                         *)
(* The heap is a set.  Equal entries of the BinaryHeap are popped one      *)
(* after the other and the second one is discarded whatever became of the  *)
(* first, because a selected piece is in flight; so a multiset would       *)
(* select the same pieces.                                                 *)
(***************************************************************************)
EXTENDS Integers, FiniteSets

CONSTANTS
  PeerId,            \* the peer ids that may connect
  NPieces,           \* the number of pieces of the torrent
  BitfieldLengths,   \* the lengths of the bitfields that peers send
  MAX_PIECES_IN_PARALLEL,
  MaxRarity          \* bound: no rarity is counted beyond it

ASSUME SelectorAssumption ==
  /\ IsFiniteSet(PeerId)
  /\ NPieces \in Nat \ {0}
  /\ BitfieldLengths \subseteq Nat
  /\ MAX_PIECES_IN_PARALLEL \in Nat
  /\ MaxRarity \in Nat

VARIABLES
  piece_rarity,      \* piece -> number of peers counted for it
  priority_queue,    \* the heap's entries <<rarity, piece>>
  have,              \* our own bitfield
  peer_bitfields,    \* connected peer -> its bitfield
  pieces_in_flight   \* piece -> was it handed to the download queue?

selectorVars ==
  <<piece_rarity, priority_queue, have, peer_bitfields, pieces_in_flight>>

Piece == 1..NPieces

Bitfield == UNION { [1..n -> BOOLEAN] : n \in BitfieldLengths \cup {0, NPieces} }

\* What a peer's Bitfield message may carry.
SentBitfield == UNION { [1..n -> BOOLEAN] : n \in BitfieldLengths }

MetadataKnown == have # <<>>

\* bitfield.get(i) is Some(true)
HasPiece(bitfield, i) == i \in DOMAIN bitfield /\ bitfield[i]

Holders(i) == { p \in DOMAIN peer_bitfields : HasPiece(peer_bitfields[p], i) }

-----------------------------------------------------------------------------
(* PieceSelector::new, with a stored bitfield or, for a magnet link, empty. *)

NewSelector(bitfield) ==
  /\ have = bitfield
  /\ piece_rarity = [i \in DOMAIN bitfield |-> 0]
  /\ pieces_in_flight = [i \in DOMAIN bitfield |-> FALSE]
  /\ priority_queue = {}
  /\ peer_bitfields = <<>>

\* The same for a manager that is started again.
RestartSelector(bitfield) ==
  /\ have' = bitfield
  /\ piece_rarity' = [i \in DOMAIN bitfield |-> 0]
  /\ pieces_in_flight' = [i \in DOMAIN bitfield |-> FALSE]
  /\ priority_queue' = {}
  /\ peer_bitfields' = <<>>

-----------------------------------------------------------------------------
(* The methods, each as the change it makes to the selector's fields.       *)

TouchedAnyPiece(bitfield) ==   \* mutant: forgets `!b_i`
  { i \in DOMAIN have : HasPiece(bitfield, i) }

\* update_prio_queue: every piece of the bitfield that we lack is counted up
\* or down, and its new rarity is pushed.
Touched(bitfield) == { i \in DOMAIN have : HasPiece(bitfield, i) /\ ~have[i] }

CountedUp(bitfield) ==
  [i \in DOMAIN piece_rarity |->
     IF i \in Touched(bitfield) THEN piece_rarity[i] + 1 ELSE piece_rarity[i]]

CountedDownAlways(bitfield) ==   \* mutant: forgets `b_p`
  [i \in DOMAIN piece_rarity |->
     IF piece_rarity[i] > 0 THEN piece_rarity[i] - 1 ELSE piece_rarity[i]]

CountedDown(bitfield) ==   \* saturating_sub
  [i \in DOMAIN piece_rarity |->
     IF i \in Touched(bitfield) /\ piece_rarity[i] > 0
       THEN piece_rarity[i] - 1 ELSE piece_rarity[i]]

PushesOnlyRises(bitfield, counted) ==   \* mutant: a lower rarity was pushed before
  /\ piece_rarity' = counted
  /\ priority_queue' = priority_queue \cup
       { <<counted[i], i>> :
           i \in { j \in Touched(bitfield) : counted[j] > piece_rarity[j] } }

UpdatePrioQueue(bitfield, counted) ==
  /\ piece_rarity' = counted
  /\ priority_queue' =
       priority_queue \cup { <<counted[i], i>> : i \in Touched(bitfield) }

\* A new peer gets an all-false bitfield as long as `have`, or, before the
\* metadata is known, as long as that of some other peer (the map's first).
NewBitfieldLengths ==
  IF MetadataKnown THEN {NPieces}
  ELSE IF DOMAIN peer_bitfields = {} THEN {0}
  ELSE { n \in BitfieldLengths \cup {0, NPieces} :
           \E p \in DOMAIN peer_bitfields : DOMAIN peer_bitfields[p] = 1..n }

AddPeer(id) ==
  /\ \/ /\ id \in DOMAIN peer_bitfields
        /\ UNCHANGED peer_bitfields
     \/ /\ id \notin DOMAIN peer_bitfields
        /\ \E n \in NewBitfieldLengths :
             peer_bitfields' = [p \in DOMAIN peer_bitfields \cup {id} |->
               IF p = id THEN [i \in 1..n |-> FALSE] ELSE peer_bitfields[p]]
  /\ UNCHANGED <<piece_rarity, priority_queue, have, pieces_in_flight>>

RemovePeer(id) ==
  /\ \/ /\ id \in DOMAIN peer_bitfields
        /\ peer_bitfields' =
             [p \in DOMAIN peer_bitfields \ {id} |-> peer_bitfields[p]]
        /\ UpdatePrioQueue(peer_bitfields[id], CountedDown(peer_bitfields[id]))
     \/ /\ id \notin DOMAIN peer_bitfields
        /\ UNCHANGED <<peer_bitfields, piece_rarity, priority_queue>>
  /\ UNCHANGED <<have, pieces_in_flight>>

\* The block that should give the other peers' empty bitfields their length
\* runs only when there is no peer at all, so it changes nothing.
AddPeerBitfield(id, bitfield) ==
  /\ \/ /\ bitfield # <<>>
        /\ id \in DOMAIN peer_bitfields
        /\ peer_bitfields' = [peer_bitfields EXCEPT ![id] = bitfield]
        /\ UpdatePrioQueue(bitfield, CountedUp(bitfield))
     \/ /\ bitfield = <<>> \/ id \notin DOMAIN peer_bitfields
        /\ UNCHANGED <<peer_bitfields, piece_rarity, priority_queue>>
  /\ UNCHANGED <<have, pieces_in_flight>>

HaveIsCounted(id, i) ==
  /\ id \in DOMAIN peer_bitfields
  /\ i \in DOMAIN peer_bitfields[id]
  /\ i \in DOMAIN piece_rarity

HaveEntries(i) == IF have[i] THEN {} ELSE {<<piece_rarity[i] + 1, i>>}

UpdateFromPeerHave(id, i) ==
  /\ \/ /\ HaveIsCounted(id, i)
        /\ peer_bitfields' = [peer_bitfields EXCEPT ![id][i] = TRUE]
        /\ piece_rarity' = [piece_rarity EXCEPT ![i] = @ + 1]
        /\ priority_queue' = priority_queue \cup HaveEntries(i)
     \/ /\ ~HaveIsCounted(id, i)
        /\ UNCHANGED <<peer_bitfields, piece_rarity, priority_queue>>
  /\ UNCHANGED <<have, pieces_in_flight>>

\* Vec::resize(n, false)
Resized(bits, n) == [i \in n |-> HasPiece(bits, i)]

\* The metadata arrived.  The rarity is first recomputed from the resized
\* bitfields, then every bitfield is added once more.
UpdateFromSelfHave(bitfield) ==
  LET n == DOMAIN bitfield
      count(i) == Cardinality(Holders(i))
  IN  /\ have' = bitfield
      /\ peer_bitfields' =
           [p \in DOMAIN peer_bitfields |-> Resized(peer_bitfields[p], n)]
      /\ piece_rarity' =
           [i \in n |-> IF bitfield[i] THEN count(i) ELSE 2 * count(i)]
      /\ priority_queue' = priority_queue \cup
           UNION { ((count(i) + 1)..(2 * count(i))) \X {i} :
                     i \in { j \in n : ~bitfield[j] } }
      /\ pieces_in_flight' = Resized(pieces_in_flight, n)

-----------------------------------------------------------------------------
(* select_pieces_for_peer pops entries until it has more than `count`       *)
(* pieces or the heap is empty.  An entry whose rarity is no longer         *)
(* current, whose piece the peer lacks or is in flight is dropped.          *)

\* Reverse((rarity, index)): the order in which entries are popped
Before(e, f) == e[1] < f[1] \/ (e[1] = f[1] /\ e[2] < f[2])

UsableTwice(id, e) ==   \* mutant: forgets pieces_in_flight
  piece_rarity[e[2]] = e[1] /\ HasPiece(peer_bitfields[id], e[2])

Usable(id, e) ==
  /\ piece_rarity[e[2]] = e[1]
  /\ HasPiece(peer_bitfields[id], e[2])
  /\ ~pieces_in_flight[e[2]]

UsableEntries(id) == { e \in priority_queue : Usable(id, e) }

PoppedFromTop(id, k) ==   \* mutant: a max-heap, without the Reverse
  { e \in priority_queue :
      Cardinality({ f \in UsableEntries(id) : Before(e, f) }) < k }

\* Popping until k usable entries are found (or the heap is empty) pops the
\* entries that have fewer than k usable ones before them.
Popped(id, k) ==
  { e \in priority_queue :
      Cardinality({ f \in UsableEntries(id) : Before(f, e) }) < k }

Selected(id, k) == { e[2] : e \in Popped(id, k) \cap UsableEntries(id) }

\* The loop condition is queue.len() <= count: one round yields count + 1.
PiecesPerRound == MAX_PIECES_IN_PARALLEL + 1

TakePieces(id, k) ==
  /\ priority_queue' = priority_queue \ Popped(id, k)
  /\ pieces_in_flight' =
       [i \in DOMAIN pieces_in_flight |->
          pieces_in_flight[i] \/ i \in Selected(id, k)]
  /\ UNCHANGED <<piece_rarity, have, peer_bitfields>>

\* The peer is unknown: None
SelectPiecesForPeer(id) ==
  IF id \in DOMAIN peer_bitfields
    THEN TakePieces(id, PiecesPerRound) ELSE UNCHANGED selectorVars

\* handle_piece sets piece_selector.have[piece_i] when the piece is stored.
PieceStored(i) ==
  /\ have' = [have EXCEPT ![i] = TRUE]
  /\ UNCHANGED <<piece_rarity, priority_queue, peer_bitfields, pieces_in_flight>>

-----------------------------------------------------------------------------
(* The selector on its own: the peer manager may call the methods in any    *)
(* order, but it learns the metadata once, selects pieces only when it has  *)
(* it, and stores only pieces that were selected.                           *)

RarityBelowBound == \A i \in DOMAIN piece_rarity : piece_rarity[i] < MaxRarity

SelectorInit == \E bitfield \in [Piece -> BOOLEAN] \cup {<<>>} : NewSelector(bitfield)

SelectorNext ==
  \/ \E id \in PeerId : AddPeer(id)
  \/ \E id \in PeerId : RemovePeer(id)
  \/ \E id \in PeerId, bitfield \in SentBitfield :
       RarityBelowBound /\ AddPeerBitfield(id, bitfield)
  \/ \E id \in PeerId, i \in Piece :
       RarityBelowBound /\ UpdateFromPeerHave(id, i)
  \/ ~MetadataKnown /\ UpdateFromSelfHave([i \in Piece |-> FALSE])
  \/ \E id \in PeerId : MetadataKnown /\ SelectPiecesForPeer(id)
  \/ \E i \in DOMAIN have : pieces_in_flight[i] /\ PieceStored(i)

SelectorSpec == SelectorInit /\ [][SelectorNext]_selectorVars

-----------------------------------------------------------------------------
(* Properties *)

\* Type correctness of the selector's fields: the three vectors that describe
\* pieces always have the same length.
SelectorTypeOK ==
  /\ have \in [Piece -> BOOLEAN] \cup {<<>>}
  /\ piece_rarity \in [DOMAIN have -> Nat]
  /\ pieces_in_flight \in [DOMAIN have -> BOOLEAN]
  /\ priority_queue \subseteq Nat \X DOMAIN have
  /\ DOMAIN peer_bitfields \subseteq PeerId
  /\ \A p \in DOMAIN peer_bitfields : peer_bitfields[p] \in Bitfield

\* A heap entry of a piece we have belongs to a piece that was handed out
\* before, so popping it can only discard it (select_pieces_for_peer does not
\* look at `have`).
HeldEntriesAreInFlight ==
  \A e \in priority_queue : have[e[2]] => pieces_in_flight[e[2]]

\* select_pieces_for_peer never hands out a piece that we already have,
\* through every order of bitfields, haves, disconnects and stored pieces.
NeverSelectsHeldPiece ==
  [][\A i \in DOMAIN have :
       have[i] /\ ~pieces_in_flight[i] => ~pieces_in_flight'[i]]_selectorVars

\* The rarity of a piece we lack is never below the number of connected peers
\* that hold it: repeated haves, replaced bitfields, disconnects and the
\* arrival of the metadata may overcount it, and never lose a holder.
RarityNeverUndercounts ==
  \A i \in DOMAIN have : ~have[i] => piece_rarity[i] >= Cardinality(Holders(i))

\* Rarest first: of the pieces a peer can be given, with up-to-date entries,
\* none is left behind while one that is more common, or as common and of a
\* higher index, is handed out.
RarestFirst ==
  [][\A id \in DOMAIN peer_bitfields :
       SelectPiecesForPeer(id) =>
         \A e, f \in UsableEntries(id) :
           pieces_in_flight'[e[2]] /\ Before(f, e)
             => pieces_in_flight'[f[2]]]_selectorVars

-----------------------------------------------------------------------------
(* What the repository says and the code does not keep: the model refutes  *)
(* each of these (README, section 4).                                       *)

\* "the value is the number of peers that have this piece"
RarityIsPeerCount ==
  \A i \in DOMAIN have : ~have[i] => piece_rarity[i] = Cardinality(Holders(i))

\* "If they match, this is a valid, up-to-date entry. We process it.": an
\* entry of a piece that is neither had nor in flight leaves the heap only
\* when it is stale or its piece is selected.
UpToDateEntriesAreKept ==
  [][\A e \in priority_queue \ priority_queue' :
       piece_rarity[e[2]] = e[1] => pieces_in_flight'[e[2]]]_selectorVars

\* "this might be the first bitfield we get and so we must update the lengths
\* of the other bitfields"
FirstBitfieldSizesOthers ==
  [][\A p \in DOMAIN peer_bitfields :
       /\ \A q \in DOMAIN peer_bitfields : peer_bitfields[q] = <<>>
       /\ p \in DOMAIN peer_bitfields'
       /\ \E q \in DOMAIN peer_bitfields' : peer_bitfields'[q] # <<>>
       => peer_bitfields'[p] # <<>>]_selectorVars
=============================================================================
