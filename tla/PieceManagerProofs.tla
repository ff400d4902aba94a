------------------------ MODULE PieceManagerProofs ------------------------
(***************************************************************************)
(* The download, for every instance: the piece selector's invariants, by   *)
(* one lemma per method; the manager's, which rest on them; what it        *)
(* implements; and that blocks and pieces tile what they are parts of.     *)
(***************************************************************************)
EXTENDS PieceStorage, FiniteSetTheorems, FunctionTheorems, TLAPS

-----------------------------------------------------------------------------
(* PieceSelector *)

\* The inductive invariant: the types, and what the heap's entries are.
SelectorInv ==
  /\ SelectorTypeOK
  /\ HeldEntriesAreInFlight
  /\ IsFiniteSet(priority_queue)

LEMMA PieceDomain ==
  ASSUME SelectorTypeOK
  PROVE  /\ DOMAIN piece_rarity = DOMAIN have
         /\ DOMAIN pieces_in_flight = DOMAIN have
         /\ DOMAIN have \subseteq Piece
         /\ \A i \in DOMAIN have : have[i] \in BOOLEAN
         /\ \A i \in DOMAIN have : piece_rarity[i] \in Nat
         /\ MetadataKnown => DOMAIN have = Piece
BY DEF SelectorTypeOK, MetadataKnown

LEMMA NewSelectorInv ==
  ASSUME NEW bitfield \in [Piece -> BOOLEAN] \cup {<<>>}, NewSelector(bitfield)
  PROVE  SelectorInv
BY FS_EmptySet DEF NewSelector, SelectorInv, SelectorTypeOK, HeldEntriesAreInFlight

LEMMA RestartSelectorInv ==
  ASSUME NEW bitfield \in [Piece -> BOOLEAN] \cup {<<>>}, RestartSelector(bitfield)
  PROVE  SelectorInv'
BY FS_EmptySet DEF RestartSelector, SelectorInv, SelectorTypeOK, HeldEntriesAreInFlight

LEMMA EmptyBitfieldType ==
  ASSUME NEW n \in BitfieldLengths \cup {0, NPieces}
  PROVE  [1..n -> BOOLEAN] \subseteq Bitfield
BY DEF Bitfield

LEMMA AddPeerInv ==
  ASSUME SelectorInv, NEW id \in PeerId, AddPeer(id)
  PROVE  SelectorInv'
<1>1. HeldEntriesAreInFlight'
  BY DEF SelectorInv, HeldEntriesAreInFlight, AddPeer
<1>2. NewBitfieldLengths \subseteq BitfieldLengths \cup {0, NPieces}
  BY DEF NewBitfieldLengths
<1>3. /\ DOMAIN peer_bitfields' \subseteq PeerId
      /\ \A p \in DOMAIN peer_bitfields' : peer_bitfields'[p] \in Bitfield
  <2>1. CASE UNCHANGED peer_bitfields
    BY <2>1 DEF SelectorInv, SelectorTypeOK
  <2>2. ASSUME NEW n \in NewBitfieldLengths,
               peer_bitfields' = [p \in DOMAIN peer_bitfields \cup {id} |->
                 IF p = id THEN [i \in 1..n |-> FALSE] ELSE peer_bitfields[p]]
        PROVE  <1>3!1 /\ <1>3!2
    BY <1>2, <2>2, EmptyBitfieldType DEF SelectorInv, SelectorTypeOK
  <2> QED
    BY <2>1, <2>2 DEF AddPeer
<1> QED
  BY <1>1, <1>3 DEF SelectorInv, SelectorTypeOK, AddPeer

\* One entry per piece: finitely many are pushed.
LEMMA PushedIsFinite ==
  ASSUME NEW counted, NEW S \in SUBSET Piece
  PROVE  IsFiniteSet({ <<counted[i], i>> : i \in S })
<1> DEFINE T == { <<counted[i], i>> : i \in S }
           index == [e \in T |-> e[2]]
<1>1. index \in Injection(T, Piece)
  BY DEF Injection, IsInjective
<1>2. IsFiniteSet(Piece)
  BY SelectorAssumption, FS_Interval DEF Piece
<1> QED
  BY <1>1, <1>2, FS_Injection

LEMMA UpdatePrioQueueInv ==
  ASSUME SelectorInv, NEW bitfield, NEW counted \in [DOMAIN have -> Nat],
         UpdatePrioQueue(bitfield, counted), UNCHANGED <<have, pieces_in_flight>>
  PROVE  /\ piece_rarity' \in [DOMAIN have' -> Nat]
         /\ priority_queue' \subseteq Nat \X DOMAIN have'
         /\ HeldEntriesAreInFlight'
         /\ IsFiniteSet(priority_queue')
<1>1. IsFiniteSet({ <<counted[i], i>> : i \in Touched(bitfield) })
  BY PushedIsFinite, PieceDomain DEF Touched, SelectorInv
<1>2. IsFiniteSet(priority_queue')
  BY <1>1, FS_Union DEF UpdatePrioQueue, SelectorInv
<1> QED
  BY <1>2 DEF UpdatePrioQueue, Touched, SelectorInv, SelectorTypeOK,
              HeldEntriesAreInFlight

LEMMA RemovePeerInv ==
  ASSUME SelectorInv, NEW id \in PeerId, RemovePeer(id)
  PROVE  SelectorInv'
<1>1. CASE UNCHANGED <<peer_bitfields, piece_rarity, priority_queue>>
  BY <1>1 DEF RemovePeer, SelectorInv, SelectorTypeOK, HeldEntriesAreInFlight
<1>2. CASE id \in DOMAIN peer_bitfields
  <2>1. CountedDown(peer_bitfields[id]) \in [DOMAIN have -> Nat]
    BY PieceDomain DEF CountedDown, SelectorInv
  <2>2. /\ piece_rarity' \in [DOMAIN have' -> Nat]
        /\ priority_queue' \subseteq Nat \X DOMAIN have'
        /\ HeldEntriesAreInFlight'
        /\ IsFiniteSet(priority_queue')
    BY <1>2, <2>1, UpdatePrioQueueInv DEF RemovePeer
  <2> QED
    BY <1>2, <2>2 DEF RemovePeer, SelectorInv, SelectorTypeOK
<1> QED
  BY <1>1, <1>2 DEF RemovePeer

LEMMA AddPeerBitfieldInv ==
  ASSUME SelectorInv, NEW id \in PeerId, NEW bitfield \in Bitfield,
         AddPeerBitfield(id, bitfield)
  PROVE  SelectorInv'
<1>1. CASE UNCHANGED <<peer_bitfields, piece_rarity, priority_queue>>
  BY <1>1 DEF AddPeerBitfield, SelectorInv, SelectorTypeOK, HeldEntriesAreInFlight
<1>2. CASE bitfield # <<>> /\ id \in DOMAIN peer_bitfields
  <2>1. CountedUp(bitfield) \in [DOMAIN have -> Nat]
    BY PieceDomain DEF CountedUp, SelectorInv
  <2>2. /\ piece_rarity' \in [DOMAIN have' -> Nat]
        /\ priority_queue' \subseteq Nat \X DOMAIN have'
        /\ HeldEntriesAreInFlight'
        /\ IsFiniteSet(priority_queue')
    BY <1>2, <2>1, UpdatePrioQueueInv DEF AddPeerBitfield
  <2> QED
    BY <1>2, <2>2 DEF AddPeerBitfield, SelectorInv, SelectorTypeOK
<1> QED
  BY <1>1, <1>2 DEF AddPeerBitfield

LEMMA UpdateFromPeerHaveInv ==
  ASSUME SelectorInv, NEW id \in PeerId, NEW i \in Piece, UpdateFromPeerHave(id, i)
  PROVE  SelectorInv'
<1>1. CASE ~HaveIsCounted(id, i)
  BY <1>1 DEF UpdateFromPeerHave, SelectorInv, SelectorTypeOK, HeldEntriesAreInFlight
<1>2. CASE HaveIsCounted(id, i)
  <2>1. i \in DOMAIN have /\ piece_rarity[i] \in Nat
    BY <1>2, PieceDomain DEF HaveIsCounted, SelectorInv
  <2>2. piece_rarity' \in [DOMAIN have' -> Nat]
    BY <1>2, <2>1 DEF UpdateFromPeerHave, SelectorInv, SelectorTypeOK
  <2>3. priority_queue' \subseteq Nat \X DOMAIN have' /\ HeldEntriesAreInFlight'
    BY <1>2, <2>1
    DEF UpdateFromPeerHave, HaveEntries, SelectorInv, SelectorTypeOK, HeldEntriesAreInFlight
  <2>5. IsFiniteSet(priority_queue')
    <3>1. CASE have[i]
      BY <1>2, <3>1 DEF UpdateFromPeerHave, HaveEntries, SelectorInv
    <3>2. CASE ~have[i]
      <4>1. priority_queue' = priority_queue \cup {<<piece_rarity[i] + 1, i>>}
        BY <1>2, <3>2 DEF UpdateFromPeerHave, HaveEntries
      <4> QED
        BY <4>1, FS_AddElement DEF SelectorInv
    <3> QED
      BY <3>1, <3>2
  <2>4. \A p \in DOMAIN peer_bitfields' : peer_bitfields'[p] \in Bitfield
    <3>1. \A p \in DOMAIN peer_bitfields : p # id => peer_bitfields'[p] = peer_bitfields[p]
      BY <1>2 DEF UpdateFromPeerHave
    <3>2. peer_bitfields'[id] = [peer_bitfields[id] EXCEPT ![i] = TRUE]
      BY <1>2 DEF UpdateFromPeerHave, HaveIsCounted
    <3>3. PICK n \in BitfieldLengths \cup {0, NPieces} :
                 peer_bitfields[id] \in [1..n -> BOOLEAN]
      BY <1>2 DEF SelectorInv, SelectorTypeOK, Bitfield, HaveIsCounted
    <3>4. peer_bitfields'[id] \in [1..n -> BOOLEAN]
      BY <3>2, <3>3
    <3>5. peer_bitfields'[id] \in Bitfield
      BY <3>4, EmptyBitfieldType
    <3> QED
      BY <1>2, <3>1, <3>5 DEF UpdateFromPeerHave, SelectorInv, SelectorTypeOK
  <2> QED
    BY <1>2, <2>2, <2>3, <2>4, <2>5 DEF UpdateFromPeerHave, SelectorInv, SelectorTypeOK
<1> QED
  BY <1>1, <1>2

LEMMA HoldersAreFinite ==
  ASSUME SelectorTypeOK, NEW i
  PROVE  IsFiniteSet(Holders(i)) /\ Cardinality(Holders(i)) \in Nat
<1>1. Holders(i) \subseteq PeerId
  BY DEF SelectorTypeOK, Holders
<1> QED
  BY <1>1, SelectorAssumption, FS_Subset, FS_CardinalityType

LEMMA UpdateFromSelfHaveInv ==
  ASSUME SelectorInv, ~MetadataKnown, NEW bitfield \in [Piece -> BOOLEAN],
         UpdateFromSelfHave(bitfield)
  PROVE  SelectorInv'
<1>1. have' = bitfield /\ DOMAIN bitfield = Piece
  BY DEF UpdateFromSelfHave
<1>2. priority_queue = {}
  BY DEF MetadataKnown, SelectorInv, SelectorTypeOK
<1>3. \A i : Cardinality(Holders(i)) \in Nat
  BY HoldersAreFinite DEF SelectorInv
<1>4. piece_rarity' \in [DOMAIN have' -> Nat]
  BY <1>1, <1>3 DEF UpdateFromSelfHave
<1>5. pieces_in_flight' \in [DOMAIN have' -> BOOLEAN]
  BY <1>1 DEF UpdateFromSelfHave, Resized, HasPiece
<1>6. \A e \in priority_queue' :
        \E i \in Piece : /\ ~bitfield[i]
                        /\ e \in (Cardinality(Holders(i)) + 1
                                    ..2 * Cardinality(Holders(i))) \X {i}
  BY <1>1, <1>2 DEF UpdateFromSelfHave
<1>7. priority_queue' \subseteq Nat \X DOMAIN have' /\ HeldEntriesAreInFlight'
  BY <1>1, <1>3, <1>6 DEF HeldEntriesAreInFlight
<1>10. IsFiniteSet(priority_queue')
  <2>1. \A i : Cardinality(Holders(i)) <= Cardinality(PeerId)
    BY SelectorAssumption, FS_Subset DEF Holders, SelectorInv, SelectorTypeOK
  <2>2. Cardinality(PeerId) \in Nat
    BY SelectorAssumption, FS_CardinalityType
  <2>3. priority_queue' \subseteq (0..2 * Cardinality(PeerId)) \X Piece
    BY <1>3, <1>6, <2>1, <2>2
  <2>4. IsFiniteSet(0..2 * Cardinality(PeerId)) /\ IsFiniteSet(Piece)
    BY <2>2, SelectorAssumption, FS_Interval DEF Piece
  <2>5. IsFiniteSet((0..2 * Cardinality(PeerId)) \X Piece)
    BY <2>4, FS_Product
  <2> QED
    BY <2>3, <2>5, FS_Subset
<1>8. /\ DOMAIN peer_bitfields' = DOMAIN peer_bitfields
      /\ \A p \in DOMAIN peer_bitfields : peer_bitfields'[p] \in [1..NPieces -> BOOLEAN]
  BY <1>1 DEF UpdateFromSelfHave, Resized, HasPiece, Piece
<1>9. \A p \in DOMAIN peer_bitfields' : peer_bitfields'[p] \in Bitfield
  BY <1>8, EmptyBitfieldType
<1> QED
  BY <1>1, <1>4, <1>5, <1>7, <1>8, <1>9, <1>10 DEF SelectorInv, SelectorTypeOK

LEMMA TakePiecesInv ==
  ASSUME SelectorInv, NEW id, NEW k, TakePieces(id, k)
  PROVE  SelectorInv'
<1>1. pieces_in_flight' \in [DOMAIN have -> BOOLEAN]
  BY DEF TakePieces, SelectorInv, SelectorTypeOK
<1>2. \A i \in DOMAIN have : pieces_in_flight[i] => pieces_in_flight'[i]
  BY DEF TakePieces, SelectorInv, SelectorTypeOK
<1>3. IsFiniteSet(priority_queue')
  BY FS_Difference DEF TakePieces, SelectorInv
<1> QED
  BY <1>1, <1>2, <1>3
  DEF TakePieces, SelectorInv, SelectorTypeOK, HeldEntriesAreInFlight

LEMMA PieceStoredInv ==
  ASSUME SelectorInv, NEW i \in DOMAIN have, pieces_in_flight[i], PieceStored(i)
  PROVE  SelectorInv'
BY DEF PieceStored, SelectorInv, SelectorTypeOK, HeldEntriesAreInFlight

-----------------------------------------------------------------------------
(* The selector's own specification *)

LEMMA SentBitfieldType == SentBitfield \subseteq Bitfield
BY DEF SentBitfield, Bitfield

LEMMA SelectorNextInv ==
  ASSUME SelectorInv, [SelectorNext]_selectorVars
  PROVE  SelectorInv'
<1>1. ASSUME NEW id \in PeerId, AddPeer(id) PROVE SelectorInv'
  BY <1>1, AddPeerInv
<1>2. ASSUME NEW id \in PeerId, RemovePeer(id) PROVE SelectorInv'
  BY <1>2, RemovePeerInv
<1>3. ASSUME NEW id \in PeerId, NEW bitfield \in SentBitfield,
             AddPeerBitfield(id, bitfield)
      PROVE  SelectorInv'
  BY <1>3, SentBitfieldType, AddPeerBitfieldInv
<1>4. ASSUME NEW id \in PeerId, NEW i \in Piece, UpdateFromPeerHave(id, i)
      PROVE  SelectorInv'
  BY <1>4, UpdateFromPeerHaveInv
<1>5. ASSUME ~MetadataKnown, UpdateFromSelfHave([i \in Piece |-> FALSE])
      PROVE  SelectorInv'
  BY <1>5, UpdateFromSelfHaveInv
<1>6. ASSUME NEW id \in PeerId, SelectPiecesForPeer(id) PROVE SelectorInv'
  <2>1. CASE id \in DOMAIN peer_bitfields
    BY <1>6, <2>1, TakePiecesInv DEF SelectPiecesForPeer
  <2>2. CASE UNCHANGED selectorVars
    BY <2>2 DEF selectorVars, SelectorInv, SelectorTypeOK, HeldEntriesAreInFlight
  <2> QED
    BY <1>6, <2>1, <2>2 DEF SelectPiecesForPeer
<1>7. ASSUME NEW i \in DOMAIN have, pieces_in_flight[i], PieceStored(i)
      PROVE  SelectorInv'
  BY <1>7, PieceStoredInv
<1>8. CASE UNCHANGED selectorVars
  BY <1>8 DEF selectorVars, SelectorInv, SelectorTypeOK, HeldEntriesAreInFlight
<1> QED
  BY <1>1, <1>2, <1>3, <1>4, <1>5, <1>6, <1>7, <1>8 DEF SelectorNext

LEMMA SelectorInitInv == SelectorInit => SelectorInv
BY NewSelectorInv DEF SelectorInit

\* Every reachable state is well typed, and the heap's entries of pieces that
\* we have belong to pieces that are in flight.
THEOREM SelectorInvariant == SelectorSpec => []SelectorInv
BY SelectorInitInv, SelectorNextInv, PTL DEF SelectorSpec

\* The selector's types (PieceSelector's fields), for every instance.
THEOREM SelectorTypeCorrect == SelectorSpec => []SelectorTypeOK
<1>1. SelectorInv => SelectorTypeOK
  BY DEF SelectorInv
<1> QED
  BY <1>1, SelectorInvariant, PTL

\* An entry of the heap that is of a piece we have is of one that is in flight:
\* popping it can never queue the piece again.
THEOREM HeldEntriesStayInFlight == SelectorSpec => []HeldEntriesAreInFlight
<1>1. SelectorInv => HeldEntriesAreInFlight
  BY DEF SelectorInv
<1> QED
  BY <1>1, SelectorInvariant, PTL

\* select_pieces_for_peer does not look at `have`, and still never hands out
\* a piece that we have: its entries, if any, are of a piece in flight.
THEOREM HeldPiecesNeverSelected == SelectorSpec => NeverSelectsHeldPiece
<1> DEFINE Step == \A i \in DOMAIN have :
                     have[i] /\ ~pieces_in_flight[i] => ~pieces_in_flight'[i]
<1>1. ASSUME SelectorInv, NEW id, TakePieces(id, PiecesPerRound) PROVE Step
  <2>1. \A i \in DOMAIN have :
          pieces_in_flight'[i] => pieces_in_flight[i] \/ i \in Selected(id, PiecesPerRound)
    BY <1>1 DEF TakePieces, SelectorInv, SelectorTypeOK
  <2>2. \A i \in Selected(id, PiecesPerRound) :
          ~pieces_in_flight[i] /\ \E e \in priority_queue : e[2] = i
    BY DEF Selected, UsableEntries, Usable
  <2>3. \A i \in Selected(id, PiecesPerRound) : ~have[i]
    BY <1>1, <2>2 DEF SelectorInv, HeldEntriesAreInFlight
  <2> QED
    BY <2>1, <2>3
<1>2. ASSUME SelectorInv, ~MetadataKnown PROVE Step
  BY <1>2 DEF MetadataKnown
<1>3. ASSUME SelectorInv, UNCHANGED pieces_in_flight PROVE Step
  BY <1>3
<1>4. SelectorInv /\ [SelectorNext]_selectorVars => Step
  <2> SUFFICES ASSUME SelectorInv, [SelectorNext]_selectorVars PROVE Step
    OBVIOUS
  <2>1. \/ UNCHANGED pieces_in_flight
        \/ ~MetadataKnown
        \/ \E id \in PeerId : TakePieces(id, PiecesPerRound)
    BY DEF SelectorNext, AddPeer, RemovePeer, AddPeerBitfield, UpdateFromPeerHave,
           SelectPiecesForPeer, PieceStored, selectorVars
  <2> QED
    BY <2>1, <1>1, <1>2, <1>3
<1> QED
  BY <1>4, SelectorInvariant, PTL DEF NeverSelectsHeldPiece, SelectorSpec

-----------------------------------------------------------------------------
(* Rarities *)

\* A count r that covers the set H, and the count s after H became G.
LEMMA CountCovers ==
  ASSUME NEW H, NEW G, NEW x, NEW r \in Nat, NEW s \in Nat,
         IsFiniteSet(H), r >= Cardinality(H),
         \/ G \subseteq H /\ s >= r
         \/ G \subseteq H \cup {x} /\ s >= r + 1
         \/ x \in H /\ G = H \ {x} /\ s >= r - 1
  PROVE  s >= Cardinality(G)
<1>1. Cardinality(H) \in Nat
  BY FS_CardinalityType
<1>2. CASE G \subseteq H /\ s >= r
  <2>1. Cardinality(G) <= Cardinality(H) /\ IsFiniteSet(G)
    BY <1>2, FS_Subset
  <2>2. Cardinality(G) \in Nat
    BY <2>1, FS_CardinalityType
  <2> QED
    BY <1>1, <1>2, <2>1, <2>2
<1>3. CASE G \subseteq H \cup {x} /\ s >= r + 1
  <2>1. /\ IsFiniteSet(H \cup {x})
        /\ Cardinality(H \cup {x}) =
             IF x \in H THEN Cardinality(H) ELSE Cardinality(H) + 1
    BY FS_AddElement
  <2>2. Cardinality(G) <= Cardinality(H \cup {x}) /\ IsFiniteSet(G)
    BY <1>3, <2>1, FS_Subset
  <2>3. Cardinality(G) \in Nat
    BY <2>2, FS_CardinalityType
  <2> QED
    BY <1>1, <1>3, <2>1, <2>2, <2>3
<1>4. CASE x \in H /\ G = H \ {x} /\ s >= r - 1
  <2>1. Cardinality(G) = Cardinality(H) - 1
    BY <1>4, FS_RemoveElement
  <2> QED
    BY <1>1, <1>4, <2>1
<1> QED
  BY <1>2, <1>3, <1>4

LEMMA RarityCovers ==
  ASSUME SelectorTypeOK, SelectorTypeOK', RarityNeverUndercounts,
         NEW i \in DOMAIN have', ~have'[i], i \in DOMAIN have, ~have[i], NEW id,
         \/ Holders(i)' \subseteq Holders(i) /\ piece_rarity'[i] >= piece_rarity[i]
         \/ /\ Holders(i)' \subseteq Holders(i) \cup {id}
            /\ piece_rarity'[i] >= piece_rarity[i] + 1
         \/ /\ id \in Holders(i) /\ Holders(i)' = Holders(i) \ {id}
            /\ piece_rarity'[i] >= piece_rarity[i] - 1
  PROVE  piece_rarity'[i] >= Cardinality(Holders(i)')
<1>1. piece_rarity[i] \in Nat /\ piece_rarity'[i] \in Nat
  BY DEF SelectorTypeOK
<1>2. IsFiniteSet(Holders(i))
  BY HoldersAreFinite
<1>3. piece_rarity[i] >= Cardinality(Holders(i))
  BY DEF RarityNeverUndercounts
<1> QED
  BY <1>1, <1>2, <1>3, CountCovers

LEMMA AddPeerRarity ==
  ASSUME SelectorTypeOK, SelectorTypeOK', RarityNeverUndercounts,
         NEW id \in PeerId, AddPeer(id)
  PROVE  RarityNeverUndercounts'
<1> SUFFICES ASSUME NEW i \in DOMAIN have', ~have'[i]
             PROVE  piece_rarity'[i] >= Cardinality(Holders(i)')
  BY DEF RarityNeverUndercounts
<1>1. Holders(i)' \subseteq Holders(i)
  <2>1. CASE UNCHANGED peer_bitfields
    BY <2>1 DEF Holders
  <2>2. ASSUME NEW n,
               peer_bitfields' = [p \in DOMAIN peer_bitfields \cup {id} |->
                 IF p = id THEN [j \in 1..n |-> FALSE] ELSE peer_bitfields[p]]
        PROVE  Holders(i)' \subseteq Holders(i)
    <3>1. \A p \in DOMAIN peer_bitfields' :
            p # id => p \in DOMAIN peer_bitfields /\ peer_bitfields'[p] = peer_bitfields[p]
      BY <2>2
    <3>2. ~HasPiece(peer_bitfields'[id], i)
      BY <2>2 DEF HasPiece
    <3> QED
      BY <3>1, <3>2 DEF Holders
  <2> QED
    BY <2>1, <2>2 DEF AddPeer
<1>2. i \in DOMAIN have /\ ~have[i] /\ piece_rarity'[i] >= piece_rarity[i]
  BY DEF AddPeer, SelectorTypeOK
<1> QED
  BY <1>1, <1>2, RarityCovers

LEMMA RemovePeerRarity ==
  ASSUME SelectorTypeOK, SelectorTypeOK', RarityNeverUndercounts,
         NEW id \in PeerId, RemovePeer(id)
  PROVE  RarityNeverUndercounts'
<1> SUFFICES ASSUME NEW i \in DOMAIN have', ~have'[i]
             PROVE  piece_rarity'[i] >= Cardinality(Holders(i)')
  BY DEF RarityNeverUndercounts
<1>1. i \in DOMAIN have /\ ~have[i] /\ piece_rarity[i] \in Nat
  BY DEF RemovePeer, SelectorTypeOK
<1>2. CASE UNCHANGED <<peer_bitfields, piece_rarity>>
  BY <1>1, <1>2, RarityCovers DEF Holders
<1>3. CASE id \in DOMAIN peer_bitfields
  <2>1. Holders(i)' = Holders(i) \ {id}
    BY <1>3 DEF RemovePeer, Holders
  <2>2. id \in Holders(i) <=> HasPiece(peer_bitfields[id], i)
    BY <1>3 DEF Holders
  <2>3. CASE HasPiece(peer_bitfields[id], i)
    <3>1. piece_rarity'[i] >= piece_rarity[i] - 1
      <4>1. piece_rarity'[i] = CountedDown(peer_bitfields[id])[i]
        BY <1>3 DEF RemovePeer, UpdatePrioQueue
      <4>2. i \in DOMAIN piece_rarity
        BY <1>1, PieceDomain
      <4>3. CountedDown(peer_bitfields[id])[i] \in {piece_rarity[i], piece_rarity[i] - 1}
        BY <4>2 DEF CountedDown
      <4> QED
        BY <1>1, <4>1, <4>3
    <3> QED
      BY <1>1, <2>1, <2>2, <2>3, <3>1, RarityCovers
  <2>4. CASE ~HasPiece(peer_bitfields[id], i)
    <3>1. piece_rarity'[i] >= piece_rarity[i]
      BY <1>1, <1>3, <2>4, PieceDomain
      DEF RemovePeer, UpdatePrioQueue, CountedDown, Touched
    <3> QED
      BY <1>1, <2>1, <3>1, RarityCovers
  <2> QED
    BY <2>3, <2>4
<1> QED
  BY <1>2, <1>3 DEF RemovePeer

LEMMA AddPeerBitfieldRarity ==
  ASSUME SelectorTypeOK, SelectorTypeOK', RarityNeverUndercounts,
         NEW id \in PeerId, NEW bitfield \in Bitfield, AddPeerBitfield(id, bitfield)
  PROVE  RarityNeverUndercounts'
<1> SUFFICES ASSUME NEW i \in DOMAIN have', ~have'[i]
             PROVE  piece_rarity'[i] >= Cardinality(Holders(i)')
  BY DEF RarityNeverUndercounts
<1>1. i \in DOMAIN have /\ ~have[i] /\ piece_rarity[i] \in Nat
  BY DEF AddPeerBitfield, SelectorTypeOK
<1>2. CASE UNCHANGED <<peer_bitfields, piece_rarity>>
  BY <1>1, <1>2, RarityCovers DEF Holders
<1>3. CASE id \in DOMAIN peer_bitfields /\ bitfield # <<>>
  <2>1. /\ Holders(i)' \subseteq Holders(i) \cup {id}
        /\ id \in Holders(i)' => HasPiece(bitfield, i)
    BY <1>3 DEF AddPeerBitfield, Holders
  <2>2. piece_rarity'[i] = CountedUp(bitfield)[i]
    BY <1>3 DEF AddPeerBitfield, UpdatePrioQueue
  <2>3. CASE HasPiece(bitfield, i)
    BY <1>1, <2>1, <2>2, <2>3, PieceDomain, RarityCovers DEF CountedUp, Touched
  <2>4. CASE ~HasPiece(bitfield, i)
    BY <1>1, <2>1, <2>2, <2>4, PieceDomain, RarityCovers DEF CountedUp, Touched
  <2> QED
    BY <2>3, <2>4
<1> QED
  BY <1>2, <1>3 DEF AddPeerBitfield

LEMMA UpdateFromPeerHaveRarity ==
  ASSUME SelectorTypeOK, SelectorTypeOK', RarityNeverUndercounts,
         NEW id \in PeerId, NEW j \in Piece, UpdateFromPeerHave(id, j)
  PROVE  RarityNeverUndercounts'
<1> SUFFICES ASSUME NEW i \in DOMAIN have', ~have'[i]
             PROVE  piece_rarity'[i] >= Cardinality(Holders(i)')
  BY DEF RarityNeverUndercounts
<1>1. i \in DOMAIN have /\ ~have[i] /\ piece_rarity[i] \in Nat
  BY DEF UpdateFromPeerHave, SelectorTypeOK
<1>2. CASE UNCHANGED <<peer_bitfields, piece_rarity>>
  BY <1>1, <1>2, RarityCovers DEF Holders
<1>3. CASE HaveIsCounted(id, j)
  <2>1. /\ peer_bitfields' = [peer_bitfields EXCEPT ![id][j] = TRUE]
        /\ piece_rarity' = [piece_rarity EXCEPT ![j] = @ + 1]
    BY <1>3 DEF UpdateFromPeerHave
  <2>2. CASE i = j
    <3>1. Holders(i)' \subseteq Holders(i) \cup {id}
      BY <2>1 DEF Holders
    <3>2. piece_rarity'[i] = piece_rarity[i] + 1
      BY <1>3, <2>1, <2>2 DEF HaveIsCounted
    <3> QED
      BY <1>1, <3>1, <3>2, RarityCovers
  <2>3. CASE i # j
    <3>1. \A p \in DOMAIN peer_bitfields :
            HasPiece(peer_bitfields'[p], i) <=> HasPiece(peer_bitfields[p], i)
      BY <2>1, <2>3 DEF HasPiece
    <3>2. Holders(i)' \subseteq Holders(i)
      BY <2>1, <3>1 DEF Holders
    <3>3. piece_rarity'[i] = piece_rarity[i]
      BY <2>1, <2>3
    <3> QED
      BY <1>1, <3>2, <3>3, RarityCovers
  <2> QED
    BY <2>2, <2>3
<1> QED
  BY <1>2, <1>3 DEF UpdateFromPeerHave

LEMMA UpdateFromSelfHaveRarity ==
  ASSUME SelectorTypeOK, NEW bitfield \in [Piece -> BOOLEAN],
         UpdateFromSelfHave(bitfield)
  PROVE  RarityNeverUndercounts'
<1> SUFFICES ASSUME NEW i \in DOMAIN have', ~have'[i]
             PROVE  piece_rarity'[i] >= Cardinality(Holders(i)')
  BY DEF RarityNeverUndercounts
<1>1. i \in DOMAIN bitfield /\ ~bitfield[i]
  BY DEF UpdateFromSelfHave
<1>2. Holders(i)' = Holders(i)
  BY <1>1 DEF UpdateFromSelfHave, Resized, Holders, HasPiece
<1>3. piece_rarity'[i] = 2 * Cardinality(Holders(i))
  BY <1>1 DEF UpdateFromSelfHave
<1> QED
  BY <1>2, <1>3, HoldersAreFinite

LEMMA SameHoldersRarity ==
  ASSUME SelectorTypeOK, RarityNeverUndercounts,
         UNCHANGED <<piece_rarity, peer_bitfields>>,
         DOMAIN have' = DOMAIN have,
         \A i \in DOMAIN have : have[i] => have'[i]
  PROVE  RarityNeverUndercounts'
BY DEF RarityNeverUndercounts, Holders

\* The rarity of a piece we lack never falls below the number of connected
\* peers that hold it (piece_rarity against peer_bitfields), through repeated
\* haves, replaced bitfields, disconnects and the arrival of the metadata.
THEOREM HoldersAreCounted == SelectorSpec => []RarityNeverUndercounts
<1>1. SelectorInit => RarityNeverUndercounts
  <2> SUFFICES ASSUME NEW bitfield, NewSelector(bitfield)
               PROVE  RarityNeverUndercounts
    BY DEF SelectorInit
  <2>1. \A i \in DOMAIN have : Holders(i) = {} /\ piece_rarity[i] = 0
    BY DEF NewSelector, Holders
  <2> QED
    BY <2>1, FS_EmptySet DEF RarityNeverUndercounts
<1>2. SelectorInv /\ SelectorInv' /\ RarityNeverUndercounts /\ [SelectorNext]_selectorVars
        => RarityNeverUndercounts'
  <2> SUFFICES ASSUME SelectorTypeOK, SelectorTypeOK', RarityNeverUndercounts,
                      [SelectorNext]_selectorVars
               PROVE  RarityNeverUndercounts'
    BY DEF SelectorInv
  <2>1. ASSUME NEW id \in PeerId, NEW k, TakePieces(id, k) PROVE RarityNeverUndercounts'
    BY <2>1, SameHoldersRarity DEF TakePieces
  <2>2. ASSUME NEW i \in DOMAIN have, PieceStored(i) PROVE RarityNeverUndercounts'
    BY <2>2, SameHoldersRarity DEF PieceStored, SelectorTypeOK
  <2>3. CASE UNCHANGED selectorVars
    BY <2>3, SameHoldersRarity DEF selectorVars
  <2>4. [i \in Piece |-> FALSE] \in [Piece -> BOOLEAN]
    OBVIOUS
  <2> QED
    BY <2>1, <2>2, <2>3, <2>4, SentBitfieldType, AddPeerRarity, RemovePeerRarity,
       AddPeerBitfieldRarity, UpdateFromPeerHaveRarity, UpdateFromSelfHaveRarity
    DEF SelectorNext, SelectPiecesForPeer
<1> QED
  BY <1>1, <1>2, SelectorInvariant, PTL DEF SelectorSpec

-----------------------------------------------------------------------------
(* Rarest first *)

LEMMA EntryType ==
  ASSUME SelectorTypeOK, NEW e \in priority_queue
  PROVE  e = <<e[1], e[2]>> /\ e[1] \in Nat /\ e[2] \in Nat /\ e[2] \in DOMAIN have
BY SelectorAssumption DEF SelectorTypeOK, Piece

\* What a selection of k pieces takes: of two entries the peer can be given,
\* the one that precedes a taken one is taken.
LEMMA TakenInOrder ==
  ASSUME SelectorInv, NEW id, NEW k \in Nat, TakePieces(id, k),
         NEW e \in UsableEntries(id), NEW f \in UsableEntries(id),
         pieces_in_flight'[e[2]], Before(f, e)
  PROVE  pieces_in_flight'[f[2]]
<1> DEFINE Earlier(g) == { h \in UsableEntries(id) : Before(h, g) }
<1>1. e \in priority_queue /\ f \in priority_queue
  BY DEF UsableEntries
<1>2. e[2] \in DOMAIN pieces_in_flight /\ f[2] \in DOMAIN pieces_in_flight
  BY <1>1, EntryType, PieceDomain DEF SelectorInv
<1>3. PICK g \in Popped(id, k) \cap UsableEntries(id) : g[2] = e[2]
  <2>1. ~pieces_in_flight[e[2]]
    BY DEF UsableEntries, Usable
  <2>2. e[2] \in Selected(id, k)
    BY <1>2, <2>1 DEF TakePieces
  <2> QED
    BY <2>2 DEF Selected
<1>4. g = e
  <2>1. g \in priority_queue /\ g[1] = piece_rarity[g[2]] /\ e[1] = piece_rarity[e[2]]
    BY DEF UsableEntries, Usable
  <2> QED
    BY <1>1, <1>3, <2>1, EntryType DEF SelectorInv
<1>5. Cardinality(Earlier(e)) < k
  BY <1>3, <1>4 DEF Popped
<1>6. Earlier(f) \subseteq Earlier(e)
  <2> SUFFICES ASSUME NEW h \in UsableEntries(id), Before(h, f) PROVE Before(h, e)
    OBVIOUS
  <2>1. h \in priority_queue
    BY DEF UsableEntries
  <2> QED
    BY <1>1, <2>1, EntryType DEF Before, SelectorInv
<1>7. IsFiniteSet(Earlier(e))
  <2>1. Earlier(e) \subseteq priority_queue
    BY DEF UsableEntries
  <2> QED
    BY <2>1, FS_Subset DEF SelectorInv
<1>8. Cardinality(Earlier(f)) < k
  <2>1. /\ Cardinality(Earlier(f)) <= Cardinality(Earlier(e))
        /\ IsFiniteSet(Earlier(f))
    BY <1>6, <1>7, FS_Subset
  <2>2. Cardinality(Earlier(e)) \in Nat /\ Cardinality(Earlier(f)) \in Nat
    BY <1>7, <2>1, FS_CardinalityType
  <2> QED
    BY <1>5, <2>1, <2>2
<1>9. f[2] \in Selected(id, k)
  BY <1>1, <1>8 DEF Popped, Selected
<1> QED
  BY <1>2, <1>9 DEF TakePieces

\* select_pieces_for_peer hands out pieces rarest first, and by index among
\* equally rare ones.
THEOREM SelectionIsRarestFirst == SelectorSpec => RarestFirst
<1> DEFINE Step == \A id \in DOMAIN peer_bitfields :
                     SelectPiecesForPeer(id) =>
                       \A e, f \in UsableEntries(id) :
                         pieces_in_flight'[e[2]] /\ Before(f, e)
                           => pieces_in_flight'[f[2]]
<1>1. SelectorInv => Step
  <2>1. PiecesPerRound \in Nat
    BY SelectorAssumption DEF PiecesPerRound
  <2> QED
    BY <2>1, TakenInOrder DEF SelectPiecesForPeer
<1> QED
  BY <1>1, SelectorInvariant, PTL DEF RarestFirst, SelectorSpec

-----------------------------------------------------------------------------
(* PieceManager.  Its inductive invariant adds to the properties why they   *)
(* hold: a queued piece is in flight and not had, and so is the piece that  *)
(* is being saved, which is already in the file.                            *)

Wanted(i) ==
  i \in DOMAIN have /\ ~have[i] /\ pieces_in_flight[i] /\ i # saving

QueueInv == Running => \A i \in QueuedPieces : Wanted(i)

SavingInv ==
  saving # NoPiece =>
    /\ torrent_state = "Downloading"
    /\ saving \in DOMAIN have /\ ~have[saving] /\ pieces_in_flight[saving]
    /\ saving \in WrittenPieces

StateInv ==
  /\ torrent_state = "WaitingForMetadata" => have = <<>>
  /\ torrent_state \in {"Downloading", "Seeding"} => have # <<>>
  /\ torrent_state = "Seeding" => AllHad(have)

ManagerInv ==
  /\ TypeOK
  /\ SelectorInv
  /\ QueuedOnce
  /\ QueueInv
  /\ SavingInv
  /\ StateInv
  /\ Running => have = db
  /\ RecordedIsWritten

-----------------------------------------------------------------------------
(* The queue *)

LEMMA PieceStateType ==
  \A s : s \in PieceState <=>
    \E i \in Piece : \E blocks \in [1..NBlocks[i] -> BlockState] :
      s = [piece_i |-> i, blocks |-> blocks]
BY DEF PieceState

LEMMA NewPieceStateType ==
  ASSUME NEW i \in Piece
  PROVE  NewPieceState(i) \in PieceState /\ NewPieceState(i).piece_i = i
BY PieceStateType DEF NewPieceState, BlockState, NotRequested

LEMMA ChangedBlocksType ==
  ASSUME NEW s \in PieceState, NEW f \in [DOMAIN s.blocks -> BlockState]
  PROVE  /\ [s EXCEPT !.blocks = f] \in PieceState
         /\ [s EXCEPT !.blocks = f].piece_i = s.piece_i
<1>1. PICK i \in Piece : \E blocks \in [1..NBlocks[i] -> BlockState] :
             s = [piece_i |-> i, blocks |-> blocks]
  BY PieceStateType
<1>2. [s EXCEPT !.blocks = f] = [piece_i |-> i, blocks |-> f]
  BY <1>1
<1>3. f \in [1..NBlocks[i] -> BlockState]
  BY <1>1
<1> QED
  BY <1>1, <1>2, <1>3, PieceStateType

LEMMA BlocksType ==
  ASSUME NEW s \in PieceState
  PROVE  /\ s.piece_i \in Piece
         /\ s.blocks \in [1..NBlocks[s.piece_i] -> BlockState]
BY PieceStateType

LEMMA SeqOf ==
  ASSUME NEW S, NEW n \in Nat, NEW f \in [1..n -> S]
  PROVE  f \in Seq(S) /\ Len(f) = n /\ DOMAIN f = 1..n
OBVIOUS

\* Requests change the states of blocks, never which pieces are queued.
LEMMA WithRequestsType ==
  ASSUME NEW id, NEW queue \in Seq(PieceState), NEW n
  PROVE  /\ WithRequests(id, queue, n) \in Seq(PieceState)
         /\ DOMAIN WithRequests(id, queue, n) = DOMAIN queue
         /\ \A j \in DOMAIN queue :
              WithRequests(id, queue, n)[j].piece_i = queue[j].piece_i
<1> DEFINE blocks(j) == [b \in DOMAIN queue[j].blocks |->
                          IF IsRequested(id, queue, n, <<j, b>>)
                            THEN "InProcess" ELSE queue[j].blocks[b]]
           changed(j) == [queue[j] EXCEPT !.blocks = blocks(j)]
<1>1. ASSUME NEW j \in DOMAIN queue
      PROVE  changed(j) \in PieceState /\ changed(j).piece_i = queue[j].piece_i
  <2>1. queue[j] \in PieceState
    OBVIOUS
  <2>2. blocks(j) \in [DOMAIN queue[j].blocks -> BlockState]
    BY <2>1, BlocksType DEF BlockState
  <2> QED
    BY <2>1, <2>2, ChangedBlocksType
<1>2. WithRequests(id, queue, n) = [j \in DOMAIN queue |-> changed(j)]
  BY DEF WithRequests
<1> HIDE DEF changed
<1>3. DOMAIN queue = 1..Len(queue) /\ Len(queue) \in Nat
  OBVIOUS
<1>4. WithRequests(id, queue, n) \in [1..Len(queue) -> PieceState]
  BY <1>1, <1>2, <1>3
<1> QED
  BY <1>1, <1>2, <1>3, <1>4, SeqOf

\* One block of one piece changes.
LEMMA WithBlockType ==
  ASSUME NEW queue \in Seq(PieceState), NEW j \in DOMAIN queue,
         NEW b, NEW data \in BlockState
  PROVE  /\ WithBlock(queue, j, b, data) \in Seq(PieceState)
         /\ DOMAIN WithBlock(queue, j, b, data) = DOMAIN queue
         /\ \A k \in DOMAIN queue :
              WithBlock(queue, j, b, data)[k].piece_i = queue[k].piece_i
<1> DEFINE piece == [queue[j] EXCEPT !.blocks = [queue[j].blocks EXCEPT ![b] = data]]
<1>1. queue[j] \in PieceState
  OBVIOUS
<1>2. [queue[j].blocks EXCEPT ![b] = data] \in [DOMAIN queue[j].blocks -> BlockState]
  BY <1>1, BlocksType
<1>3. piece \in PieceState /\ piece.piece_i = queue[j].piece_i
  BY <1>1, <1>2, ChangedBlocksType
<1>4. WithBlock(queue, j, b, data) = [queue EXCEPT ![j] = piece]
  BY <1>1, BlocksType DEF WithBlock
<1> HIDE DEF piece
<1> QED
  BY <1>3, <1>4, SeqOf

\* What a peer sends: data for the block in which it begins, and for those
\* behind it that it reaches.
IsAnswer(b, answer) ==
  b \in DOMAIN answer /\ \A d \in DOMAIN answer : answer[d] \in BlockData

LEMMA AnswerSent ==
  ASSUME NEW i \in Piece, NEW b \in 1..NBlocks[i], NEW last \in b..NBlocks[i],
         NEW answer \in [b..last -> BlockData]
  PROVE  IsAnswer(b, answer)
BY ManagerAssumption DEF IsAnswer

LEMMA WithAnswerType ==
  ASSUME NEW queue \in Seq(PieceState), NEW j \in DOMAIN queue,
         NEW b, NEW answer, IsAnswer(b, answer)
  PROVE  /\ WithAnswer(queue, j, b, answer) \in Seq(PieceState)
         /\ DOMAIN WithAnswer(queue, j, b, answer) = DOMAIN queue
         /\ \A k \in DOMAIN queue :
              WithAnswer(queue, j, b, answer)[k].piece_i = queue[k].piece_i
<1> DEFINE blocks == [d \in DOMAIN queue[j].blocks |->
                        IF d = b \/ (d \in DOMAIN answer /\ queue[j].blocks[d] \in Finished)
                          THEN answer[d] ELSE queue[j].blocks[d]]
           piece == [queue[j] EXCEPT !.blocks = blocks]
<1>1. queue[j] \in PieceState
  OBVIOUS
<1>2. PICK i \in Piece : \E old \in [1..NBlocks[i] -> BlockState] :
             queue[j] = [piece_i |-> i, blocks |-> old]
  BY <1>1, PieceStateType
<1>3. \A d \in DOMAIN answer : answer[d] \in BlockState
  BY ManagerAssumption DEF IsAnswer, BlockState, Finished
<1>4. blocks \in [DOMAIN queue[j].blocks -> BlockState]
  BY <1>2, <1>3 DEF IsAnswer
<1>5. WithAnswer(queue, j, b, answer) = [queue EXCEPT ![j] = piece]
  BY <1>2 DEF WithAnswer
<1> HIDE DEF blocks
<1>6. piece \in PieceState /\ piece.piece_i = queue[j].piece_i
  BY <1>1, <1>4, ChangedBlocksType
<1> HIDE DEF piece
<1> QED
  BY <1>5, <1>6, SeqOf

LEMMA SwapRemoveType ==
  ASSUME NEW queue \in Seq(PieceState), NEW j \in DOMAIN queue
  PROVE  /\ SwapRemove(queue, j) \in Seq(PieceState)
         /\ DOMAIN SwapRemove(queue, j) = 1..(Len(queue) - 1)
         /\ \A k \in 1..(Len(queue) - 1) :
              SwapRemove(queue, j)[k] =
                IF k = j THEN queue[Len(queue)] ELSE queue[k]
<1>1. SwapRemove(queue, j) \in [1..(Len(queue) - 1) -> PieceState]
  BY DEF SwapRemove
<1> QED
  BY <1>1, SeqOf DEF SwapRemove

\* What the file holds after an append.
LEMMA AppendWritten ==
  ASSUME NEW f \in Seq(FileChunk), NEW c \in FileChunk
  PROVE  /\ Append(f, c) \in Seq(FileChunk)
         /\ { Append(f, c)[j] : j \in DOMAIN Append(f, c) } =
              { f[j] : j \in DOMAIN f } \cup {c}
<1>1. DOMAIN Append(f, c) = 1..(Len(f) + 1) /\ DOMAIN f = 1..Len(f) /\ Len(f) \in Nat
  OBVIOUS
<1>2. \A j \in 1..(Len(f) + 1) :
        Append(f, c)[j] = IF j = Len(f) + 1 THEN c ELSE f[j]
  OBVIOUS
<1> QED
  BY <1>1, <1>2

LEMMA PlacesAreFinite ==
  ASSUME NEW f \in Seq(FileChunk), NEW i
  PROVE  IsFiniteSet({ j \in DOMAIN f : f[j] = i })
<1>1. DOMAIN f = 1..Len(f) /\ Len(f) \in Nat
  OBVIOUS
<1>2. IsFiniteSet(1..Len(f))
  BY <1>1, FS_Interval
<1> QED
  BY <1>1, <1>2, FS_Subset

\* How often a piece is in it.
LEMMA AppendCopies ==
  ASSUME NEW f \in Seq(FileChunk), NEW c \in FileChunk, NEW i
  PROVE  CopiesIn(Append(f, c), i) =
           IF i = c THEN CopiesIn(f, i) + 1 ELSE CopiesIn(f, i)
<1> DEFINE places == { j \in DOMAIN f : f[j] = i }
           appended == { j \in DOMAIN Append(f, c) : Append(f, c)[j] = i }
<1>1. DOMAIN Append(f, c) = 1..(Len(f) + 1) /\ DOMAIN f = 1..Len(f) /\ Len(f) \in Nat
  OBVIOUS
<1>2. \A j \in 1..(Len(f) + 1) :
        Append(f, c)[j] = IF j = Len(f) + 1 THEN c ELSE f[j]
  OBVIOUS
<1>3. IsFiniteSet(places) /\ Len(f) + 1 \notin places
  <2>1. IsFiniteSet(places)
    BY PlacesAreFinite
  <2>2. Len(f) + 1 \notin DOMAIN f
    BY <1>1
  <2> QED
    BY <2>1, <2>2
<1>4. CASE i = c
  <2>1. appended = places \cup {Len(f) + 1}
    BY <1>1, <1>2, <1>4
  <2> QED
    BY <1>3, <1>4, <2>1, FS_AddElement DEF CopiesIn
<1>5. CASE i # c
  <2>1. appended = places
    BY <1>1, <1>2, <1>5
  <2> QED
    BY <1>5, <2>1 DEF CopiesIn
<1> QED
  BY <1>4, <1>5

-----------------------------------------------------------------------------
(* The handlers preserve the invariant *)

LEMMA InitInv == Init => ManagerInv
<1> SUFFICES ASSUME Init PROVE ManagerInv
  OBVIOUS
<1>1. db \in {<<>>} \cup [Piece -> BOOLEAN]
  BY DEF Init, EmptyBitfield
<1>2. SelectorInv /\ have = db
  BY <1>1, NewSelectorInv DEF Init, NewSelector
<1>3. TypeOK
  BY <1>1, <1>2 DEF TypeOK, Init, SelectorInv
<1>4. QueuedOnce /\ QueueInv /\ SavingInv
  BY DEF Init, QueuedOnce, QueueInv, QueuedPieces, SavingInv
<1>5. RecordedPieces = {}
  BY DEF Init, EmptyBitfield, RecordedPieces
<1>6. StateInv
  <2>1. have # <<>> => have = EmptyBitfield
    BY <1>2 DEF Init
  <2>2. 1 \in Piece /\ EmptyBitfield # <<>>
    BY SelectorAssumption DEF Piece, EmptyBitfield
  <2> QED
    BY <1>2, <2>1, <2>2 DEF Init, StateInv
<1> QED
  BY <1>2, <1>3, <1>4, <1>5, <1>6 DEF ManagerInv, RecordedIsWritten

\* A message that only changes what is known of the peers.
LEMMA PeerMessageInv ==
  ASSUME ManagerInv, SelectorInv', UNCHANGED managerVars,
         UNCHANGED <<have, pieces_in_flight>>
  PROVE  ManagerInv'
<1>1. TypeOK'
  BY DEF ManagerInv, TypeOK, managerVars, SelectorInv
<1>2. QueuedOnce' /\ QueueInv' /\ SavingInv' /\ StateInv'
  BY DEF ManagerInv, managerVars, QueuedOnce, QueueInv, QueuedPieces, Running, Wanted,
         SavingInv, WrittenPieces, StateInv, AllHad
<1>3. (Running => have = db)' /\ RecordedIsWritten'
  BY DEF ManagerInv, managerVars, Running, RecordedIsWritten, RecordedPieces,
         WrittenPieces
<1> QED
  BY <1>1, <1>2, <1>3 DEF ManagerInv

LEMMA PeerMessagesInv ==
  ASSUME ManagerInv, NEW id \in PeerId,
         \/ NewConnection(id)
         \/ PeerDisconnected(id)
         \/ \E bitfield \in BitfieldsOf[id] : PeerBitfield(id, bitfield)
         \/ \E i \in Piece : PeerHas(id, i)
  PROVE  ManagerInv'
<1>1. SelectorInv
  BY DEF ManagerInv
<1>2. CASE NewConnection(id)
  BY <1>1, <1>2, AddPeerInv, PeerMessageInv DEF NewConnection, AddPeer
<1>3. CASE PeerDisconnected(id)
  BY <1>1, <1>3, RemovePeerInv, PeerMessageInv DEF PeerDisconnected, RemovePeer
<1>4. ASSUME NEW bitfield \in BitfieldsOf[id], PeerBitfield(id, bitfield)
      PROVE  ManagerInv'
  <2>1. bitfield \in Bitfield
    BY ManagerAssumption, SentBitfieldType
  <2> QED
    BY <1>1, <1>4, <2>1, AddPeerBitfieldInv, PeerMessageInv
    DEF PeerBitfield, AddPeerBitfield
<1>5. ASSUME NEW i \in Piece, PeerHas(id, i) PROVE ManagerInv'
  BY <1>1, <1>5, UpdateFromPeerHaveInv, PeerMessageInv DEF PeerHas, UpdateFromPeerHave
<1> QED
  BY <1>2, <1>3, <1>4, <1>5

\* The queue changed, and nothing else of the manager.
LEMMA QueueChangedInv ==
  ASSUME ManagerInv, SelectorInv',
         UNCHANGED <<have, torrent_state, saving, file, db, announced, failures>>,
         saving # NoPiece => pieces_in_flight'[saving],
         download_queue' \in Seq(PieceState), QueuedOnce', QueueInv'
  PROVE  ManagerInv'
<1>1. TypeOK'
  BY DEF ManagerInv, TypeOK, SelectorInv
<1>2. SavingInv' /\ StateInv'
  BY DEF ManagerInv, SavingInv, WrittenPieces, StateInv, AllHad
<1>3. (Running => have = db)' /\ RecordedIsWritten'
  BY DEF ManagerInv, Running, RecordedIsWritten, RecordedPieces, WrittenPieces
<1> QED
  BY <1>1, <1>2, <1>3 DEF ManagerInv

\* The entries that a selection hands out, in the order of their popping, are
\* of different pieces, none of them had or in flight before.
LEMMA OrderType ==
  ASSUME SelectorInv, NEW id, NEW k, TakePieces(id, k),
         NEW order \in PoppingOrders(Popped(id, k) \cap UsableEntries(id))
  PROVE  /\ \E m \in Nat : DOMAIN order = 1..m
         /\ \A j \in DOMAIN order :
              /\ order[j][2] \in DOMAIN have
              /\ ~have[order[j][2]]
              /\ ~pieces_in_flight[order[j][2]]
              /\ pieces_in_flight'[order[j][2]]
         /\ \A j, l \in DOMAIN order : order[j][2] = order[l][2] => j = l
<1> DEFINE entries == Popped(id, k) \cap UsableEntries(id)
<1>1. IsFiniteSet(entries)
  BY FS_Subset DEF UsableEntries, SelectorInv
<1>2. Cardinality(entries) \in Nat
  BY <1>1, FS_CardinalityType
<1>3. /\ order \in [1..Cardinality(entries) -> entries]
      /\ \A j, l \in DOMAIN order : j < l => Before(order[j], order[l])
  BY DEF PoppingOrders
<1>4. ASSUME NEW e \in entries
      PROVE  /\ e[2] \in DOMAIN have /\ ~have[e[2]]
             /\ ~pieces_in_flight[e[2]] /\ pieces_in_flight'[e[2]]
             /\ e[1] = piece_rarity[e[2]] /\ e[1] \in Nat /\ e[2] \in Nat
  <2>1. e \in priority_queue /\ ~pieces_in_flight[e[2]] /\ e[1] = piece_rarity[e[2]]
    BY DEF UsableEntries, Usable
  <2>2. e[2] \in DOMAIN have /\ e[1] \in Nat /\ e[2] \in Nat
    BY <2>1, EntryType DEF SelectorInv
  <2>3. ~have[e[2]]
    BY <2>1 DEF SelectorInv, HeldEntriesAreInFlight
  <2>4. e[2] \in Selected(id, k)
    BY DEF Selected
  <2>5. pieces_in_flight'[e[2]]
    BY <2>2, <2>4, PieceDomain DEF TakePieces, SelectorInv
  <2> QED
    BY <2>1, <2>2, <2>3, <2>5
<1>5. ASSUME NEW j \in DOMAIN order, NEW l \in DOMAIN order,
             order[j][2] = order[l][2], j < l
      PROVE  FALSE
  <2>1. Before(order[j], order[l]) /\ order[j] \in entries /\ order[l] \in entries
    BY <1>3, <1>5
  <2> QED
    BY <1>4, <1>5, <2>1 DEF Before
<1>6. DOMAIN order = 1..Cardinality(entries)
  BY <1>3
<1>7. ASSUME NEW j \in DOMAIN order, NEW l \in DOMAIN order,
             order[j][2] = order[l][2]
      PROVE  j = l
  <2>1. ~(j < l) /\ ~(l < j)
    BY <1>5, <1>7
  <2>2. j \in Int /\ l \in Int
    BY <1>6
  <2> QED
    BY <2>1, <2>2
<1>8. \A j \in DOMAIN order : order[j] \in entries
  BY <1>3
<1> QED
  BY <1>2, <1>4, <1>6, <1>7, <1>8

LEMMA NeedBlockQueueInv ==
  ASSUME ManagerInv, NEW id \in PeerId, NEW n, NeedBlockQueue(id, n)
  PROVE  ManagerInv'
<1>1. PICK k : /\ TakePieces(id, k)
               /\ \E order \in PoppingOrders(Popped(id, k) \cap UsableEntries(id)) :
                    download_queue' = WithRequests(id,
                      download_queue \o
                        [j \in DOMAIN order |-> NewPieceState(order[j][2])], n)
  BY DEF NeedBlockQueue, PrepareNextBlocks
<1>2. PICK order \in PoppingOrders(Popped(id, k) \cap UsableEntries(id)) :
             download_queue' = WithRequests(id,
               download_queue \o
                 [j \in DOMAIN order |-> NewPieceState(order[j][2])], n)
  BY <1>1
<1> DEFINE new == [j \in DOMAIN order |-> NewPieceState(order[j][2])]
           queue == download_queue \o new
<1>3. SelectorInv' /\ SelectorInv /\ download_queue \in Seq(PieceState)
  BY <1>1, TakePiecesInv DEF ManagerInv, TypeOK
<1>4. PICK m \in Nat : DOMAIN order = 1..m
  BY <1>1, <1>3, OrderType
<1>5. \A j \in 1..m : /\ order[j][2] \in DOMAIN have /\ order[j][2] \in Piece
                      /\ ~have[order[j][2]]
                      /\ ~pieces_in_flight[order[j][2]]
                      /\ pieces_in_flight'[order[j][2]]
  BY <1>1, <1>3, <1>4, OrderType, PieceDomain DEF SelectorInv
<1>6. \A j \in 1..m : new[j] \in PieceState /\ new[j].piece_i = order[j][2]
  BY <1>4, <1>5, NewPieceStateType
<1>7. new \in Seq(PieceState) /\ Len(new) = m
  <2>1. new \in [1..m -> PieceState]
    BY <1>4, <1>6
  <2> QED
    BY <2>1, SeqOf
<1> HIDE DEF new
<1>8. /\ queue \in Seq(PieceState)
      /\ DOMAIN queue = 1..(Len(download_queue) + m)
      /\ \A j \in 1..Len(download_queue) : queue[j] = download_queue[j]
      /\ \A j \in 1..(Len(download_queue) + m) :
           j > Len(download_queue) => queue[j] = new[j - Len(download_queue)]
  BY <1>3, <1>7
<1> HIDE DEF queue
<1>9. /\ download_queue' \in Seq(PieceState)
      /\ DOMAIN download_queue' = 1..(Len(download_queue) + m)
      /\ \A j \in 1..(Len(download_queue) + m) :
           download_queue'[j].piece_i = queue[j].piece_i
  <2>1. download_queue' = WithRequests(id, queue, n)
    BY <1>2 DEF new, queue
  <2> QED
    BY <1>8, <2>1, WithRequestsType
<1>10. \A j \in 1..Len(download_queue) :
         /\ pieces_in_flight[download_queue[j].piece_i]
         /\ Wanted(download_queue[j].piece_i)
  BY <1>3 DEF ManagerInv, QueueInv, QueuedPieces, Wanted, NeedBlockQueue, Idle
<1>11. QueuedOnce'
  <2> SUFFICES ASSUME NEW j \in DOMAIN download_queue', NEW l \in DOMAIN download_queue',
                      queue[j].piece_i = queue[l].piece_i
               PROVE  j = l
    BY <1>9 DEF QueuedOnce
  <2>0. ASSUME NEW a \in 1..(Len(download_queue) + m), a > Len(download_queue)
        PROVE  /\ a - Len(download_queue) \in 1..m
               /\ queue[a].piece_i = order[a - Len(download_queue)][2]
    <3>1. a - Len(download_queue) \in 1..m
      BY <1>3, <2>0
    <3>2. queue[a] = new[a - Len(download_queue)]
      BY <1>8, <2>0
    <3> QED
      BY <1>6, <3>1, <3>2
  <2>1. CASE j <= Len(download_queue) /\ l <= Len(download_queue)
    BY <1>3, <1>8, <1>9, <2>1 DEF ManagerInv, QueuedOnce
  <2>2. CASE j > Len(download_queue) /\ l > Len(download_queue)
    <3>1. /\ j - Len(download_queue) \in 1..m /\ l - Len(download_queue) \in 1..m
          /\ queue[j].piece_i = order[j - Len(download_queue)][2]
          /\ queue[l].piece_i = order[l - Len(download_queue)][2]
      BY <2>0, <1>9, <2>2
    <3>2. j - Len(download_queue) = l - Len(download_queue)
      BY <1>1, <1>3, <1>4, <3>1, OrderType
    <3> QED
      BY <1>3, <1>9, <3>2
  <2>3. ASSUME NEW a \in 1..Len(download_queue), NEW c \in 1..m
        PROVE  download_queue[a].piece_i # order[c][2]
    BY <1>5, <1>10
  <2>4. CASE j <= Len(download_queue) /\ l > Len(download_queue)
    <3>1. /\ j \in 1..Len(download_queue) /\ l - Len(download_queue) \in 1..m
          /\ queue[l].piece_i = order[l - Len(download_queue)][2]
      BY <2>0, <1>3, <1>9, <2>4
    <3> QED
      BY <1>8, <2>3, <3>1
  <2>5. CASE j > Len(download_queue) /\ l <= Len(download_queue)
    <3>1. /\ l \in 1..Len(download_queue) /\ j - Len(download_queue) \in 1..m
          /\ queue[j].piece_i = order[j - Len(download_queue)][2]
      BY <2>0, <1>3, <1>9, <2>5
    <3> QED
      BY <1>8, <2>3, <3>1
  <2> QED
    BY <1>3, <1>9, <2>1, <2>2, <2>4, <2>5
<1>12. saving = NoPiece /\ saving' = saving /\ have' = have
  BY <1>1 DEF NeedBlockQueue, Idle, TakePieces
<1>13. \A i \in DOMAIN have : pieces_in_flight[i] => pieces_in_flight'[i]
  BY <1>1, <1>3, PieceDomain DEF TakePieces, SelectorInv
<1>14. QueueInv'
  <2> SUFFICES ASSUME NEW i, NEW j \in 1..(Len(download_queue) + m),
                      i = queue[j].piece_i
               PROVE  Wanted(i)'
    BY <1>9 DEF QueueInv, QueuedPieces
  <2>1. CASE j <= Len(download_queue)
    <3>1. queue[j].piece_i = download_queue[j].piece_i /\ j \in 1..Len(download_queue)
      BY <1>3, <1>8, <2>1
    <3> QED
      BY <1>10, <1>12, <1>13, <3>1 DEF Wanted
  <2>2. CASE j > Len(download_queue)
    <3>1. /\ j - Len(download_queue) \in 1..m
          /\ queue[j].piece_i = order[j - Len(download_queue)][2]
      BY <1>3, <1>6, <1>8, <2>2
    <3>2. NoPiece \notin Piece
      BY DEF NoPiece, Piece
    <3> QED
      BY <1>5, <1>12, <3>1, <3>2 DEF Wanted
  <2> QED
    BY <1>3, <2>1, <2>2
<1> QED
  BY <1>3, <1>9, <1>11, <1>12, <1>14, QueueChangedInv DEF NeedBlockQueue

LEMMA RequestTimesOutInv ==
  ASSUME ManagerInv, NEW j \in DOMAIN download_queue, NEW b, RequestTimesOut(j, b)
  PROVE  ManagerInv'
<1>1. /\ download_queue' \in Seq(PieceState)
      /\ DOMAIN download_queue' = DOMAIN download_queue
      /\ \A k \in DOMAIN download_queue :
           download_queue'[k].piece_i = download_queue[k].piece_i
  <2>1. download_queue \in Seq(PieceState) /\ "TimedOut" \in BlockState
    BY DEF ManagerInv, TypeOK, BlockState, NotRequested
  <2> QED
    BY <2>1, WithBlockType DEF RequestTimesOut
<1>2. QueuedOnce' /\ QueuedPieces' = QueuedPieces
  BY <1>1 DEF ManagerInv, QueuedOnce, QueuedPieces
<1>3. SelectorInv'
  BY DEF RequestTimesOut, ManagerInv, selectorVars, SelectorInv, SelectorTypeOK,
         HeldEntriesAreInFlight
<1>4. QueueInv'
  BY <1>2 DEF RequestTimesOut, ManagerInv, QueueInv, Running, Wanted, selectorVars
<1>5. saving # NoPiece => pieces_in_flight'[saving]
  BY DEF RequestTimesOut, ManagerInv, SavingInv, selectorVars
<1> QED
  BY <1>1, <1>2, <1>3, <1>4, <1>5, QueueChangedInv DEF RequestTimesOut, selectorVars

LEMMA StopInv ==
  ASSUME ManagerInv, Stop,
         \/ db' = db
         \/ db' = EmptyBitfield
  PROVE  ManagerInv'
<1>1. SelectorInv'
  BY DEF Stop, ManagerInv, selectorVars, SelectorInv, SelectorTypeOK,
         HeldEntriesAreInFlight
<1>2. TypeOK'
  <2>1. db' \in {<<>>} \cup [Piece -> BOOLEAN]
    BY DEF ManagerInv, TypeOK, EmptyBitfield
  <2>2. UNCHANGED <<download_queue, file, announced>>
    BY DEF Stop
  <2> QED
    BY <1>1, <2>1, <2>2 DEF Stop, ManagerInv, TypeOK, SelectorInv
<1>3. QueuedOnce'
  BY DEF Stop, ManagerInv, QueuedOnce
<1>4. (~Running)' /\ (saving = NoPiece)'
  BY DEF Stop, Running
<1>5. RecordedIsWritten'
  BY DEF Stop, ManagerInv, RecordedIsWritten, RecordedPieces, WrittenPieces,
         EmptyBitfield
<1> QED
  BY <1>1, <1>2, <1>3, <1>4, <1>5
  DEF ManagerInv, QueueInv, SavingInv, StateInv, Running, Stop

LEMMA RestartInv ==
  ASSUME ManagerInv, Restart
  PROVE  ManagerInv'
<1>1. db \in [Piece -> BOOLEAN] \cup {<<>>} /\ db' = db
  BY DEF ManagerInv, TypeOK, Restart
<1>2. SelectorInv' /\ have' = db
  BY <1>1, RestartSelectorInv DEF Restart, RestartSelector
<1>3. TypeOK'
  BY <1>2 DEF Restart, ManagerInv, TypeOK, SelectorInv
<1>4. QueuedOnce' /\ QueueInv' /\ SavingInv'
  BY DEF Restart, QueuedOnce, QueueInv, QueuedPieces, SavingInv
<1>5. StateInv' /\ RecordedIsWritten'
  BY <1>1, <1>2
  DEF Restart, ManagerInv, StateInv, RecordedIsWritten, RecordedPieces, WrittenPieces
<1> QED
  BY <1>1, <1>2, <1>3, <1>4, <1>5 DEF ManagerInv

LEMMA GotMetadataInv ==
  ASSUME ManagerInv, GotMetadata
  PROVE  ManagerInv'
<1>1. have = <<>> /\ saving = NoPiece /\ saving' = NoPiece
  BY DEF GotMetadata, Idle, ManagerInv, StateInv
<1>2. EmptyBitfield \in [Piece -> BOOLEAN]
  BY DEF EmptyBitfield
<1>3. SelectorInv' /\ have' = EmptyBitfield /\ db' = EmptyBitfield
  BY <1>1, <1>2, UpdateFromSelfHaveInv
  DEF GotMetadata, ManagerInv, MetadataKnown, UpdateFromSelfHave
<1>4. TypeOK'
  BY <1>2, <1>3 DEF GotMetadata, ManagerInv, TypeOK, SelectorInv
<1>5. QueuedPieces = {} /\ QueuedPieces' = {}
  <2>1. \A i \in QueuedPieces : Wanted(i)
    BY DEF GotMetadata, Idle, ManagerInv, QueueInv
  <2>2. QueuedPieces = {}
    BY <1>1, <2>1 DEF Wanted
  <2>3. QueuedPieces' = QueuedPieces
    BY DEF GotMetadata, QueuedPieces
  <2> QED
    BY <2>2, <2>3
<1>6. QueuedOnce' /\ QueueInv' /\ SavingInv'
  BY <1>1, <1>5 DEF GotMetadata, ManagerInv, QueuedOnce, QueueInv, SavingInv
<1>7. EmptyBitfield # <<>>
  BY SelectorAssumption DEF EmptyBitfield, Piece
<1>8. StateInv' /\ RecordedIsWritten'
  BY <1>3, <1>7
  DEF GotMetadata, StateInv, RecordedIsWritten, RecordedPieces, EmptyBitfield
<1> QED
  BY <1>3, <1>4, <1>6, <1>8 DEF ManagerInv

LEMMA BitfieldUpdatedInv ==
  ASSUME ManagerInv, BitfieldUpdated
  PROVE  ManagerInv'
<1>1. /\ torrent_state = "Downloading" /\ saving \in DOMAIN have /\ ~have[saving]
      /\ pieces_in_flight[saving] /\ saving \in WrittenPieces
      /\ saving' = NoPiece /\ Running
  BY DEF BitfieldUpdated, ManagerInv, SavingInv
<1>2. SelectorInv'
  BY <1>1, PieceStoredInv DEF BitfieldUpdated, ManagerInv
<1>3. have \in [Piece -> BOOLEAN] /\ DOMAIN have = Piece
  BY <1>1 DEF ManagerInv, SelectorInv, SelectorTypeOK
<1>4. /\ have' = [have EXCEPT ![saving] = TRUE] /\ have' = db'
      /\ have' \in [Piece -> BOOLEAN]
  BY <1>3 DEF BitfieldUpdated, NewBitfield, PieceStored
<1>5. /\ torrent_state' \in {"Downloading", "Seeding"}
      /\ torrent_state' = "Seeding" => AllHad(have')
  BY <1>1 DEF BitfieldUpdated, FinishPiece
<1>6. TypeOK'
  BY <1>1, <1>2, <1>3, <1>4, <1>5
  DEF BitfieldUpdated, FinishPiece, ManagerInv, TypeOK, SelectorInv
<1>7. QueuedOnce' /\ QueuedPieces' = QueuedPieces
  BY DEF BitfieldUpdated, ManagerInv, QueuedOnce, QueuedPieces
<1>8. QueueInv'
  <2> SUFFICES ASSUME NEW i \in QueuedPieces PROVE Wanted(i)'
    BY <1>7 DEF QueueInv
  <2>1. Wanted(i)
    BY <1>1 DEF ManagerInv, QueueInv
  <2> QED
    BY <1>1, <1>3, <1>4, <2>1 DEF Wanted, BitfieldUpdated, PieceStored, NoPiece, Piece
<1>9. StateInv' /\ SavingInv'
  BY <1>1, <1>3, <1>4, <1>5, SelectorAssumption DEF StateInv, SavingInv, Piece
<1>10. RecordedIsWritten'
  BY <1>1, <1>3, <1>4
  DEF BitfieldUpdated, ManagerInv, RecordedIsWritten, RecordedPieces, WrittenPieces
<1> QED
  BY <1>2, <1>4, <1>6, <1>7, <1>8, <1>9, <1>10 DEF ManagerInv

\* A block arrived: its piece stays queued, or is taken from the queue and
\* handled.
LEMMA GotBlockInv ==
  ASSUME ManagerInv, NEW i \in Piece, NEW b, NEW answer,
         IsAnswer(b, answer), GotBlock(i, b, answer)
  PROVE  ManagerInv'
<1>1. PICK j \in DOMAIN download_queue :
        /\ IsFirstOf(i, j)
        /\ LET queue == WithAnswer(download_queue, j, b, answer) IN
           \/ /\ ~IsComplete(queue[j])
              /\ download_queue' = queue
              /\ UNCHANGED <<selectorVars, torrent_state, saving, file, db,
                             announced, failures>>
           \/ /\ IsComplete(queue[j])
              /\ download_queue' = SwapRemove(queue, j)
              /\ HandlePiece(i, queue[j])
  BY DEF GotBlock
<1> DEFINE queue == WithAnswer(download_queue, j, b, answer)
<1>2. /\ queue \in Seq(PieceState)
      /\ DOMAIN queue = DOMAIN download_queue
      /\ \A k \in DOMAIN download_queue : queue[k].piece_i = download_queue[k].piece_i
  BY WithAnswerType DEF ManagerInv, TypeOK
<1>3. /\ \/ /\ download_queue' = queue
            /\ UNCHANGED <<selectorVars, torrent_state, saving, file, db,
                           announced, failures>>
         \/ /\ download_queue' = SwapRemove(queue, j)
            /\ HandlePiece(i, queue[j])
      /\ download_queue[j].piece_i = i
  BY <1>1 DEF IsFirstOf
<1> HIDE DEF queue
<1>4. SelectorInv' /\ UNCHANGED <<have, pieces_in_flight>> /\ UNCHANGED db
  BY <1>3
  DEF HandlePiece, ManagerInv, selectorVars, SelectorInv, SelectorTypeOK,
      HeldEntriesAreInFlight
<1>5. Running /\ saving = NoPiece /\ torrent_state = "Downloading"
  BY DEF GotBlock, Idle
<1>6. \A k \in DOMAIN download_queue : Wanted(download_queue[k].piece_i)
  BY <1>5 DEF ManagerInv, QueueInv, QueuedPieces
<1>7. CASE /\ download_queue' = queue
           /\ UNCHANGED <<selectorVars, torrent_state, saving, file, db,
                          announced, failures>>
  <2>1. QueuedOnce' /\ QueuedPieces' = QueuedPieces
    BY <1>2, <1>7 DEF ManagerInv, QueuedOnce, QueuedPieces
  <2>2. QueueInv'
    BY <1>4, <1>7, <2>1 DEF ManagerInv, QueueInv, Running, Wanted
  <2> QED
    BY <1>2, <1>4, <1>5, <1>7, <2>1, <2>2, QueueChangedInv
<1>8. CASE download_queue' = SwapRemove(queue, j) /\ HandlePiece(i, queue[j])
  <2>1. /\ download_queue' \in Seq(PieceState)
        /\ DOMAIN download_queue' = 1..(Len(queue) - 1)
        /\ DOMAIN queue = 1..Len(queue) /\ Len(queue) \in Nat
        /\ \A k \in 1..(Len(queue) - 1) :
             download_queue'[k] = IF k = j THEN queue[Len(queue)] ELSE queue[k]
    <3>1. queue \in Seq(PieceState) /\ j \in DOMAIN queue
      BY <1>2
    <3>2. DOMAIN queue = 1..Len(queue) /\ Len(queue) \in Nat
      BY <3>1
    <3>3. /\ SwapRemove(queue, j) \in Seq(PieceState)
          /\ DOMAIN SwapRemove(queue, j) = 1..(Len(queue) - 1)
          /\ \A k \in 1..(Len(queue) - 1) :
               SwapRemove(queue, j)[k] =
                 IF k = j THEN queue[Len(queue)] ELSE queue[k]
      BY <3>1, SwapRemoveType
    <3> QED
      BY <1>8, <3>2, <3>3
  <2>2. \A k, l \in DOMAIN queue : queue[k].piece_i = queue[l].piece_i => k = l
    BY <1>2 DEF ManagerInv, QueuedOnce
  <2>3. \A k \in DOMAIN download_queue' :
          \E l \in DOMAIN queue : l # j /\ download_queue'[k] = queue[l]
    BY <1>2, <2>1
  <2>4. QueuedOnce'
    BY <1>2, <2>1, <2>2 DEF QueuedOnce
  <2>5. \A x \in QueuedPieces' : Wanted(x) /\ x # i
    BY <1>2, <1>3, <1>6, <2>2, <2>3 DEF QueuedPieces
  <2>6. Wanted(i)
    BY <1>3, <1>6
  <2>7. have = db /\ have' = db'
    BY <1>4, <1>5 DEF ManagerInv
  <2>8. ASSUME HashMatches(queue[j]), WritePieceToFile(i), UNCHANGED announced
        PROVE  ManagerInv'
    <3>1. CASE file' = Append(file, i) /\ saving' = i
               /\ UNCHANGED <<torrent_state, failures>>
      <4>1. file' \in Seq(FileChunk) /\ WrittenPieces' = WrittenPieces \cup {i}
        BY <3>1, AppendWritten
        DEF ManagerInv, TypeOK, FileChunk, WrittenPieces, Partial, Piece
      <4>2. TypeOK'
        BY <1>4, <2>1, <2>8, <3>1, <4>1 DEF ManagerInv, TypeOK, SelectorInv
      <4>3. QueueInv'
        BY <1>4, <2>5, <3>1 DEF QueueInv, Wanted
      <4>4. SavingInv'
        BY <1>4, <1>5, <2>6, <3>1, <4>1 DEF SavingInv, Wanted
      <4>5. StateInv' /\ RecordedIsWritten'
        BY <1>4, <3>1, <4>1
        DEF ManagerInv, StateInv, RecordedIsWritten, RecordedPieces
      <4> QED
        BY <1>4, <2>4, <2>7, <4>2, <4>3, <4>4, <4>5 DEF ManagerInv
    <3>2. CASE /\ failures < MaxFailures /\ failures' = failures + 1
               /\ file' \in {file, Append(file, Partial)}
               /\ torrent_state' = "Stopped" /\ UNCHANGED saving
      <4>1. file' \in Seq(FileChunk) /\ WrittenPieces' = WrittenPieces
        <5>1. file \in Seq(FileChunk) /\ Partial \in FileChunk
          BY DEF ManagerInv, TypeOK, FileChunk
        <5>2. CASE file' = file
          BY <5>1, <5>2 DEF WrittenPieces
        <5>3. CASE file' = Append(file, Partial)
          BY <5>1, <5>3, AppendWritten DEF WrittenPieces
        <5> QED
          BY <3>2, <5>2, <5>3
      <4>2. failures' \in Nat
        BY <3>2 DEF ManagerInv, TypeOK
      <4>3. TypeOK'
        BY <1>4, <2>1, <2>8, <3>2, <4>1, <4>2 DEF ManagerInv, TypeOK, SelectorInv
      <4>4. RecordedIsWritten'
        BY <1>4, <4>1 DEF ManagerInv, RecordedIsWritten, RecordedPieces
      <4> QED
        BY <1>4, <1>5, <2>4, <3>2, <4>3, <4>4
        DEF ManagerInv, QueueInv, SavingInv, StateInv, Running
    <3> QED
      BY <2>8, <3>1, <3>2 DEF WritePieceToFile
  <2>9. ASSUME FinishPiece(i), UNCHANGED <<saving, file, failures>>
        PROVE  ManagerInv'
    <3>1. /\ torrent_state' \in {"Downloading", "Seeding"}
          /\ torrent_state' = "Seeding" => AllHad(have')
      BY <1>5, <2>9 DEF FinishPiece
    <3>2. TypeOK'
      BY <1>4, <2>1, <2>9, <3>1 DEF ManagerInv, TypeOK, SelectorInv, FinishPiece
    <3>3. QueueInv' /\ SavingInv'
      BY <1>4, <1>5, <2>5, <2>9 DEF QueueInv, Wanted, SavingInv
    <3>4. StateInv'
      BY <1>4, <1>5, <3>1 DEF ManagerInv, StateInv
    <3>5. RecordedIsWritten'
      BY <1>4, <2>9 DEF ManagerInv, RecordedIsWritten, RecordedPieces, WrittenPieces
    <3> QED
      BY <1>4, <2>4, <2>7, <3>2, <3>3, <3>4, <3>5 DEF ManagerInv
  <2> QED
    BY <1>8, <2>8, <2>9 DEF HandlePiece
<1> QED
  BY <1>3, <1>7, <1>8

LEMMA ManagerNextInv ==
  ASSUME ManagerInv, [Next]_vars
  PROVE  ManagerInv'
<1>1. CASE UNCHANGED vars
  <2>1. SelectorInv' /\ UNCHANGED <<managerVars, have, pieces_in_flight>>
    BY <1>1
    DEF vars, selectorVars, ManagerInv, SelectorInv, SelectorTypeOK,
        HeldEntriesAreInFlight
  <2> QED
    BY <2>1, PeerMessageInv
<1>2. ASSUME NEW id \in PeerId,
             \/ NewConnection(id)
             \/ PeerDisconnected(id)
             \/ \E bitfield \in BitfieldsOf[id] : PeerBitfield(id, bitfield)
             \/ \E i \in Piece : PeerHas(id, i)
      PROVE  ManagerInv'
  BY <1>2, PeerMessagesInv
<1>3. ASSUME NEW id \in PeerId, NEW n \in RequestLimits, NeedBlockQueue(id, n)
      PROVE  ManagerInv'
  BY <1>3, NeedBlockQueueInv
<1>4. ASSUME NEW i \in Piece, NEW b \in 1..NBlocks[i], NEW last \in b..NBlocks[i],
             NEW answer \in [b..last -> BlockData], GotBlock(i, b, answer)
      PROVE  ManagerInv'
  BY <1>4, AnswerSent, GotBlockInv
<1>5. CASE BitfieldUpdated
  BY <1>5, BitfieldUpdatedInv
<1>6. CASE GotMetadata
  BY <1>6, GotMetadataInv
<1>7. CASE GotMetadataFails
  BY <1>7, StopInv DEF GotMetadataFails
<1>8. ASSUME NEW j \in DOMAIN download_queue,
             NEW b \in DOMAIN download_queue[j].blocks, RequestTimesOut(j, b)
      PROVE  ManagerInv'
  BY <1>8, RequestTimesOutInv
<1>9. CASE ManagerStops
  BY <1>9, StopInv DEF ManagerStops
<1>10. CASE Restart
  BY <1>10, RestartInv
<1> QED
  BY <1>1, <1>2, <1>3, <1>4, <1>5, <1>6, <1>7, <1>8, <1>9, <1>10, ManagerAssumption
  DEF Next

-----------------------------------------------------------------------------
(* The theorems *)

\* The inductive invariant holds in every state of the manager.
THEOREM ManagerInvariant == Spec => []ManagerInv
<1>1. Init => ManagerInv
  BY InitInv
<1>2. ManagerInv /\ [Next]_vars => ManagerInv'
  BY ManagerNextInv
<1> QED
  BY <1>1, <1>2, PTL DEF Spec

\* Type correctness of the whole manager.
THEOREM ManagerTypeCorrect == Spec => []TypeOK
<1>1. ManagerInv => TypeOK
  BY DEF ManagerInv
<1> QED
  BY <1>1, ManagerInvariant, PTL

\* A piece is never queued twice: the selector only hands out pieces that are
\* not in flight, and the queued ones are.
THEOREM PiecesAreQueuedOnce == Spec => []QueuedOnce
<1>1. ManagerInv => QueuedOnce
  BY DEF ManagerInv
<1> QED
  BY <1>1, ManagerInvariant, PTL

\* A recorded piece is never downloaded again: the queued pieces are not had,
\* and a running manager has what is recorded.
THEOREM RecordedNeverQueued == Spec => []RecordedNotQueued
<1>1. ManagerInv => RecordedNotQueued
  <2> SUFFICES ASSUME ManagerInv, Running, NEW i \in QueuedPieces
               PROVE  i \notin RecordedPieces
    BY DEF RecordedNotQueued
  <2>1. Wanted(i) /\ have = db
    BY DEF ManagerInv, QueueInv
  <2> QED
    BY <2>1 DEF Wanted, RecordedPieces
<1> QED
  BY <1>1, ManagerInvariant, PTL

\* The event loop answers peers from the recorded bitfield.
THEOREM HaveAlwaysRecorded == Spec => []HaveIsRecorded
<1>1. ManagerInv => HaveIsRecorded
  BY DEF ManagerInv, HaveIsRecorded, Idle
<1> QED
  BY <1>1, ManagerInvariant, PTL

\* A record never runs ahead of the file.
THEOREM RecordedAlwaysWritten == Spec => []RecordedIsWritten
<1>1. ManagerInv => RecordedIsWritten
  BY DEF ManagerInv
<1> QED
  BY <1>1, ManagerInvariant, PTL

\* A manager that seeds has recorded and written every piece.
THEOREM SeedingOnlyWhenComplete == Spec => []SeedingIsComplete
<1>1. ManagerInv => SeedingIsComplete
  <2> SUFFICES ASSUME ManagerInv, torrent_state = "Seeding"
               PROVE  /\ RecordedPieces = Piece /\ WrittenPieces = Piece
                      /\ download_queue = <<>>
    BY DEF SeedingIsComplete
  <2>1. have = db /\ AllHad(have) /\ Running /\ have # <<>>
    BY DEF ManagerInv, StateInv, Running
  <2>2. have \in [Piece -> BOOLEAN]
    BY <2>1 DEF ManagerInv, SelectorInv, SelectorTypeOK
  <2>3. RecordedPieces = Piece
    BY <2>1, <2>2 DEF RecordedPieces, AllHad
  <2>4. WrittenPieces = Piece
    BY <2>3
    DEF ManagerInv, TypeOK, RecordedIsWritten, WrittenPieces, FileChunk
  <2>5. QueuedPieces = {}
    <3> SUFFICES ASSUME NEW i \in QueuedPieces PROVE FALSE
      OBVIOUS
    <3>1. Wanted(i)
      BY <2>1 DEF ManagerInv, QueueInv
    <3> QED
      BY <2>1, <3>1 DEF Wanted, AllHad
  <2>6. download_queue = <<>>
    <3>1. download_queue \in Seq(PieceState)
      BY DEF ManagerInv, TypeOK
    <3>2. DOMAIN download_queue = {}
      BY <2>5 DEF QueuedPieces
    <3>3. Len(download_queue) = 0
      BY <3>1, <3>2
    <3> QED
      BY <3>1, <3>3
  <2> QED
    BY <2>3, <2>4, <2>6
<1> QED
  BY <1>1, ManagerInvariant, PTL

-----------------------------------------------------------------------------
(* The manager implements Download *)

PromisedStep == [Promised!DownloadNext]_(Promised!downloadVars)

LEMMA StutterPromised ==
  ASSUME UNCHANGED <<db, file>>
  PROVE  PromisedStep
BY DEF PromisedStep, Promised!downloadVars, Copies, RecordedPieces

\* The record is created: nothing was recorded before.
LEMMA MetadataPromised ==
  ASSUME ManagerInv, Running, torrent_state = "WaitingForMetadata",
         db' \in {db, EmptyBitfield}, UNCHANGED file
  PROVE  PromisedStep
<1>1. db = <<>>
  BY DEF ManagerInv, StateInv
<1>2. EmptyBitfield # <<>>
  BY SelectorAssumption DEF EmptyBitfield, Piece
<1>3. CASE db' = EmptyBitfield
  <2>1. RecordedPieces = {} /\ RecordedPieces' = {}
    BY <1>1, <1>3 DEF RecordedPieces, EmptyBitfield
  <2>2. Copies' = Copies
    BY DEF Copies, CopiesIn
  <2>3. Promised!LearnMetadata
    BY <1>1, <1>2, <1>3, <2>1, <2>2 DEF Promised!LearnMetadata
  <2> QED
    BY <2>3 DEF PromisedStep, Promised!DownloadNext
<1> QED
  BY <1>3, StutterPromised

LEMMA GotBlockPromised ==
  ASSUME ManagerInv, NEW i \in Piece, NEW b, NEW answer,
         IsAnswer(b, answer), GotBlock(i, b, answer)
  PROVE  PromisedStep
<1>1. PICK j \in DOMAIN download_queue :
        /\ IsFirstOf(i, j)
        /\ LET queue == WithAnswer(download_queue, j, b, answer) IN
           \/ UNCHANGED <<db, file>>
           \/ HandlePiece(i, queue[j])
  BY DEF GotBlock
<1>2. UNCHANGED <<db, file>> \/ (WritePieceToFile(i) /\ UNCHANGED db)
  BY <1>1 DEF HandlePiece
<1>3. Running /\ torrent_state = "Downloading"
  BY DEF GotBlock, Idle
<1>4. i \notin RecordedPieces /\ db # <<>>
  <2>1. Wanted(i) /\ have = db /\ have # <<>>
    BY <1>1, <1>3 DEF IsFirstOf, ManagerInv, QueueInv, QueuedPieces, StateInv
  <2> QED
    BY <2>1 DEF Wanted, RecordedPieces
<1>5. file \in Seq(FileChunk) /\ Partial \in FileChunk /\ i \in FileChunk
  BY DEF ManagerInv, TypeOK, FileChunk
<1>6. CASE file' = Append(file, i) /\ UNCHANGED db
  <2>1. Copies' = [Copies EXCEPT ![i] = @ + 1]
    BY <1>5, <1>6, AppendCopies DEF Copies
  <2>2. Promised!WritePiece(i)
    BY <1>4, <1>6, <2>1 DEF Promised!WritePiece, RecordedPieces
  <2> QED
    BY <2>2 DEF PromisedStep, Promised!DownloadNext
<1>7. CASE file' = Append(file, Partial) /\ UNCHANGED db
  <2>1. Copies' = Copies
    <3>1. Partial \notin Piece
      BY DEF Partial, Piece
    <3> QED
      BY <1>5, <1>7, <3>1, AppendCopies DEF Copies
  <2> QED
    BY <1>7, <2>1 DEF PromisedStep, Promised!downloadVars, RecordedPieces
<1> QED
  BY <1>2, <1>6, <1>7, StutterPromised DEF WritePieceToFile

LEMMA BitfieldUpdatedPromised ==
  ASSUME ManagerInv, BitfieldUpdated
  PROVE  PromisedStep
<1>1. /\ saving \in DOMAIN have /\ ~have[saving] /\ saving \in WrittenPieces
      /\ have = db /\ have \in [Piece -> BOOLEAN] /\ saving \in Piece
  BY DEF BitfieldUpdated, ManagerInv, SavingInv, SelectorInv, SelectorTypeOK
<1>2. db' = [db EXCEPT ![saving] = TRUE] /\ UNCHANGED file
  BY <1>1 DEF BitfieldUpdated, NewBitfield
<1>3. db # <<>> /\ db' # <<>>
  BY <1>1, <1>2
<1>4. RecordedPieces' = RecordedPieces \cup {saving} /\ saving \notin RecordedPieces
  BY <1>1, <1>2 DEF RecordedPieces
<1>5. Copies[saving] > 0 /\ Copies' = Copies
  <2> DEFINE places == { j \in DOMAIN file : file[j] = saving }
  <2>1. IsFiniteSet(places) /\ places # {}
    BY <1>1, PlacesAreFinite DEF WrittenPieces, ManagerInv, TypeOK
  <2>2. Cardinality(places) \in Nat /\ Cardinality(places) # 0
    BY <2>1, FS_CardinalityType, FS_EmptySet
  <2> QED
    BY <1>1, <1>2, <2>2 DEF Copies, CopiesIn
<1>6. Promised!RecordPiece(saving)
  BY <1>1, <1>2, <1>3, <1>4, <1>5 DEF Promised!RecordPiece
<1> QED
  BY <1>1, <1>6 DEF PromisedStep, Promised!DownloadNext

LEMMA NextPromised ==
  ASSUME ManagerInv, [Next]_vars
  PROVE  PromisedStep
<1>1. CASE UNCHANGED vars
  BY <1>1, StutterPromised DEF vars, managerVars
<1>2. ASSUME NEW id, \/ NewConnection(id)
                     \/ PeerDisconnected(id)
                     \/ \E bitfield : PeerBitfield(id, bitfield)
                     \/ \E i : PeerHas(id, i)
                     \/ \E n : NeedBlockQueue(id, n)
      PROVE  PromisedStep
  BY <1>2, StutterPromised
  DEF NewConnection, PeerDisconnected, PeerBitfield, PeerHas, NeedBlockQueue,
      managerVars
<1>3. ASSUME NEW i \in Piece, NEW b \in 1..NBlocks[i], NEW last \in b..NBlocks[i],
             NEW answer \in [b..last -> BlockData], GotBlock(i, b, answer)
      PROVE  PromisedStep
  BY <1>3, AnswerSent, GotBlockPromised
<1>4. CASE BitfieldUpdated
  BY <1>4, BitfieldUpdatedPromised
<1>5. CASE GotMetadata
  BY <1>5, MetadataPromised DEF GotMetadata, Idle
<1>6. CASE GotMetadataFails
  BY <1>6, MetadataPromised DEF GotMetadataFails, Stop
<1>7. CASE \E j, b : RequestTimesOut(j, b)
  BY <1>7, StutterPromised DEF RequestTimesOut
<1>8. CASE ManagerStops \/ Restart
  BY <1>8, StutterPromised DEF ManagerStops, Stop, Restart
<1> QED
  BY <1>1, <1>2, <1>3, <1>4, <1>5, <1>6, <1>7, <1>8 DEF Next

\* Whatever the failures, crashes and restarts, the file and the record behave
\* as Download promises.
THEOREM ManagerImplementsDownload == Spec => ImplementsDownload
<1>1. Init => Promised!DownloadInit
  <2>1. ASSUME Init
        PROVE  Copies = [i \in Piece |-> 0]
    <3>1. { j \in DOMAIN file : file[j] = 1 } = {} /\ DOMAIN file = {}
      BY <2>1 DEF Init
    <3>2. \A i : { j \in DOMAIN file : file[j] = i } = {}
      BY <3>1
    <3> QED
      BY <3>2, FS_EmptySet DEF Copies, CopiesIn
  <2> QED
    BY <2>1 DEF Init, Promised!DownloadInit, RecordedPieces, EmptyBitfield
<1>2. ManagerInv /\ [Next]_vars => [Promised!DownloadNext]_(Promised!downloadVars)
  BY NextPromised DEF PromisedStep
<1> QED
  BY <1>1, <1>2, ManagerInvariant, PTL
  DEF Spec, ImplementsDownload, Promised!DownloadSpec

-----------------------------------------------------------------------------
(* No piece is forgotten: a piece in flight that is not had is still in      *)
(* somebody's hands; what is queued has a block to come; a missing piece     *)
(* that is not in flight has an entry of its current rarity, as long as only *)
(* peers ask that have every piece; and no holder is lost from the rarity.   *)

\* The peers ask once they sent a bitfield, and it is that of a seeder.
SeedersAsk ==
  /\ AskingEarly = {}
  /\ \A id \in PeerId : \A bitfield \in BitfieldsOf[id] :
       \A i \in Piece : HasPiece(bitfield, i)

HandedOutIsKept ==
  Running =>
    \A i \in DOMAIN have :
      pieces_in_flight[i] =>
        have[i] \/ i \in QueuedPieces \/ saving = i \/ i \in announced

MissingHasEntry ==
  \A i \in DOMAIN have :
    ~have[i] /\ ~pieces_in_flight[i] /\ piece_rarity[i] > 0
      => <<piece_rarity[i], i>> \in priority_queue

\* The entries, by one lemma per method.
LEMMA UpdatePrioQueueEntry ==
  ASSUME SelectorTypeOK, MissingHasEntry, NEW bitfield, NEW counted,
         UpdatePrioQueue(bitfield, counted), UNCHANGED <<have, pieces_in_flight>>,
         \A i \in DOMAIN have : i \notin Touched(bitfield) => counted[i] = piece_rarity[i]
  PROVE  MissingHasEntry'
<1> SUFFICES ASSUME NEW i \in DOMAIN have, ~have[i], ~pieces_in_flight[i],
                    piece_rarity'[i] > 0
             PROVE  <<piece_rarity'[i], i>> \in priority_queue'
  BY DEF MissingHasEntry
<1>1. piece_rarity'[i] = counted[i]
  BY DEF UpdatePrioQueue
<1>2. CASE i \in Touched(bitfield)
  BY <1>1, <1>2 DEF UpdatePrioQueue
<1>3. CASE i \notin Touched(bitfield)
  BY <1>1, <1>3 DEF UpdatePrioQueue, MissingHasEntry
<1> QED
  BY <1>2, <1>3

LEMMA PeerMessageEntry ==
  ASSUME SelectorTypeOK, MissingHasEntry, NEW id,
         \/ AddPeer(id)
         \/ RemovePeer(id)
         \/ \E bitfield : AddPeerBitfield(id, bitfield)
         \/ \E i \in Piece : UpdateFromPeerHave(id, i)
  PROVE  MissingHasEntry'
<1>0. DOMAIN piece_rarity = DOMAIN have
  BY PieceDomain
<1>1. CASE UNCHANGED <<have, pieces_in_flight, piece_rarity, priority_queue>>
  BY <1>1 DEF MissingHasEntry
<1>2. ASSUME RemovePeer(id),
             UpdatePrioQueue(peer_bitfields[id], CountedDown(peer_bitfields[id]))
      PROVE  MissingHasEntry'
  <2>1. \A i \in DOMAIN have : i \notin Touched(peer_bitfields[id])
          => CountedDown(peer_bitfields[id])[i] = piece_rarity[i]
    BY <1>0 DEF CountedDown
  <2> QED
    BY <1>2, <2>1, UpdatePrioQueueEntry DEF RemovePeer
<1>3. ASSUME NEW bitfield, AddPeerBitfield(id, bitfield),
             UpdatePrioQueue(bitfield, CountedUp(bitfield))
      PROVE  MissingHasEntry'
  <2>1. \A i \in DOMAIN have :
          i \notin Touched(bitfield) => CountedUp(bitfield)[i] = piece_rarity[i]
    BY <1>0 DEF CountedUp
  <2> QED
    BY <1>3, <2>1, UpdatePrioQueueEntry DEF AddPeerBitfield
<1>4. ASSUME NEW j \in Piece, UpdateFromPeerHave(id, j), HaveIsCounted(id, j)
      PROVE  MissingHasEntry'
  <2> SUFFICES ASSUME NEW i \in DOMAIN have, ~have[i], ~pieces_in_flight[i],
                      piece_rarity'[i] > 0
               PROVE  <<piece_rarity'[i], i>> \in priority_queue'
    BY <1>4 DEF MissingHasEntry, UpdateFromPeerHave
  <2>1. /\ piece_rarity' = [piece_rarity EXCEPT ![j] = @ + 1]
        /\ priority_queue' = priority_queue \cup HaveEntries(j)
    BY <1>4 DEF UpdateFromPeerHave
  <2>2. CASE i = j
    BY <1>0, <2>1, <2>2 DEF HaveEntries
  <2>3. CASE i # j
    BY <1>0, <2>1, <2>3 DEF MissingHasEntry
  <2> QED
    BY <2>2, <2>3
<1> QED
  BY <1>1, <1>2, <1>3, <1>4 DEF AddPeer, RemovePeer, AddPeerBitfield, UpdateFromPeerHave

LEMMA UpdateFromSelfHaveEntry ==
  ASSUME SelectorTypeOK, NEW bitfield \in [Piece -> BOOLEAN],
         UpdateFromSelfHave(bitfield)
  PROVE  MissingHasEntry'
<1> DEFINE count(i) == Cardinality(Holders(i))
<1>1. \A i : count(i) \in Nat
  BY HoldersAreFinite
<1>2. /\ have' = bitfield
      /\ \A i \in Piece : ~bitfield[i] => piece_rarity'[i] = 2 * count(i)
      /\ \A i \in Piece : ~bitfield[i] =>
           ((count(i) + 1)..(2 * count(i))) \X {i} \subseteq priority_queue'
  BY DEF UpdateFromSelfHave
<1> HIDE DEF count
<1>3. ASSUME NEW i \in Piece, ~bitfield[i], piece_rarity'[i] > 0
      PROVE  <<piece_rarity'[i], i>> \in priority_queue'
  <2>1. 2 * count(i) \in (count(i) + 1)..(2 * count(i))
    BY <1>1, <1>2, <1>3
  <2> QED
    BY <1>2, <1>3, <2>1
<1> QED
  BY <1>2, <1>3 DEF MissingHasEntry

\* Popping for a peer that has every piece drops only what is out of date or
\* in flight.
LEMMA TakePiecesEntry ==
  ASSUME SelectorInv, MissingHasEntry, NEW id, NEW k, TakePieces(id, k),
         \A i \in DOMAIN have : HasPiece(peer_bitfields[id], i)
  PROVE  MissingHasEntry'
<1>1. UNCHANGED <<have, piece_rarity>>
  BY DEF TakePieces
<1> SUFFICES ASSUME NEW i \in DOMAIN have, ~have[i], ~pieces_in_flight'[i],
                    piece_rarity[i] > 0
             PROVE  <<piece_rarity[i], i>> \in priority_queue'
  BY <1>1 DEF MissingHasEntry
<1> DEFINE e == <<piece_rarity[i], i>>
<1>2. ~pieces_in_flight[i] /\ i \notin Selected(id, k)
  BY PieceDomain DEF TakePieces, SelectorInv
<1>3. e \in priority_queue
  BY <1>2 DEF MissingHasEntry
<1>4. e \in UsableEntries(id)
  BY <1>2, <1>3 DEF UsableEntries, Usable
<1>5. e \notin Popped(id, k)
  BY <1>2, <1>4 DEF Selected
<1> QED
  BY <1>3, <1>5 DEF TakePieces

\* A selection queues every piece that it marks as in flight.
LEMMA OrderCovers ==
  ASSUME SelectorInv, NEW id, NEW k, TakePieces(id, k),
         NEW order \in PoppingOrders(Popped(id, k) \cap UsableEntries(id))
  PROVE  \A i \in Selected(id, k) : \E j \in DOMAIN order : order[j][2] = i
<1> DEFINE entries == Popped(id, k) \cap UsableEntries(id)
<1>1. IsFiniteSet(entries)
  BY FS_Subset DEF UsableEntries, SelectorInv
<1> DEFINE m == Cardinality(entries)
<1>2. m \in Nat
  BY <1>1, FS_CardinalityType
<1>3. order \in [1..m -> entries]
  BY DEF PoppingOrders
<1>4. \A j, l \in DOMAIN order : order[j][2] = order[l][2] => j = l
  BY OrderType
<1>5. Selected(id, k) = { e[2] : e \in entries }
  BY DEF Selected
<1> HIDE DEF m, entries
<1>6. order \in Injection(1..m, entries)
  <2>1. \A j, l \in 1..m : order[j] = order[l] => j = l
    BY <1>3, <1>4
  <2> QED
    BY <1>3, <2>1, Fun_IsInj
<1>7. order \in Surjection(1..m, entries)
  <2>1. IsFiniteSet(1..m) /\ Cardinality(1..m) = m
    BY <1>2, FS_Interval
  <2>2. Cardinality(1..m) = Cardinality(entries) <=> order \in Surjection(1..m, entries)
    BY <1>1, <1>6, FS_Injection
  <2> QED
    BY <2>1, <2>2 DEF m
<1>8. \A e \in entries : \E j \in 1..m : order[j] = e
  BY <1>7 DEF Surjection
<1> QED
  BY <1>3, <1>5, <1>8

LEMMA QueueGrows ==
  ASSUME ManagerInv, NEW id, NEW k, NEW n, TakePieces(id, k),
         \E order \in PoppingOrders(Popped(id, k) \cap UsableEntries(id)) :
           download_queue' = WithRequests(id,
             download_queue \o
               [j \in DOMAIN order |-> NewPieceState(order[j][2])], n)
  PROVE  /\ QueuedPieces \subseteq QueuedPieces'
         /\ Selected(id, k) \subseteq QueuedPieces'
<1>0. PICK order \in PoppingOrders(Popped(id, k) \cap UsableEntries(id)) :
             download_queue' = WithRequests(id,
               download_queue \o
                 [j \in DOMAIN order |-> NewPieceState(order[j][2])], n)
  OBVIOUS
<1> DEFINE new == [j \in DOMAIN order |-> NewPieceState(order[j][2])]
           queue == download_queue \o new
<1>1. SelectorInv /\ download_queue \in Seq(PieceState)
  BY DEF ManagerInv, TypeOK
<1>2. PICK m \in Nat : DOMAIN order = 1..m
  BY <1>1, OrderType
<1>3. \A j \in 1..m : order[j][2] \in Piece
  BY <1>1, <1>2, OrderType, PieceDomain DEF SelectorInv
<1>4. \A j \in 1..m : new[j] \in PieceState /\ new[j].piece_i = order[j][2]
  BY <1>2, <1>3, NewPieceStateType
<1>5. new \in Seq(PieceState) /\ Len(new) = m
  <2>1. new \in [1..m -> PieceState]
    BY <1>2, <1>4
  <2> QED
    BY <2>1, SeqOf
<1> HIDE DEF new
<1>6. /\ queue \in Seq(PieceState)
      /\ DOMAIN queue = 1..(Len(download_queue) + m)
      /\ \A j \in 1..Len(download_queue) : queue[j] = download_queue[j]
      /\ \A j \in 1..(Len(download_queue) + m) :
           j > Len(download_queue) => queue[j] = new[j - Len(download_queue)]
  BY <1>1, <1>5
<1> HIDE DEF queue
<1>7. /\ DOMAIN download_queue' = 1..(Len(download_queue) + m)
      /\ \A j \in 1..(Len(download_queue) + m) :
           download_queue'[j].piece_i = queue[j].piece_i
  <2>1. download_queue' = WithRequests(id, queue, n)
    BY <1>0 DEF new, queue
  <2> QED
    BY ONLY <1>6, <2>1, WithRequestsType
<1>8. DOMAIN download_queue = 1..Len(download_queue) /\ Len(download_queue) \in Nat
  BY <1>1
<1>9. QueuedPieces \subseteq QueuedPieces'
  <2> SUFFICES ASSUME NEW j \in 1..Len(download_queue)
               PROVE  download_queue[j].piece_i \in QueuedPieces'
    BY <1>8 DEF QueuedPieces
  <2>1. j \in 1..(Len(download_queue) + m) /\ queue[j] = download_queue[j]
    BY <1>6, <1>8
  <2>2. j \in DOMAIN download_queue' /\ download_queue'[j].piece_i = download_queue[j].piece_i
    BY <1>7, <2>1
  <2> QED
    BY <2>2 DEF QueuedPieces
<1>10. ASSUME NEW i \in Selected(id, k) PROVE i \in QueuedPieces'
  <2>1. PICK j \in 1..m : order[j][2] = i
    BY <1>1, <1>2, OrderCovers
  <2>2. PICK l : l = Len(download_queue) + j
    OBVIOUS
  <2>3. l \in 1..(Len(download_queue) + m) /\ queue[l] = new[j]
    <3>1. /\ l \in 1..(Len(download_queue) + m) /\ l > Len(download_queue)
          /\ l - Len(download_queue) = j
      BY <1>8, <2>2
    <3> QED
      BY <1>6, <3>1
  <2>4. l \in DOMAIN download_queue' /\ download_queue'[l].piece_i = new[j].piece_i
    BY <1>7, <2>3
  <2>5. new[j].piece_i = i
    BY <1>4, <2>1
  <2> QED
    BY <2>4, <2>5 DEF QueuedPieces
<1> QED
  BY <1>9, <1>10

\* Pieces in flight, by one lemma per handler.
LEMMA NeedBlockQueueKept ==
  ASSUME ManagerInv, HandedOutIsKept, NEW id, NEW n, NeedBlockQueue(id, n)
  PROVE  HandedOutIsKept'
<1>1. PICK k : /\ TakePieces(id, k)
               /\ \E order \in PoppingOrders(Popped(id, k) \cap UsableEntries(id)) :
                    download_queue' = WithRequests(id,
                      download_queue \o
                        [j \in DOMAIN order |-> NewPieceState(order[j][2])], n)
  BY DEF NeedBlockQueue, PrepareNextBlocks
<1>2. /\ QueuedPieces \subseteq QueuedPieces'
      /\ Selected(id, k) \subseteq QueuedPieces'
  BY <1>1, QueueGrows
<1>3. \A i \in DOMAIN have :
        pieces_in_flight'[i] => pieces_in_flight[i] \/ i \in Selected(id, k)
  BY <1>1, PieceDomain DEF TakePieces, ManagerInv, SelectorInv
<1> QED
  BY <1>1, <1>2, <1>3
  DEF HandedOutIsKept, NeedBlockQueue, TakePieces, Running, Idle

LEMMA GotBlockKept ==
  ASSUME ManagerInv, HandedOutIsKept, NEW i \in Piece, NEW b, NEW answer,
         IsAnswer(b, answer), GotBlock(i, b, answer)
  PROVE  HandedOutIsKept'
<1>1. PICK j \in DOMAIN download_queue :
        /\ IsFirstOf(i, j)
        /\ LET queue == WithAnswer(download_queue, j, b, answer) IN
           \/ /\ ~IsComplete(queue[j])
              /\ download_queue' = queue
              /\ UNCHANGED <<selectorVars, torrent_state, saving, file, db,
                             announced, failures>>
           \/ /\ IsComplete(queue[j])
              /\ download_queue' = SwapRemove(queue, j)
              /\ HandlePiece(i, queue[j])
  BY DEF GotBlock
<1> DEFINE queue == WithAnswer(download_queue, j, b, answer)
<1>2. /\ queue \in Seq(PieceState)
      /\ DOMAIN queue = DOMAIN download_queue
      /\ \A l \in DOMAIN download_queue : queue[l].piece_i = download_queue[l].piece_i
  BY WithAnswerType DEF ManagerInv, TypeOK
<1>3. /\ \/ /\ download_queue' = queue
            /\ UNCHANGED <<selectorVars, torrent_state, saving, announced>>
         \/ /\ download_queue' = SwapRemove(queue, j)
            /\ HandlePiece(i, queue[j])
      /\ download_queue[j].piece_i = i
  BY <1>1 DEF IsFirstOf
<1> HIDE DEF queue
<1>4. Running /\ saving = NoPiece
  BY DEF GotBlock, Idle
<1>5. UNCHANGED <<have, pieces_in_flight>>
  BY <1>3 DEF HandlePiece, selectorVars
<1>6. CASE /\ download_queue' = queue
           /\ UNCHANGED <<selectorVars, torrent_state, saving, announced>>
  <2>1. QueuedPieces' = QueuedPieces
    BY <1>2, <1>6 DEF QueuedPieces
  <2> QED
    BY <1>4, <1>5, <1>6, <2>1 DEF HandedOutIsKept
<1>7. CASE download_queue' = SwapRemove(queue, j) /\ HandlePiece(i, queue[j])
  <2>1. QueuedPieces \ {i} \subseteq QueuedPieces'
    <3>1. queue \in Seq(PieceState) /\ j \in DOMAIN queue
      BY <1>2
    <3>2. DOMAIN queue = 1..Len(queue) /\ Len(queue) \in Nat
      BY <3>1
    <3>3. /\ DOMAIN download_queue' = 1..(Len(queue) - 1)
          /\ \A l \in 1..(Len(queue) - 1) :
               download_queue'[l] = IF l = j THEN queue[Len(queue)] ELSE queue[l]
      BY <1>7, <3>1, SwapRemoveType
    <3>4. ASSUME NEW l \in DOMAIN queue, l # j
          PROVE  \E a \in DOMAIN download_queue' : download_queue'[a] = queue[l]
      <4>1. CASE l = Len(queue)
        <5>1. j \in 1..(Len(queue) - 1) /\ download_queue'[j] = queue[l]
          BY <3>1, <3>2, <3>3, <3>4, <4>1
        <5> QED
          BY <3>3, <5>1
      <4>2. CASE l # Len(queue)
        <5>1. l \in 1..(Len(queue) - 1) /\ download_queue'[l] = queue[l]
          BY <3>2, <3>3, <3>4, <4>2
        <5> QED
          BY <3>3, <5>1
      <4> QED
        BY <4>1, <4>2
    <3> SUFFICES ASSUME NEW l \in DOMAIN download_queue, download_queue[l].piece_i # i
                 PROVE  download_queue[l].piece_i \in QueuedPieces'
      BY DEF QueuedPieces
    <3>5. l # j /\ l \in DOMAIN queue /\ queue[l].piece_i = download_queue[l].piece_i
      BY <1>2, <1>3
    <3>6. PICK a \in DOMAIN download_queue' : download_queue'[a] = queue[l]
      BY <3>4, <3>5
    <3> QED
      BY <3>5, <3>6 DEF QueuedPieces
  <2>2. NoPiece \notin Piece /\ DOMAIN have \subseteq Piece
    BY PieceDomain DEF NoPiece, Piece, ManagerInv, SelectorInv
  <2>3. CASE FinishPiece(i) /\ UNCHANGED saving
    BY <1>4, <1>5, <2>1, <2>3 DEF HandedOutIsKept, FinishPiece
  <2>4. CASE saving' = i /\ UNCHANGED <<announced, torrent_state>>
    BY <1>4, <1>5, <2>1, <2>2, <2>4 DEF HandedOutIsKept
  <2>5. CASE torrent_state' = "Stopped"
    BY <2>5 DEF HandedOutIsKept, Running
  <2> QED
    BY <1>7, <2>3, <2>4, <2>5 DEF HandlePiece, WritePieceToFile
<1> QED
  BY <1>3, <1>6, <1>7

LEMMA BitfieldUpdatedKept ==
  ASSUME ManagerInv, HandedOutIsKept, BitfieldUpdated
  PROVE  HandedOutIsKept'
<1>1. /\ Running /\ saving \in DOMAIN have
      /\ have' = [have EXCEPT ![saving] = TRUE]
      /\ UNCHANGED <<pieces_in_flight, download_queue>>
      /\ announced \subseteq announced'
  BY DEF BitfieldUpdated, PieceStored, FinishPiece, ManagerInv, SavingInv
<1>2. QueuedPieces' = QueuedPieces
  BY <1>1 DEF QueuedPieces
<1> QED
  BY <1>1, <1>2 DEF HandedOutIsKept

LEMMA NextKept ==
  ASSUME ManagerInv, HandedOutIsKept, [Next]_vars
  PROVE  HandedOutIsKept'
<1>1. CASE UNCHANGED <<have, pieces_in_flight, managerVars>>
  <2>1. QueuedPieces' = QueuedPieces
    BY <1>1 DEF managerVars, QueuedPieces
  <2> QED
    BY <1>1, <2>1 DEF managerVars, HandedOutIsKept, Running
<1>2. ASSUME NEW id \in PeerId,
             \/ NewConnection(id)
             \/ PeerDisconnected(id)
             \/ \E bitfield : PeerBitfield(id, bitfield)
             \/ \E i \in Piece : PeerHas(id, i)
      PROVE  UNCHANGED <<have, pieces_in_flight, managerVars>>
  BY <1>2
  DEF NewConnection, PeerDisconnected, PeerBitfield, PeerHas, AddPeer, RemovePeer,
      AddPeerBitfield, UpdateFromPeerHave
<1>3. ASSUME NEW j \in DOMAIN download_queue, NEW b, RequestTimesOut(j, b)
      PROVE  HandedOutIsKept'
  <2>1. download_queue \in Seq(PieceState) /\ "TimedOut" \in BlockState
    BY DEF ManagerInv, TypeOK, BlockState, NotRequested
  <2>2. QueuedPieces' = QueuedPieces
    BY <1>3, <2>1, WithBlockType DEF RequestTimesOut, QueuedPieces
  <2> QED
    BY <1>3, <2>2 DEF RequestTimesOut, HandedOutIsKept, Running, selectorVars
<1>4. CASE Stop
  BY <1>4 DEF Stop, HandedOutIsKept, Running
<1>5. CASE Restart
  <2>1. \A i \in DOMAIN have' : ~pieces_in_flight'[i]
    BY <1>5 DEF Restart, RestartSelector
  <2> QED
    BY <2>1 DEF HandedOutIsKept
<1>6. CASE GotMetadata
  <2>1. DOMAIN pieces_in_flight = {}
    BY <1>6, PieceDomain DEF GotMetadata, ManagerInv, StateInv, SelectorInv
  <2>2. /\ have' = EmptyBitfield
        /\ pieces_in_flight' = [i \in DOMAIN EmptyBitfield |-> HasPiece(pieces_in_flight, i)]
    BY <1>6 DEF GotMetadata, UpdateFromSelfHave, Resized
  <2>3. \A i \in DOMAIN have' : ~pieces_in_flight'[i]
    BY <2>1, <2>2 DEF HasPiece
  <2> QED
    BY <2>3 DEF HandedOutIsKept
<1> QED
  BY <1>1, <1>2, <1>3, <1>4, <1>5, <1>6, NeedBlockQueueKept, AnswerSent,
     GotBlockKept, BitfieldUpdatedKept, ManagerAssumption
  DEF Next, vars, selectorVars, GotMetadataFails, ManagerStops

\* Whatever is marked as in flight and not yet had is queued, being saved, or
\* was thrown away for its hash: select_pieces_for_peer's flags and
\* prepare_next_blocks' queue never come apart.
THEOREM HandedOutAlwaysKept == Spec => []HandedOutIsKept
<1>1. Init => HandedOutIsKept
  BY DEF Init, NewSelector, HandedOutIsKept
<1>2. ManagerInv /\ HandedOutIsKept /\ [Next]_vars => HandedOutIsKept'
  BY NextKept
<1> QED
  BY <1>1, <1>2, ManagerInvariant, PTL DEF Spec

-----------------------------------------------------------------------------
(* The length of the file *)

LEMMA RecordedIsFinite ==
  ASSUME TypeOK
  PROVE  /\ IsFiniteSet(RecordedPieces) /\ RecordedPieces \subseteq Piece
         /\ Cardinality(RecordedPieces) \in Nat
<1>1. RecordedPieces \subseteq Piece
  BY DEF RecordedPieces, TypeOK
<1>2. IsFiniteSet(Piece)
  BY SelectorAssumption, FS_Interval DEF Piece
<1> QED
  BY <1>1, <1>2, FS_Subset, FS_CardinalityType

SavingCounted == Cardinality({saving} \ {NoPiece})

LEMMA SavingCount ==
  SavingCounted = IF saving = NoPiece THEN 0 ELSE 1
<1>1. CASE saving = NoPiece
  <2>1. {saving} \ {NoPiece} = {}
    BY <1>1
  <2> QED
    BY <1>1, <2>1, FS_EmptySet DEF SavingCounted
<1>2. CASE saving # NoPiece
  <2>1. {saving} \ {NoPiece} = {saving}
    BY <1>2
  <2> QED
    BY <1>2, <2>1, FS_Singleton DEF SavingCounted
<1> QED
  BY <1>1, <1>2

LEMMA SavingCountNext ==
  SavingCounted' = IF saving' = NoPiece THEN 0 ELSE 1
<1>1. CASE saving' = NoPiece
  <2>1. {saving'} \ {NoPiece} = {}
    BY <1>1
  <2> QED
    BY <1>1, <2>1, FS_EmptySet DEF SavingCounted
<1>2. CASE saving' # NoPiece
  <2>1. {saving'} \ {NoPiece} = {saving'}
    BY <1>2
  <2> QED
    BY <1>2, <2>1, FS_Singleton DEF SavingCounted
<1> QED
  BY <1>1, <1>2

\* The record of a download that has none holds nothing.
LEMMA NewRecordIsEmpty ==
  ASSUME ManagerInv, Running, torrent_state = "WaitingForMetadata",
         db' \in {db, EmptyBitfield}
  PROVE  RecordedPieces' = RecordedPieces
<1>1. db = <<>>
  BY DEF ManagerInv, StateInv
<1> QED
  BY <1>1 DEF RecordedPieces, EmptyBitfield

LEMMA NextWastes ==
  ASSUME ManagerInv, OnlyFailuresWaste, [Next]_vars
  PROVE  OnlyFailuresWaste'
<1>1. /\ IsFiniteSet(RecordedPieces) /\ Cardinality(RecordedPieces) \in Nat
      /\ file \in Seq(FileChunk) /\ Len(file) \in Nat /\ failures \in Nat
  BY RecordedIsFinite DEF ManagerInv, TypeOK
<1>2. /\ Len(file) <= Cardinality(RecordedPieces) + SavingCounted + failures
      /\ SavingCounted = IF saving = NoPiece THEN 0 ELSE 1
      /\ SavingCounted' = IF saving' = NoPiece THEN 0 ELSE 1
  BY SavingCount, SavingCountNext DEF OnlyFailuresWaste, SavingCounted
<1> SUFFICES Len(file') <= Cardinality(RecordedPieces') + SavingCounted' + failures'
  BY DEF OnlyFailuresWaste, SavingCounted
<1>3. CASE UNCHANGED <<file, db, saving, failures>>
  BY <1>1, <1>2, <1>3 DEF RecordedPieces
<1>4. ASSUME NEW i \in Piece, NEW b, NEW answer, GotBlock(i, b, answer)
      PROVE  \/ UNCHANGED <<file, db, saving, failures>>
             \/ WritePieceToFile(i) /\ UNCHANGED db /\ saving = NoPiece
  BY <1>4 DEF GotBlock, HandlePiece, Idle
<1>5. ASSUME NEW i \in Piece, WritePieceToFile(i), UNCHANGED db, saving = NoPiece
      PROVE  Len(file') <= Cardinality(RecordedPieces') + SavingCounted' + failures'
  <2>1. i \in FileChunk /\ Partial \in FileChunk /\ i # NoPiece
    BY SelectorAssumption DEF FileChunk, Piece, NoPiece
  <2>2. /\ Len(Append(file, i)) = Len(file) + 1
        /\ Len(Append(file, Partial)) = Len(file) + 1
    BY <1>1
  <2>3. RecordedPieces' = RecordedPieces
    BY <1>5 DEF RecordedPieces
  <2>4. CASE file' = Append(file, i) /\ saving' = i /\ UNCHANGED failures
    BY <1>1, <1>2, <1>5, <2>1, <2>2, <2>3, <2>4
  <2>5. CASE failures' = failures + 1 /\ file' \in {file, Append(file, Partial)} /\ UNCHANGED saving
    BY <1>1, <1>2, <1>5, <2>2, <2>3, <2>5
  <2> QED
    BY <1>5, <2>4, <2>5 DEF WritePieceToFile
<1>6. CASE BitfieldUpdated
  <2>1. saving # NoPiece /\ have = db /\ saving \in DOMAIN have /\ ~have[saving]
    BY <1>6 DEF BitfieldUpdated, ManagerInv, SavingInv
  <2>2. /\ db' = [db EXCEPT ![saving] = TRUE]
        /\ saving' = NoPiece /\ UNCHANGED <<file, failures>>
    BY <1>6, <2>1 DEF BitfieldUpdated, NewBitfield
  <2>3. RecordedPieces' = RecordedPieces \cup {saving} /\ saving \notin RecordedPieces
    BY <2>1, <2>2 DEF RecordedPieces
  <2>4. Cardinality(RecordedPieces') = Cardinality(RecordedPieces) + 1
    BY <1>1, <2>3, FS_AddElement
  <2> QED
    BY <1>1, <1>2, <2>1, <2>2, <2>4
<1>7. CASE GotMetadata
  BY <1>1, <1>2, <1>7, NewRecordIsEmpty DEF GotMetadata, Idle
<1>8. CASE Stop /\ RecordedPieces' = RecordedPieces
  BY <1>1, <1>2, <1>8 DEF Stop
<1>9. CASE GotMetadataFails
  BY <1>8, <1>9, NewRecordIsEmpty DEF GotMetadataFails, Stop
<1>10. CASE ManagerStops
  BY <1>8, <1>10 DEF ManagerStops, RecordedPieces
<1>11. CASE Restart
  <2>1. saving = NoPiece /\ saving' = NoPiece /\ UNCHANGED <<file, db, failures>>
    BY <1>11 DEF Restart, Running, ManagerInv, SavingInv
  <2> QED
    BY <1>3, <2>1
<1>12. CASE \E i \in Piece : \E b \in 1..NBlocks[i] : \E last \in b..NBlocks[i] :
              \E answer \in [b..last -> BlockData] : GotBlock(i, b, answer)
  BY <1>3, <1>4, <1>5, <1>12
<1> QED
  BY <1>3, <1>6, <1>7, <1>9, <1>10, <1>11, <1>12
  DEF Next, vars, managerVars, NewConnection, PeerDisconnected, PeerBitfield, PeerHas,
      NeedBlockQueue, RequestTimesOut

\* The program appends to its file, so a second copy of a piece would stay in it:
\* over timeouts, duplicated answers and wrong hashes it never appends one,
\* unless a write or the record failed or the process died in between.
THEOREM OnlyFailuresEverWaste == Spec => []OnlyFailuresWaste
<1>1. Init => OnlyFailuresWaste
  <2> SUFFICES ASSUME Init PROVE OnlyFailuresWaste
    OBVIOUS
  <2>1. TypeOK /\ Len(file) = 0 /\ failures = 0 /\ saving = NoPiece
    BY InitInv DEF ManagerInv, Init
  <2>2. Cardinality(RecordedPieces) \in Nat /\ SavingCounted = 0
    BY <2>1, RecordedIsFinite, SavingCount
  <2> QED
    BY <2>1, <2>2 DEF OnlyFailuresWaste, SavingCounted
<1>2. ManagerInv /\ OnlyFailuresWaste /\ [Next]_vars => OnlyFailuresWaste'
  BY NextWastes
<1> QED
  BY <1>1, <1>2, ManagerInvariant, PTL DEF Spec

\* A manager that seeds, and had no failure since its download began, has each
\* piece in its file exactly once, in whatever order they were appended.
SeedingIsExact ==
  torrent_state = "Seeding" /\ failures = 0 =>
    Len(file) = NPieces /\ \A i \in Piece : CopiesIn(file, i) = 1

THEOREM SeedingWithoutFailureIsExact == Spec => []SeedingIsExact
<1>1. ManagerInv /\ SeedingIsComplete /\ OnlyFailuresWaste => SeedingIsExact
  <2> SUFFICES ASSUME ManagerInv, SeedingIsComplete, OnlyFailuresWaste,
                      torrent_state = "Seeding", failures = 0
               PROVE  Len(file) = NPieces /\ \A i \in Piece : CopiesIn(file, i) = 1
    BY DEF SeedingIsExact
  <2> DEFINE places == 1..Len(file)
             chunks == { file[j] : j \in DOMAIN file }
  <2>1. file \in Seq(FileChunk) /\ DOMAIN file = places /\ Len(file) \in Nat
    BY DEF ManagerInv, TypeOK
  <2>2. IsFiniteSet(places) /\ Cardinality(places) = Len(file)
    BY <2>1, FS_Interval
  <2>3. IsFiniteSet(Piece) /\ Cardinality(Piece) = NPieces
    BY SelectorAssumption, FS_Interval DEF Piece
  <2>4. saving = NoPiece /\ RecordedPieces = Piece /\ Piece \subseteq chunks
    BY DEF ManagerInv, SavingInv, SeedingIsComplete, WrittenPieces
  <2>5. Len(file) <= NPieces
    BY <2>1, <2>3, <2>4, SavingCount, SelectorAssumption DEF OnlyFailuresWaste, SavingCounted
  <2>6. file \in Surjection(places, chunks)
    BY <2>1 DEF Surjection
  <2> HIDE DEF places, chunks
  <2>7. /\ IsFiniteSet(chunks) /\ Cardinality(chunks) <= Len(file)
        /\ Cardinality(chunks) = Len(file) <=> file \in Injection(places, chunks)
    BY <2>2, <2>6, FS_Surjection
  <2>8. NPieces <= Cardinality(chunks) /\ Cardinality(chunks) \in Nat
    BY <2>3, <2>4, <2>7, FS_Subset, FS_CardinalityType
  <2>9. Len(file) = NPieces /\ file \in Injection(places, chunks)
    BY <2>1, <2>5, <2>7, <2>8, SelectorAssumption
  <2>10. ASSUME NEW i \in Piece PROVE CopiesIn(file, i) = 1
    <3>1. PICK j \in DOMAIN file : file[j] = i
      BY <2>4 DEF chunks
    <3>2. \A k \in DOMAIN file : file[k] = i => k = j
      BY <2>1, <2>9, <3>1 DEF Injection, IsInjective
    <3>3. { k \in DOMAIN file : file[k] = i } = {j}
      BY <3>1, <3>2
    <3> QED
      BY <3>3, FS_Singleton DEF CopiesIn
  <2> QED
    BY <2>9, <2>10
<1> QED
  BY <1>1, ManagerInvariant, SeedingOnlyWhenComplete, OnlyFailuresEverWaste, PTL

-----------------------------------------------------------------------------
(* What is queued, counted and announced *)

\* What a queued piece is: it has a block that is still to come, and it holds
\* no wrong data unless a peer sent some.
HonestData == BlockData \subseteq {"Good"}

PieceIsOpen(piece) ==
  /\ ~IsComplete(piece)
  /\ HonestData => \A b \in DOMAIN piece.blocks : piece.blocks[b] # "Bad"

QueuedAreOpen == \A j \in DOMAIN download_queue : PieceIsOpen(download_queue[j])

LEMMA NewPieceOpen ==
  ASSUME NEW i \in Piece
  PROVE  PieceIsOpen(NewPieceState(i))
<1>1. 1 \in 1..NBlocks[i]
  BY ManagerAssumption
<1> QED
  BY <1>1 DEF PieceIsOpen, IsComplete, NewPieceState, Finished

LEMMA RequestedOpen ==
  ASSUME NEW id, NEW n, NEW queue \in Seq(PieceState), NEW j \in DOMAIN queue,
         PieceIsOpen(queue[j])
  PROVE  PieceIsOpen(WithRequests(id, queue, n)[j])
<1> DEFINE blocks == [b \in DOMAIN queue[j].blocks |->
                        IF IsRequested(id, queue, n, <<j, b>>)
                          THEN "InProcess" ELSE queue[j].blocks[b]]
<1>1. queue[j] \in PieceState
  OBVIOUS
<1>2. PICK i \in Piece : \E old \in [1..NBlocks[i] -> BlockState] :
             queue[j] = [piece_i |-> i, blocks |-> old]
  BY <1>1, PieceStateType
<1>3. WithRequests(id, queue, n)[j].blocks = blocks
  BY <1>2 DEF WithRequests
<1>4. \A b \in DOMAIN blocks : blocks[b] = "InProcess" \/ blocks[b] = queue[j].blocks[b]
  OBVIOUS
<1>5. DOMAIN blocks = DOMAIN queue[j].blocks
  OBVIOUS
<1> HIDE DEF blocks
<1> QED
  BY <1>3, <1>4, <1>5 DEF PieceIsOpen, IsComplete, Finished

LEMMA BlockOpen ==
  ASSUME NEW queue \in Seq(PieceState), NEW j \in DOMAIN queue, NEW b, NEW data
  PROVE  /\ \A l \in DOMAIN queue :
              l # j => WithBlock(queue, j, b, data)[l] = queue[l]
         /\ DOMAIN WithBlock(queue, j, b, data)[j].blocks = DOMAIN queue[j].blocks
         /\ \A a \in DOMAIN queue[j].blocks :
              WithBlock(queue, j, b, data)[j].blocks[a] =
                IF a = b THEN data ELSE queue[j].blocks[a]
<1>1. queue[j] \in PieceState
  OBVIOUS
<1>2. PICK i \in Piece : \E old \in [1..NBlocks[i] -> BlockState] :
             queue[j] = [piece_i |-> i, blocks |-> old]
  BY <1>1, PieceStateType
<1>3. WithBlock(queue, j, b, data)[j].blocks = [queue[j].blocks EXCEPT ![b] = data]
  BY <1>2 DEF WithBlock
<1>4. DOMAIN WithBlock(queue, j, b, data) = DOMAIN queue
  BY DEF WithBlock
<1> QED
  BY <1>3, <1>4 DEF WithBlock

LEMMA AnswerOpen ==
  ASSUME NEW queue \in Seq(PieceState), NEW j \in DOMAIN queue, NEW b, NEW answer,
         IsAnswer(b, answer)
  PROVE  /\ \A l \in DOMAIN queue :
              l # j => WithAnswer(queue, j, b, answer)[l] = queue[l]
         /\ DOMAIN WithAnswer(queue, j, b, answer)[j].blocks = DOMAIN queue[j].blocks
         /\ \A a \in DOMAIN queue[j].blocks :
              \/ WithAnswer(queue, j, b, answer)[j].blocks[a] \in BlockData
              \/ WithAnswer(queue, j, b, answer)[j].blocks[a] = queue[j].blocks[a]
<1> DEFINE blocks == [d \in DOMAIN queue[j].blocks |->
                        IF d = b \/ (d \in DOMAIN answer /\ queue[j].blocks[d] \in Finished)
                          THEN answer[d] ELSE queue[j].blocks[d]]
<1>1. queue[j] \in PieceState
  OBVIOUS
<1>2. PICK i \in Piece : \E old \in [1..NBlocks[i] -> BlockState] :
             queue[j] = [piece_i |-> i, blocks |-> old]
  BY <1>1, PieceStateType
<1>3. /\ WithAnswer(queue, j, b, answer)[j].blocks = blocks
      /\ \A l \in DOMAIN queue : l # j => WithAnswer(queue, j, b, answer)[l] = queue[l]
  BY <1>2 DEF WithAnswer
<1>4. /\ DOMAIN blocks = DOMAIN queue[j].blocks
      /\ \A a \in DOMAIN blocks : blocks[a] \in BlockData \/ blocks[a] = queue[j].blocks[a]
  BY DEF IsAnswer
<1> HIDE DEF blocks
<1> QED
  BY <1>3, <1>4

LEMMA NeedBlockQueueOpen ==
  ASSUME ManagerInv, QueuedAreOpen, NEW id, NEW n, NeedBlockQueue(id, n)
  PROVE  QueuedAreOpen'
<1>1. PICK k : /\ TakePieces(id, k)
               /\ \E order \in PoppingOrders(Popped(id, k) \cap UsableEntries(id)) :
                    download_queue' = WithRequests(id,
                      download_queue \o
                        [j \in DOMAIN order |-> NewPieceState(order[j][2])], n)
  BY DEF NeedBlockQueue, PrepareNextBlocks
<1>2. PICK order \in PoppingOrders(Popped(id, k) \cap UsableEntries(id)) :
             download_queue' = WithRequests(id,
               download_queue \o
                 [j \in DOMAIN order |-> NewPieceState(order[j][2])], n)
  BY <1>1
<1> DEFINE new == [j \in DOMAIN order |-> NewPieceState(order[j][2])]
           queue == download_queue \o new
<1>3. SelectorInv /\ download_queue \in Seq(PieceState)
  BY DEF ManagerInv, TypeOK
<1>4. PICK m \in Nat : DOMAIN order = 1..m
  BY <1>1, <1>3, OrderType
<1>5. \A j \in 1..m : order[j][2] \in Piece
  BY <1>1, <1>3, <1>4, OrderType, PieceDomain DEF SelectorInv
<1>6. \A j \in 1..m : new[j] \in PieceState /\ PieceIsOpen(new[j])
  BY <1>4, <1>5, NewPieceStateType, NewPieceOpen
<1>7. new \in Seq(PieceState) /\ Len(new) = m
  <2>1. new \in [1..m -> PieceState]
    BY <1>4, <1>6
  <2> QED
    BY <2>1, SeqOf
<1> HIDE DEF new
<1>8. /\ queue \in Seq(PieceState)
      /\ DOMAIN queue = 1..(Len(download_queue) + m)
      /\ \A j \in 1..Len(download_queue) : queue[j] = download_queue[j]
      /\ \A j \in 1..(Len(download_queue) + m) :
           j > Len(download_queue) => queue[j] = new[j - Len(download_queue)]
  BY <1>3, <1>7
<1> HIDE DEF queue
<1>9. download_queue' = WithRequests(id, queue, n)
  BY <1>2 DEF new, queue
<1>10. DOMAIN download_queue = 1..Len(download_queue) /\ Len(download_queue) \in Nat
  BY <1>3
<1>11. ASSUME NEW j \in DOMAIN queue PROVE PieceIsOpen(queue[j])
  <2>1. CASE j <= Len(download_queue)
    BY <1>8, <1>10, <2>1 DEF QueuedAreOpen
  <2>2. CASE j > Len(download_queue)
    <3>1. j - Len(download_queue) \in 1..m
      BY <1>8, <1>10, <2>2
    <3> QED
      BY <1>6, <1>8, <2>2, <3>1
  <2> QED
    BY <1>8, <1>10, <2>1, <2>2
<1>12. DOMAIN download_queue' = DOMAIN queue
  BY <1>8, <1>9, WithRequestsType
<1>13. \A j \in DOMAIN queue : PieceIsOpen(WithRequests(id, queue, n)[j])
  BY <1>8, <1>11, RequestedOpen
<1> QED
  BY <1>9, <1>12, <1>13 DEF QueuedAreOpen, PieceIsOpen, IsComplete

LEMMA GotBlockOpen ==
  ASSUME ManagerInv, QueuedAreOpen, NEW i \in Piece, NEW b, NEW answer,
         IsAnswer(b, answer), GotBlock(i, b, answer)
  PROVE  /\ QueuedAreOpen'
         /\ HonestData => UNCHANGED announced
<1>1. PICK j \in DOMAIN download_queue :
        LET queue == WithAnswer(download_queue, j, b, answer) IN
          \/ /\ ~IsComplete(queue[j])
             /\ download_queue' = queue
             /\ UNCHANGED <<selectorVars, torrent_state, saving, file, db,
                            announced, failures>>
          \/ /\ IsComplete(queue[j])
             /\ download_queue' = SwapRemove(queue, j)
             /\ HandlePiece(i, queue[j])
  BY DEF GotBlock
<1> DEFINE queue == WithAnswer(download_queue, j, b, answer)
<1>2. download_queue \in Seq(PieceState)
  BY DEF ManagerInv, TypeOK
<1>3. queue \in Seq(PieceState) /\ DOMAIN queue = DOMAIN download_queue
  BY <1>2, WithAnswerType
<1>4. /\ \A l \in DOMAIN queue : l # j => queue[l] = download_queue[l]
      /\ DOMAIN queue[j].blocks = DOMAIN download_queue[j].blocks
      /\ \A a \in DOMAIN queue[j].blocks :
           \/ queue[j].blocks[a] \in BlockData
           \/ queue[j].blocks[a] = download_queue[j].blocks[a]
  BY <1>2, <1>3, AnswerOpen
<1>5. \/ /\ ~IsComplete(queue[j])
         /\ download_queue' = queue
         /\ UNCHANGED announced
      \/ /\ IsComplete(queue[j])
         /\ download_queue' = SwapRemove(queue, j)
         /\ HandlePiece(i, queue[j])
  BY <1>1
<1> HIDE DEF queue
<1>6. HonestData => \A a \in DOMAIN queue[j].blocks : queue[j].blocks[a] # "Bad"
  <2>1. HonestData => "Bad" \notin BlockData
    BY DEF HonestData
  <2> QED
    BY <1>4, <2>1 DEF QueuedAreOpen, PieceIsOpen
<1>7. \A l \in DOMAIN queue : l # j => PieceIsOpen(queue[l])
  BY <1>3, <1>4 DEF QueuedAreOpen
<1>8. CASE ~IsComplete(queue[j]) /\ download_queue' = queue /\ UNCHANGED announced
  <2>1. \A l \in DOMAIN queue : PieceIsOpen(queue[l])
    BY <1>6, <1>7, <1>8 DEF PieceIsOpen
  <2> QED
    BY <1>8, <2>1 DEF QueuedAreOpen, PieceIsOpen, IsComplete
<1>9. CASE /\ IsComplete(queue[j]) /\ download_queue' = SwapRemove(queue, j)
           /\ HandlePiece(i, queue[j])
  <2>1. DOMAIN queue = 1..Len(queue) /\ Len(queue) \in Nat
    BY <1>3
  <2>2. /\ DOMAIN download_queue' = 1..(Len(queue) - 1)
        /\ \A l \in 1..(Len(queue) - 1) :
             download_queue'[l] = IF l = j THEN queue[Len(queue)] ELSE queue[l]
    BY <1>3, <1>9, SwapRemoveType
  <2>3. ASSUME NEW l \in DOMAIN download_queue'
        PROVE  \E a \in DOMAIN queue : a # j /\ download_queue'[l] = queue[a]
    BY <1>3, <2>1, <2>2
  <2>4. QueuedAreOpen'
    BY <1>7, <2>3 DEF QueuedAreOpen, PieceIsOpen, IsComplete
  <2>5. HonestData => HashMatches(queue[j])
    BY <1>6, <1>9 DEF IsComplete, HashMatches, Finished
  <2> QED
    BY <1>9, <2>4, <2>5 DEF HandlePiece
<1> QED
  BY <1>5, <1>8, <1>9

LEMMA NextOpen ==
  ASSUME ManagerInv, QueuedAreOpen, [Next]_vars
  PROVE  QueuedAreOpen'
<1>1. CASE UNCHANGED download_queue
  BY <1>1 DEF QueuedAreOpen
<1>2. ASSUME NEW j \in DOMAIN download_queue,
             NEW b \in DOMAIN download_queue[j].blocks, RequestTimesOut(j, b)
      PROVE  QueuedAreOpen'
  <2>1. download_queue \in Seq(PieceState) /\ "TimedOut" \in BlockState
    BY DEF ManagerInv, TypeOK, BlockState, NotRequested
  <2> DEFINE queue == WithBlock(download_queue, j, b, "TimedOut")
  <2>2. /\ DOMAIN queue = DOMAIN download_queue
        /\ \A l \in DOMAIN download_queue : l # j => queue[l] = download_queue[l]
        /\ DOMAIN queue[j].blocks = DOMAIN download_queue[j].blocks
        /\ \A a \in DOMAIN download_queue[j].blocks :
             queue[j].blocks[a] =
               IF a = b THEN "TimedOut" ELSE download_queue[j].blocks[a]
    BY <2>1, WithBlockType, BlockOpen
  <2>3. download_queue' = queue
    BY <1>2 DEF RequestTimesOut
  <2> HIDE DEF queue
  <2>4. PieceIsOpen(queue[j])
    BY <2>2 DEF QueuedAreOpen, PieceIsOpen, IsComplete, Finished
  <2>5. \A l \in DOMAIN queue : PieceIsOpen(queue[l])
    BY <2>2, <2>4 DEF QueuedAreOpen
  <2> QED
    BY <2>3, <2>5 DEF QueuedAreOpen, PieceIsOpen, IsComplete
<1>3. CASE Restart
  BY <1>3 DEF Restart, QueuedAreOpen
<1> QED
  BY <1>1, <1>2, <1>3, NeedBlockQueueOpen, AnswerSent, GotBlockOpen
  DEF Next, vars, managerVars, NewConnection, PeerDisconnected, PeerBitfield, PeerHas,
      BitfieldUpdated, GotMetadata, GotMetadataFails, ManagerStops, Stop

\* Every queued piece still has a block to come, so handle_piece was called for
\* each that is complete and none of them is stuck in the queue; and without a
\* bad block sent, none is queued.
THEOREM QueuedAlwaysOpen == Spec => []QueuedAreOpen
<1>1. Init => QueuedAreOpen
  BY DEF Init, QueuedAreOpen
<1>2. ManagerInv /\ QueuedAreOpen /\ [Next]_vars => QueuedAreOpen'
  BY NextOpen
<1> QED
  BY <1>1, <1>2, ManagerInvariant, PTL DEF Spec

\* What a step of the manager does to rarities and entries.
CountsAndEntries == RarityNeverUndercounts /\ MissingHasEntry

LEMMA NextCounts ==
  ASSUME SeedersAsk, ManagerInv, ManagerInv', CountsAndEntries, [Next]_vars
  PROVE  CountsAndEntries'
<1>0. SelectorTypeOK /\ SelectorTypeOK' /\ SelectorInv
  BY DEF ManagerInv, SelectorInv
<1>1. CASE UNCHANGED selectorVars
  BY <1>1
  DEF selectorVars, CountsAndEntries, RarityNeverUndercounts, Holders, MissingHasEntry
<1>2. ASSUME NEW id \in PeerId,
             \/ NewConnection(id)
             \/ PeerDisconnected(id)
             \/ \E bitfield \in BitfieldsOf[id] : PeerBitfield(id, bitfield)
             \/ \E i \in Piece : PeerHas(id, i)
      PROVE  CountsAndEntries'
  <2>1. MissingHasEntry'
    BY <1>0, <1>2, PeerMessageEntry
    DEF CountsAndEntries, NewConnection, PeerDisconnected, PeerBitfield, PeerHas
  <2>2. RarityNeverUndercounts'
    <3>1. CASE NewConnection(id)
      BY <1>0, <3>1, AddPeerRarity DEF CountsAndEntries, NewConnection
    <3>2. CASE PeerDisconnected(id)
      BY <1>0, <3>2, RemovePeerRarity DEF CountsAndEntries, PeerDisconnected
    <3>3. ASSUME NEW bitfield \in BitfieldsOf[id], PeerBitfield(id, bitfield)
          PROVE  RarityNeverUndercounts'
      <4>1. bitfield \in Bitfield
        BY ManagerAssumption, SentBitfieldType
      <4> QED
        BY <1>0, <3>3, <4>1, AddPeerBitfieldRarity DEF CountsAndEntries, PeerBitfield
    <3>4. ASSUME NEW i \in Piece, PeerHas(id, i)
          PROVE  RarityNeverUndercounts'
      BY <1>0, <3>4, UpdateFromPeerHaveRarity DEF CountsAndEntries, PeerHas
    <3> QED
      BY <1>2, <3>1, <3>2, <3>3, <3>4
  <2> QED
    BY <2>1, <2>2 DEF CountsAndEntries
<1>3. ASSUME NEW id \in PeerId, NEW n, MayAsk(id), NeedBlockQueue(id, n)
      PROVE  CountsAndEntries'
  <2>1. PICK k : TakePieces(id, k)
    BY <1>3 DEF NeedBlockQueue, PrepareNextBlocks
  <2>2. \A i \in DOMAIN have : HasPiece(peer_bitfields[id], i)
    BY <1>0, <1>3, PieceDomain DEF MayAsk, SeedersAsk
  <2>3. MissingHasEntry'
    BY <1>0, <2>1, <2>2, TakePiecesEntry DEF CountsAndEntries
  <2>4. RarityNeverUndercounts'
    BY <1>0, <2>1, SameHoldersRarity DEF CountsAndEntries, TakePieces
  <2> QED
    BY <2>3, <2>4 DEF CountsAndEntries
<1>4. ASSUME NEW i, NEW b, NEW answer, GotBlock(i, b, answer)
      PROVE  UNCHANGED selectorVars
  BY <1>4 DEF GotBlock, HandlePiece
<1>5. CASE BitfieldUpdated
  <2>1. /\ saving \in DOMAIN have /\ have' = [have EXCEPT ![saving] = TRUE]
        /\ UNCHANGED <<piece_rarity, priority_queue, peer_bitfields, pieces_in_flight>>
    BY <1>5 DEF BitfieldUpdated, PieceStored, ManagerInv, SavingInv
  <2>2. DOMAIN have' = DOMAIN have /\ \A i \in DOMAIN have : have[i] => have'[i]
    BY <2>1
  <2>3. RarityNeverUndercounts'
    BY <1>0, <2>1, <2>2, SameHoldersRarity DEF CountsAndEntries
  <2>4. MissingHasEntry'
    BY <2>1, <2>2 DEF CountsAndEntries, MissingHasEntry
  <2> QED
    BY <2>3, <2>4 DEF CountsAndEntries
<1>6. CASE GotMetadata
  <2>1. EmptyBitfield \in [Piece -> BOOLEAN]
    BY DEF EmptyBitfield
  <2> QED
    BY <1>0, <1>6, <2>1, UpdateFromSelfHaveRarity, UpdateFromSelfHaveEntry
    DEF GotMetadata, CountsAndEntries
<1>7. CASE Restart
  <2>1. \A i \in DOMAIN have' : Holders(i)' = {} /\ piece_rarity'[i] = 0
    BY <1>7 DEF Restart, RestartSelector, Holders
  <2>2. \A i \in DOMAIN have' : piece_rarity'[i] >= Cardinality(Holders(i)')
    BY <2>1, FS_EmptySet
  <2>3. RarityNeverUndercounts'
    BY <2>2 DEF RarityNeverUndercounts
  <2>4. MissingHasEntry'
    BY <2>1 DEF MissingHasEntry
  <2> QED
    BY <2>3, <2>4 DEF CountsAndEntries
<1>8. ASSUME NEW j, NEW b, RequestTimesOut(j, b)
      PROVE  UNCHANGED selectorVars
  BY <1>8 DEF RequestTimesOut
<1>9. CASE Stop
  BY <1>1, <1>9 DEF Stop
<1> QED
  BY <1>1, <1>2, <1>3, <1>4, <1>5, <1>6, <1>7, <1>8, <1>9, ManagerAssumption
  DEF Next, vars, GotMetadataFails, ManagerStops

\* When only seeders ask, a missing piece that a connected peer holds is always
\* queued, being saved, or offered to the next selection; one that was discarded
\* for its hash is the only exception.  No order of bitfields, haves,
\* disconnects, selections, blocks and restarts loses it.
THEOREM NothingIsEverForgotten ==
  ASSUME SeedersAsk
  PROVE  Spec => []NothingIsForgotten
<1>1. Init => CountsAndEntries
  <2> SUFFICES ASSUME Init PROVE CountsAndEntries
    OBVIOUS
  <2>1. \A i \in DOMAIN have : Holders(i) = {} /\ piece_rarity[i] = 0
    BY DEF Init, NewSelector, Holders
  <2> QED
    BY <2>1, FS_EmptySet DEF CountsAndEntries, RarityNeverUndercounts, MissingHasEntry
<1>2. ManagerInv /\ ManagerInv' /\ CountsAndEntries /\ [Next]_vars => CountsAndEntries'
  BY NextCounts
<1>3. ManagerInv /\ HandedOutIsKept /\ QueuedAreOpen /\ CountsAndEntries
        => NothingIsForgotten
  <2> SUFFICES ASSUME ManagerInv, HandedOutIsKept, QueuedAreOpen, CountsAndEntries,
                      torrent_state = "Downloading", NEW i \in Piece,
                      ~have[i], ~OnItsWay(i), i \notin announced, Holders(i) # {}
               PROVE  Offered(i)
    BY DEF NothingIsForgotten
  <2>1. SelectorTypeOK /\ DOMAIN have = Piece
    BY PieceDomain DEF ManagerInv, SelectorInv, StateInv, MetadataKnown
  <2>2. ~pieces_in_flight[i]
    BY <2>1
    DEF HandedOutIsKept, Running, OnItsWay, QueuedPieces, QueuedAreOpen, PieceIsOpen
  <2>3. piece_rarity[i] > 0
    <3>1. /\ IsFiniteSet(Holders(i)) /\ Cardinality(Holders(i)) \in Nat
          /\ Cardinality(Holders(i)) # 0
      BY <2>1, HoldersAreFinite, FS_EmptySet
    <3>2. piece_rarity[i] >= Cardinality(Holders(i)) /\ piece_rarity[i] \in Nat
      BY <2>1, PieceDomain DEF CountsAndEntries, RarityNeverUndercounts
    <3> QED
      BY <3>1, <3>2
  <2> QED
    BY <2>1, <2>2, <2>3 DEF CountsAndEntries, MissingHasEntry, Offered
<1> QED
  BY <1>1, <1>2, <1>3, ManagerInvariant, HandedOutAlwaysKept, QueuedAlwaysOpen, PTL DEF Spec

\* What was announced since the manager started is had.
AnnouncedInv == Running => \A i \in announced : i \in DOMAIN have /\ have[i]

LEMMA NextAnnounced ==
  ASSUME HonestData, ManagerInv, QueuedAreOpen, AnnouncedInv, [Next]_vars
  PROVE  AnnouncedInv'
<1>1. CASE UNCHANGED <<have, announced, torrent_state>>
  BY <1>1 DEF AnnouncedInv, Running
<1>2. ASSUME NEW i \in Piece, NEW b, NEW answer, IsAnswer(b, answer),
             GotBlock(i, b, answer)
      PROVE  AnnouncedInv'
  <2>1. UNCHANGED <<have, announced>> /\ Running
    BY <1>2, GotBlockOpen DEF GotBlock, HandlePiece, selectorVars, Idle
  <2> QED
    BY <2>1 DEF AnnouncedInv
<1>3. CASE BitfieldUpdated
  BY <1>3
  DEF BitfieldUpdated, PieceStored, FinishPiece, ManagerInv, SavingInv, AnnouncedInv
<1>4. CASE GotMetadata
  <2>1. announced = {} /\ announced' = {}
    BY <1>4 DEF GotMetadata, Idle, ManagerInv, StateInv, AnnouncedInv
  <2> QED
    BY <2>1 DEF AnnouncedInv
<1>5. CASE Stop
  BY <1>5 DEF Stop, AnnouncedInv, Running
<1>6. CASE Restart
  BY <1>6 DEF Restart, AnnouncedInv
<1>7. ASSUME NEW id, NEW n, NeedBlockQueue(id, n)
      PROVE  UNCHANGED <<have, announced, torrent_state>>
  BY <1>7 DEF NeedBlockQueue, PrepareNextBlocks, TakePieces
<1>8. ASSUME NEW id,
             \/ NewConnection(id)
             \/ PeerDisconnected(id)
             \/ \E bitfield : PeerBitfield(id, bitfield)
             \/ \E i \in Piece : PeerHas(id, i)
      PROVE  UNCHANGED <<have, announced, torrent_state>>
  BY <1>8
  DEF NewConnection, PeerDisconnected, PeerBitfield, PeerHas, AddPeer, RemovePeer,
      AddPeerBitfield, UpdateFromPeerHave, managerVars
<1>9. ASSUME NEW j, NEW b, RequestTimesOut(j, b)
      PROVE  UNCHANGED <<have, announced, torrent_state>>
  BY <1>9 DEF RequestTimesOut, selectorVars
<1> QED
  BY <1>1, <1>2, <1>3, <1>4, <1>5, <1>6, <1>7, <1>8, <1>9, AnswerSent, ManagerAssumption
  DEF Next, vars, selectorVars, managerVars, GotMetadataFails, ManagerStops

\* The words of a Have message are kept as long as no peer sends wrong data: a
\* manager that never reads a bad block announces only what it has.
THEOREM HonestAnnouncedIsHad ==
  ASSUME HonestData
  PROVE  Spec => []AnnouncedIsHad
<1>1. Init => AnnouncedInv
  BY DEF Init, AnnouncedInv
<1>2. ManagerInv /\ QueuedAreOpen /\ AnnouncedInv /\ [Next]_vars => AnnouncedInv'
  BY NextAnnounced
<1>3. AnnouncedInv => AnnouncedIsHad
  BY DEF AnnouncedInv, AnnouncedIsHad
<1> QED
  BY <1>1, <1>2, <1>3, ManagerInvariant, QueuedAlwaysOpen, PTL DEF Spec

-----------------------------------------------------------------------------
(* PieceStorage: blocks tile their piece and pieces tile the torrent, for   *)
(* every length of the torrent, of its pieces and of a block.               *)

-----------------------------------------------------------------------------
(* Division *)

LEMMA Division ==
  ASSUME NEW a \in Nat, NEW b \in Nat \ {0}
  PROVE  /\ a \div b \in Nat /\ a % b \in 0..(b - 1)
         /\ a = b * (a \div b) + (a % b)
  OBVIOUS

LEMMA DivisionIsUnique ==
  ASSUME NEW b \in Nat \ {0}, NEW q \in Nat, NEW r \in 0..(b - 1)
  PROVE  (q * b + r) \div b = q
  OBVIOUS

LEMMA DivCeilBounds ==
  ASSUME NEW a \in Nat \ {0}, NEW b \in Nat \ {0}
  PROVE  /\ DivCeil(a, b) \in Nat \ {0}
         /\ (DivCeil(a, b) - 1) * b < a
         /\ a <= DivCeil(a, b) * b
  BY Division DEF DivCeil

-----------------------------------------------------------------------------
(* The parts of a length: all of them are `unit` long but for the last one. *)

PartSize(total, unit, k) ==
  IF k = DivCeil(total, unit) - 1 /\ total % unit # 0 THEN total % unit ELSE unit

PartBytes(total, unit, k) == Bytes(k * unit, PartSize(total, unit, k))

LEMMA ProductGrows ==
  ASSUME NEW k \in Nat, NEW l \in Nat, NEW unit \in Nat \ {0}, k < l
  PROVE  (k + 1) * unit <= l * unit
  <1>1. PICK d \in Nat : l = k + 1 + d
    <2>1. l - k - 1 \in Nat /\ l = k + 1 + (l - k - 1)
      OBVIOUS
    <2> QED BY <2>1
  <1>2. l * unit = (k + 1) * unit + d * unit
    BY <1>1
  <1>3. d * unit \in Nat /\ (k + 1) * unit \in Nat
    BY <1>1
  <1> QED BY <1>2, <1>3

\* Every part but the last one ends where the next one begins, and the last one
\* at the end.
LEMMA PartEnds ==
  ASSUME NEW total \in Nat \ {0}, NEW unit \in Nat \ {0}, NEW k \in 0..(DivCeil(total, unit) - 1)
  PROVE  /\ PartSize(total, unit, k) \in 1..unit
         /\ k * unit \in Nat
         /\ k < DivCeil(total, unit) - 1 => k * unit + PartSize(total, unit, k) = (k + 1) * unit
         /\ k = DivCeil(total, unit) - 1 => k * unit + PartSize(total, unit, k) = total
  <1> DEFINE q == total \div unit
             r == total % unit
  <1>1. q \in Nat /\ r \in 0..(unit - 1) /\ total = unit * q + r
    BY Division
  <1>2. DivCeil(total, unit) = IF r = 0 THEN q ELSE q + 1
    BY DEF DivCeil
  <1>3. PartSize(total, unit, k) = IF k = DivCeil(total, unit) - 1 /\ r # 0 THEN r ELSE unit
    BY DEF PartSize
  <1>4. DivCeil(total, unit) \in Nat \ {0}
    BY DivCeilBounds
  <1> HIDE DEF q, r
  <1>5. k \in Nat /\ k * unit \in Nat
    BY <1>4
  <1>6. (k + 1) * unit = k * unit + unit
    BY <1>5
  <1>7. k = DivCeil(total, unit) - 1 => k * unit + PartSize(total, unit, k) = total
    <2>1. CASE r = 0
      BY <1>1, <1>2, <1>3, <1>5, <1>6, <2>1
    <2>2. CASE r # 0
      BY <1>1, <1>2, <1>3, <1>5, <2>2
    <2> QED BY <2>1, <2>2
  <1> QED BY <1>1, <1>3, <1>5, <1>6, <1>7

\* The part that a byte is in.
LEMMA PartOfByte ==
  ASSUME NEW total \in Nat \ {0}, NEW unit \in Nat \ {0}, NEW x \in 0..(total - 1)
  PROVE  /\ x \div unit \in 0..(DivCeil(total, unit) - 1)
         /\ x \in PartBytes(total, unit, x \div unit)
  <1> DEFINE k == x \div unit
             n == DivCeil(total, unit)
  <1>1. k \in Nat /\ k * unit <= x /\ x < (k + 1) * unit
    BY Division
  <1>2. n \in Nat \ {0} /\ total <= n * unit
    BY DivCeilBounds
  <1>3. k <= n - 1
    <2>1. ASSUME n <= k PROVE FALSE
      <3>1. n * unit <= k * unit
        <4>1. CASE n = k
          BY <4>1, <1>1
        <4>2. CASE n < k
          <5>1. (n + 1) * unit <= k * unit
            BY <1>1, <1>2, <4>2, ProductGrows
          <5> QED BY <5>1, <1>1, <1>2
        <4> QED BY <2>1, <4>1, <4>2, <1>1, <1>2
      <3> QED BY <1>1, <1>2, <3>1
    <2> QED BY <2>1, <1>1, <1>2
  <1>4. k \in 0..(n - 1)
    BY <1>1, <1>2, <1>3
  <1>5. /\ PartSize(total, unit, k) \in 1..unit /\ k * unit \in Nat
        /\ k < n - 1 => k * unit + PartSize(total, unit, k) = (k + 1) * unit
        /\ k = n - 1 => k * unit + PartSize(total, unit, k) = total
    BY <1>4, PartEnds
  <1> HIDE DEF k, n
  <1>6. x < k * unit + PartSize(total, unit, k)
    BY <1>1, <1>4, <1>5, <1>2
  <1>7. x \in PartBytes(total, unit, k)
    BY <1>1, <1>5, <1>6 DEF PartBytes, Bytes
  <1> QED BY <1>4, <1>7 DEF k, n

\* No byte is in two parts, and none is beyond the end.
LEMMA PartsApart ==
  ASSUME NEW total \in Nat \ {0}, NEW unit \in Nat \ {0},
         NEW k \in 0..(DivCeil(total, unit) - 1), NEW l \in 0..(DivCeil(total, unit) - 1)
  PROVE  /\ PartBytes(total, unit, k) \subseteq Bytes(0, total)
         /\ k # l => PartBytes(total, unit, k) \cap PartBytes(total, unit, l) = {}
  <1> DEFINE n == DivCeil(total, unit)
             start(j) == j * unit
             size(j) == PartSize(total, unit, j)
  <1>1. n \in Nat \ {0} /\ (n - 1) * unit < total
    BY DivCeilBounds
  <1>2. \A j \in 0..(n - 1) :
          /\ size(j) \in 1..unit /\ start(j) \in Nat
          /\ j < n - 1 => start(j) + size(j) = (j + 1) * unit
          /\ j = n - 1 => start(j) + size(j) = total
    BY PartEnds
  <1>3. \A i, j \in 0..(n - 1) : i < j => start(i) + size(i) <= start(j)
    <2> SUFFICES ASSUME NEW i \in 0..(n - 1), NEW j \in 0..(n - 1), i < j
                 PROVE  start(i) + size(i) <= start(j)
      OBVIOUS
    <2>1. (i + 1) * unit <= j * unit
      BY <1>1, ProductGrows
    <2>2. start(i) + size(i) = (i + 1) * unit
      BY <1>1, <1>2
    <2> QED BY <2>1, <2>2
  <1>4. start(k) + size(k) <= total
    <2>1. CASE k = n - 1
      BY <1>1, <1>2, <2>1
    <2>2. CASE k < n - 1
      <3>1. start(k) + size(k) <= start(n - 1)
        BY <1>1, <1>3, <2>2
      <3> QED BY <3>1, <1>1, <1>2
    <2> QED BY <2>1, <2>2, <1>1
  <1>5. /\ PartBytes(total, unit, k) = start(k)..(start(k) + size(k) - 1)
        /\ PartBytes(total, unit, l) = start(l)..(start(l) + size(l) - 1)
        /\ Bytes(0, total) = 0..(total - 1)
    BY DEF PartBytes, Bytes
  <1>6. /\ size(k) \in Nat /\ start(k) \in Nat /\ size(l) \in Nat /\ start(l) \in Nat
        /\ k < l \/ l < k \/ k = l
    BY <1>1, <1>2
  <1>7. k # l => start(k) + size(k) <= start(l) \/ start(l) + size(l) <= start(k)
    BY <1>1, <1>3, <1>6
  <1> HIDE DEF start, size
  <1>8. PartBytes(total, unit, k) \subseteq Bytes(0, total)
    BY <1>4, <1>5, <1>6
  <1>9. ASSUME k # l PROVE PartBytes(total, unit, k) \cap PartBytes(total, unit, l) = {}
    <2>1. CASE start(k) + size(k) <= start(l)
      BY <1>5, <1>6, <2>1
    <2>2. CASE start(l) + size(l) <= start(k)
      BY <1>5, <1>6, <2>2
    <2> QED BY <1>7, <1>9, <2>1, <2>2
  <1> QED BY <1>8, <1>9

-----------------------------------------------------------------------------
(* Blocks are such parts. *)

LEMMA PieceSizeType ==
  ASSUME NEW k \in 0..(NumPieces - 1)
  PROVE  GetPieceSize(k) \in Nat \ {0}
  <1>1. GetPieceSize(k) = PartSize(Length, PieceLength, k)
    BY DEF GetPieceSize, PartSize, NumPieces
  <1>2. PartSize(Length, PieceLength, k) \in 1..PieceLength
    BY GeometryAssumption, PartEnds DEF NumPieces
  <1> QED BY <1>1, <1>2, GeometryAssumption

LEMMA BlocksAreParts ==
  ASSUME NEW k, NEW b
  PROVE  BlockBytes(k, b) = PartBytes(GetPieceSize(k), BLOCK_MAX, b)
  BY DEF BlockBytes, PartBytes, PartSize, GetBlockLen, NumBlocks, Begin

\* The blocks of a piece tile the piece, and an answer finishes its own block.
LEMMA BlocksTile ==
  ASSUME NEW k \in 0..(NumPieces - 1)
  PROVE  /\ UNION { BlockBytes(k, b) : b \in 0..(NumBlocks(k) - 1) } = Bytes(0, GetPieceSize(k))
         /\ \A b, c \in 0..(NumBlocks(k) - 1) : b # c => BlockBytes(k, b) \cap BlockBytes(k, c) = {}
         /\ \A b \in Nat : BlockAt(Begin(b)) = b
  <1> DEFINE size == GetPieceSize(k)
  <1>1. size \in Nat \ {0} /\ BLOCK_MAX \in Nat \ {0}
    BY PieceSizeType, GeometryAssumption
  <1>2. NumBlocks(k) = DivCeil(size, BLOCK_MAX)
    BY DEF NumBlocks
  <1>3. \A b : BlockBytes(k, b) = PartBytes(size, BLOCK_MAX, b)
    BY BlocksAreParts
  <1> HIDE DEF size
  <1>4. \A b, c \in 0..(NumBlocks(k) - 1) :
          /\ PartBytes(size, BLOCK_MAX, b) \subseteq Bytes(0, size)
          /\ b # c => PartBytes(size, BLOCK_MAX, b) \cap PartBytes(size, BLOCK_MAX, c) = {}
    BY <1>1, <1>2, PartsApart
  <1>5. \A x \in Bytes(0, size) : \E b \in 0..(NumBlocks(k) - 1) : x \in PartBytes(size, BLOCK_MAX, b)
    BY <1>1, <1>2, PartOfByte DEF Bytes
  <1>6. \A b \in Nat : BlockAt(Begin(b)) = b
    <2> SUFFICES ASSUME NEW b \in Nat PROVE BlockAt(Begin(b)) = b
      OBVIOUS
    <2>1. (b * BLOCK_MAX + 0) \div BLOCK_MAX = b
      BY <1>1, DivisionIsUnique
    <2>2. b * BLOCK_MAX + 0 = b * BLOCK_MAX
      BY <1>1
    <2> QED BY <2>1, <2>2 DEF BlockAt, Begin
  <1> QED BY <1>3, <1>4, <1>5, <1>6 DEF size

-----------------------------------------------------------------------------
(* The download *)

LEMMA QueuedBlocksFill == TypeOK => BlocksFillThePiece
  <1> SUFFICES ASSUME TypeOK, NEW j \in DOMAIN download_queue
               PROVE  LET piece == download_queue[j] IN
                        /\ Arrived(piece) \cup Awaited(piece) = Bytes(0, GetPieceSize(piece.piece_i - 1))
                        /\ Arrived(piece) \cap Awaited(piece) = {}
                        /\ \A b \in DOMAIN piece.blocks : BlockAt(Begin(b - 1)) = b - 1
    BY DEF BlocksFillThePiece
  <1> DEFINE piece == download_queue[j]
             k == piece.piece_i - 1
  <1>1. piece \in PieceState
    BY DEF TypeOK
  <1>2. PICK i \in Piece : \E blocks \in [1..NBlocks[i] -> BlockState] :
               piece = [piece_i |-> i, blocks |-> blocks]
    BY <1>1, PieceStateType
  <1>3. piece.piece_i = i /\ DOMAIN piece.blocks = 1..NBlocks[i]
    BY <1>2
  <1>4. i - 1 \in 0..(NumPieces - 1) /\ NBlocks[i] = NumBlocks(i - 1)
    BY StorageAssumption, SelectorAssumption DEF Piece
  <1>5. NBlocks[i] \in Nat
    BY ManagerAssumption
  <1> DEFINE own(b) == BlockBytes(i - 1, b)
             last == NumBlocks(i - 1) - 1
  <1>6. /\ UNION { own(b) : b \in 0..last } = Bytes(0, GetPieceSize(i - 1))
        /\ \A b, c \in 0..last : b # c => own(b) \cap own(c) = {}
        /\ \A b \in Nat : BlockAt(Begin(b)) = b
    BY <1>4, BlocksTile
  <1>7. \A b : BytesOf(piece, b) = own(b - 1)
    BY <1>3 DEF BytesOf
  <1> HIDE DEF piece, own, last
  <1>8. \A b \in DOMAIN piece.blocks : b - 1 \in 0..last /\ b - 1 \in Nat
    BY <1>3, <1>4, <1>5 DEF last
  <1>9. \A b \in 0..last : b + 1 \in DOMAIN piece.blocks /\ own(b) = BytesOf(piece, b + 1)
    <2>1. \A b \in 0..last : b + 1 \in DOMAIN piece.blocks /\ (b + 1) - 1 = b
      BY <1>3, <1>4, <1>5 DEF last
    <2> QED BY <1>7, <2>1
  <1>10. Arrived(piece) \cup Awaited(piece) = UNION { BytesOf(piece, b) : b \in DOMAIN piece.blocks }
    BY DEF Arrived, Awaited
  <1>11. UNION { BytesOf(piece, b) : b \in DOMAIN piece.blocks } = UNION { own(b) : b \in 0..last }
    BY <1>7, <1>8, <1>9
  <1>12. \A b, c \in DOMAIN piece.blocks : b # c => BytesOf(piece, b) \cap BytesOf(piece, c) = {}
    <2>1. \A b, c \in DOMAIN piece.blocks : b # c => b - 1 # c - 1
      BY <1>3, <1>5
    <2> QED BY <1>6, <1>7, <1>8, <2>1
  <1>13. Arrived(piece) \cap Awaited(piece) = {}
    BY <1>12 DEF Arrived, Awaited
  <1> QED BY <1>3, <1>6, <1>8, <1>10, <1>11, <1>13 DEF piece

\* The blocks of a queued piece tile it, whichever of them have arrived
\* (get_block_len, prepare_requests_for_piece, update_state).
THEOREM BlocksAlwaysFill == Spec => []BlocksFillThePiece
  <1> QED BY ManagerTypeCorrect, QueuedBlocksFill, PTL
=============================================================================
