---------------------------- MODULE ClientProofs ----------------------------
(***************************************************************************)
(* What holds of the client for any torrents, callers, number of managers, *)
(* workers and channel size.  The registry invariant is inductive with the *)
(* types; that a manager past the metadata has a record also needs that    *)
(* the entries continue_download_unfinished goes through are records.      *)
(***************************************************************************)
EXTENDS Client, FiniteSetTheorems, TLAPS

\* The entries that a call goes through were read from the database.
EntriesHaveRecord ==
  \A c \in Caller : call[c].pc = "StartAll" =>
    \A t \in call[c].entries : record[t] # "None"

IInv == TypeOK /\ RegisteredIsThere /\ MetadataHasRecord /\ EntriesHaveRecord

USE DEF Manager, NoManager, TheListener

-----------------------------------------------------------------------------
(* The types. *)

LEMMA InitType == Init => TypeOK
  BY ClientAssumption DEF Init, TypeOK, Idle, CallState, TaskState, Bitfield

LEMMA BlocksType ==
  ASSUME TypeOK, NEW task \in Manager \cup {TheListener}, Blocks(task)
  PROVE  TypeOK'
  BY DEF TypeOK, Blocks, managerVars

LEMMA LocksType ==
  ASSUME TypeOK, NEW task \in Manager \cup {TheListener}, Locks(task) \/ RunsOn(task)
  PROVE  (blocked \subseteq Manager \cup {TheListener})'
  BY DEF TypeOK, Locks, RunsOn

\* What the start of a manager leaves of the types.
ManagerType ==
  /\ state \in [Manager -> TaskState]
  /\ torrent \in [Manager -> Torrent] /\ own \in [Manager -> Bitfield]
  /\ mail \in [Manager -> 0..ChannelSize]

LEMMA StartType ==
  ASSUME TypeOK, NEW t \in Torrent, NEW b \in Bitfield,
         StartPeerManager(t, b) \/ UNCHANGED managerVars
  PROVE  ManagerType'
  <1>1. CASE UNCHANGED managerVars
    BY <1>1 DEF TypeOK, ManagerType, managerVars
  <1>2. CASE StartPeerManager(t, b)
    <2>1. PICK m \in Manager :
            /\ state' = [state EXCEPT ![m] = "Spawned"]
            /\ torrent' = [torrent EXCEPT ![m] = t]
            /\ own' = [own EXCEPT ![m] = b]
            /\ mail' = mail
      BY <1>2 DEF StartPeerManager
    <2> QED BY <2>1 DEF TypeOK, ManagerType, TaskState
  <1> QED BY <1>1, <1>2

-----------------------------------------------------------------------------
(* The states of a call. *)

Adding == [pc: {"GetEntry", "SetEntry"}, name: {"add_torrent", "add_magnet"}, torrent: Torrent]
Starting == [pc: {"StartAll"}, entries: SUBSET Torrent]
Sending == [pc: {"Send"}, to: Manager]

LEMMA CallStates ==
  ASSUME NEW s \in CallState
  PROVE  /\ s.pc \in {"GetEntry", "SetEntry"} => s \in Adding
         /\ s.pc = "StartAll" => s \in Starting
         /\ s.pc = "Send" => s \in Sending
  BY DEF CallState, Idle, Adding, Starting, Sending

LEMMA AddingMoves ==
  ASSUME NEW s \in Adding PROVE [s EXCEPT !.pc = "SetEntry"] \in CallState
  BY DEF Adding, CallState

LEMMA StartingMoves ==
  ASSUME NEW s \in Starting, NEW t \in Torrent
  PROVE  [s EXCEPT !.entries = @ \ {t}] \in CallState
  BY DEF Starting, CallState

\* A call that changes to a state of CallState keeps the calls' type.
LEMMA CallType ==
  ASSUME TypeOK, NEW c \in Caller, NEW s \in CallState, call' = [call EXCEPT ![c] = s]
  PROVE  (call \in [Caller -> CallState])'
  BY DEF TypeOK

LEMMA ReturnType ==
  ASSUME TypeOK, NEW c \in Caller, Returns(c)
  PROVE  (call \in [Caller -> CallState])'
  <1>1. Idle \in CallState BY DEF CallState
  <1> QED BY <1>1, CallType DEF Returns

\* Everything but the managers and the calls is left alone or typed.
LEMMA Typed ==
  ASSUME ManagerType',
         (record \in [Torrent -> Bitfield])',
         (registry \in [Torrent -> Manager \cup {NoManager}])',
         (lock \in Caller \cup {NoCaller})',
         (call \in [Caller -> CallState])',
         (listener \in [pc: {"Off", "Accept", "HandOver"}] \cup [pc: {"Lookup", "GetEntry"}, torrent: Torrent])',
         (blocked \subseteq Manager \cup {TheListener})'
  PROVE  TypeOK'
  BY DEF TypeOK, ManagerType

-----------------------------------------------------------------------------
(* Every step keeps the types. *)

LEMMA AddType ==
  ASSUME TypeOK, NEW c \in Caller, NEW t \in Torrent, NEW name \in Call, Add(c, name, t)
  PROVE  TypeOK'
  <1>1. [pc |-> "GetEntry", name |-> name, torrent |-> t] \in CallState
    BY DEF Add, CallState
  <1> QED BY <1>1 DEF Add, TypeOK, managerVars

LEMMA GetEntryType ==
  ASSUME TypeOK, NEW c \in Caller, GetEntry(c)
  PROVE  TypeOK'
  <1> DEFINE t == call[c].torrent
  <1>1. call[c] \in Adding /\ t \in Torrent
    BY CallStates DEF TypeOK, GetEntry, Continues, Adding
  <1>2. record[t] \in Bitfield /\ "None" \in Bitfield
    BY <1>1 DEF TypeOK, Bitfield
  <1>3. \/ StartPeerManager(t, record[t])
        \/ StartPeerManager(t, "None")
        \/ UNCHANGED managerVars
    BY DEF GetEntry, StartFromEntry
  <1>4. ManagerType'
    BY <1>1, <1>2, <1>3, StartType
  <1>5. Returns(c) \/ call' = [call EXCEPT ![c].pc = "SetEntry"]
    BY DEF GetEntry
  <1>6. (call \in [Caller -> CallState])'
    <2>1. CASE Returns(c) BY <2>1, ReturnType
    <2>2. CASE call' = [call EXCEPT ![c].pc = "SetEntry"]
      <3>1. call' = [call EXCEPT ![c] = [call[c] EXCEPT !.pc = "SetEntry"]]
        BY <2>2
      <3> QED BY <3>1, <1>1, AddingMoves, CallType
    <2> QED BY <1>5, <2>1, <2>2
  <1> QED BY <1>4, <1>6, Typed DEF GetEntry, TypeOK

LEMMA SetEntryType ==
  ASSUME TypeOK, NEW c \in Caller, SetEntry(c)
  PROVE  TypeOK'
  <1> DEFINE t == call[c].torrent
  <1>1. t \in Torrent
    BY CallStates DEF TypeOK, SetEntry, Continues, Adding
  <1>2. /\ StartPeerManager(t, "Unfinished") \/ UNCHANGED managerVars
        /\ CreatesRecord(t) \/ UNCHANGED record
    BY DEF SetEntry, StartFromEntry
  <1>3. ManagerType'
    BY <1>1, <1>2, StartType DEF Bitfield
  <1>4. (record \in [Torrent -> Bitfield])'
    BY <1>1, <1>2 DEF TypeOK, CreatesRecord, Bitfield
  <1>5. (call \in [Caller -> CallState])'
    BY ReturnType DEF SetEntry
  <1> QED BY <1>3, <1>4, <1>5, Typed DEF SetEntry, TypeOK

LEMMA GetAllType ==
  ASSUME TypeOK, NEW c \in Caller, ContinueUnfinished(c) \/ GetAll(c)
  PROVE  TypeOK'
  <1> DEFINE found == {t \in Torrent : record[t] = "Unfinished"}
  <1>1. /\ [pc |-> "GetAll"] \in CallState
        /\ \A some \in {{}, found} : [pc |-> "StartAll", entries |-> some] \in CallState
    BY DEF CallState
  <1> QED BY <1>1 DEF ContinueUnfinished, GetAll, TypeOK, managerVars

LEMMA StartAllType ==
  ASSUME TypeOK, NEW c \in Caller, StartAll(c)
  PROVE  TypeOK'
  <1>1. call[c] \in Starting
    BY CallStates DEF TypeOK, StartAll, Continues
  <1>2. CASE UNCHANGED managerVars /\ Returns(c)
    <2>1. ManagerType' BY <1>2 DEF TypeOK, managerVars, ManagerType
    <2> QED BY <1>2, <2>1, ReturnType, Typed DEF StartAll, TypeOK
  <1>3. ASSUME NEW t \in call[c].entries,
               StartFromEntry(t, "Unfinished"),
               call' = [call EXCEPT ![c].entries = @ \ {t}]
        PROVE  TypeOK'
    <2>1. t \in Torrent BY <1>1 DEF Starting
    <2>2. ManagerType'
      BY <1>3, <2>1, StartType DEF StartFromEntry, Bitfield
    <2>3. call' = [call EXCEPT ![c] = [call[c] EXCEPT !.entries = @ \ {t}]]
      BY <1>3
    <2>4. (call \in [Caller -> CallState])'
      BY <1>1, <2>1, <2>3, StartingMoves, CallType
    <2> QED BY <2>2, <2>4, Typed DEF StartAll, TypeOK
  <1> QED BY <1>2, <1>3 DEF StartAll

LEMMA PauseType ==
  ASSUME TypeOK, NEW c \in Caller, NEW t \in Torrent, PauseOrResume(c, t)
  PROVE  TypeOK'
  <1>1. [pc |-> "Send", to |-> registry[t]] \in CallState
    BY DEF PauseOrResume, CallState, TypeOK
  <1> QED BY <1>1 DEF PauseOrResume, TypeOK, managerVars

LEMMA SendType ==
  ASSUME TypeOK, NEW c \in Caller, Send(c)
  PROVE  TypeOK'
  <1>1. (mail \in [Manager -> 0..ChannelSize])'
    <2>1. /\ call[c].to \in Manager
          /\ mail \in [Manager -> 0..ChannelSize] /\ ChannelSize \in Nat
      BY CallStates, ClientAssumption DEF Send, Continues, TypeOK, Sending
    <2>2. CASE mail' = mail
      BY <2>1, <2>2
    <2>3. CASE mail[call[c].to] < ChannelSize
               /\ mail' = [mail EXCEPT ![call[c].to] = @ + 1]
      <3>1. mail[call[c].to] + 1 \in 0..ChannelSize
        BY <2>1, <2>3
      <3> QED BY <2>1, <2>3, <3>1
    <2> QED BY <2>2, <2>3 DEF Send
  <1>2. (call \in [Caller -> CallState])'
    BY ReturnType DEF Send
  <1> QED BY <1>1, <1>2 DEF Send, TypeOK

LEMMA ManagerStepType ==
  ASSUME TypeOK, NEW m \in Manager, RunsManager(m) \/ GotMetadata(m) \/ Save(m) \/ Fail(m)
  PROVE  TypeOK'
  <1>1. CASE Register(m)
    BY <1>1, LocksType DEF Register, TypeOK, TaskState
  <1>2. CASE Serve(m)
    <2>1. (mail \in [Manager -> 0..ChannelSize])'
      BY <1>2, ClientAssumption DEF Serve, TypeOK
    <2> QED BY <1>2, <2>1, LocksType DEF Serve, TypeOK
  <1>3. CASE Unregister(m)
    BY <1>3, LocksType DEF Unregister, TypeOK, TaskState
  <1>4. CASE ManagerBlocks(m)
    BY <1>4, BlocksType DEF ManagerBlocks
  <1>5. CASE GotMetadata(m)
    BY <1>5, LocksType DEF GotMetadata, CreatesRecord, TypeOK, TaskState, Bitfield
  <1>6. CASE Save(m)
    <2>1. PICK b \in {"Unfinished", "Finished"} :
            /\ own' = [own EXCEPT ![m] = b]
            /\ record' = [record EXCEPT ![torrent[m]] = b]
      BY <1>6 DEF Save
    <2> QED BY <1>6, <2>1, LocksType DEF Save, TypeOK, Bitfield
  <1>7. CASE Fail(m)
    <2>1. PICK end \in TaskState : state' = [state EXCEPT ![m] = end]
      BY <1>7 DEF Fail, TaskState
    <2> QED BY <1>7, <2>1, LocksType DEF Fail, TypeOK
  <1> QED BY <1>1, <1>2, <1>3, <1>4, <1>5, <1>6, <1>7 DEF RunsManager

LEMMA ListenerType ==
  ASSUME TypeOK, SpawnListener \/ RunsListener \/ (\E t \in Torrent : Accept(t))
  PROVE  TypeOK'
  <1>1. CASE SpawnListener
    BY <1>1 DEF SpawnListener, TypeOK, managerVars
  <1>2. ASSUME NEW t \in Torrent, Accept(t) PROVE TypeOK'
    BY <1>2, LocksType DEF Accept, TypeOK, managerVars
  <1>3. CASE Lookup
    BY <1>3, LocksType DEF Lookup, TypeOK, managerVars
  <1>4. CASE StartFromConnection
    <2> DEFINE t == listener.torrent
    <2>1. CASE UNCHANGED managerVars
      <3>1. ManagerType'
        BY <2>1 DEF TypeOK, ManagerType, managerVars
      <3> QED BY <1>4, <3>1, LocksType, Typed DEF StartFromConnection, TypeOK
    <2>2. CASE StartPeerManager(t, record[t])
      <3>1. t \in Torrent /\ record[t] \in Bitfield
        BY <1>4 DEF StartFromConnection, TypeOK
      <3>2. ManagerType'
        BY <2>2, <3>1, StartType
      <3> QED BY <1>4, <3>2, LocksType, Typed DEF StartFromConnection, TypeOK
    <2> QED BY <1>4, <2>1, <2>2 DEF StartFromConnection
  <1>5. CASE ListenerBlocks
    BY <1>5, BlocksType DEF ListenerBlocks
  <1>6. CASE HandOver
    BY <1>6, LocksType DEF HandOver, TypeOK, managerVars
  <1> QED BY <1>1, <1>2, <1>3, <1>4, <1>5, <1>6 DEF RunsListener

LEMMA NextType == TypeOK /\ [Next]_vars => TypeOK'
  <1> SUFFICES ASSUME TypeOK, [Next]_vars PROVE TypeOK'
    OBVIOUS
  <1>1. CASE UNCHANGED vars
    BY <1>1 DEF TypeOK, vars, managerVars
  <1>2. ASSUME NEW c \in Caller, NEW t \in Torrent,
               (\E name \in Call : Add(c, name, t)) \/ PauseOrResume(c, t)
        PROVE  TypeOK'
    BY <1>2, AddType, PauseType
  <1>3. ASSUME NEW c \in Caller, ContinueUnfinished(c) \/ Runs(c) PROVE TypeOK'
    BY <1>3, GetEntryType, SetEntryType, GetAllType, StartAllType, SendType DEF Runs
  <1> QED BY <1>1, <1>2, <1>3, ManagerStepType, ListenerType DEF Next

-----------------------------------------------------------------------------
(* Records. *)

LEMMA SavesOnly ==
  ASSUME TypeOK, [Next]_vars, NEW t \in Torrent, record[t] # "None", record'[t] # record[t]
  PROVE  \E m \in Manager : torrent[m] = t /\ Save(m)
  <1>1. UNCHANGED record \/ (\E u \in Torrent : CreatesRecord(u)) \/ (\E m \in Manager : Save(m))
    <2>1. CASE UNCHANGED vars
      BY <2>1 DEF vars
    <2>2. ASSUME NEW c \in Caller, NEW u \in Torrent,
                 (\E name \in Call : Add(c, name, u)) \/ PauseOrResume(c, u)
          PROVE  UNCHANGED record
      BY <2>2 DEF Add, PauseOrResume
    <2>3. ASSUME NEW c \in Caller, SetEntry(c)
          PROVE  UNCHANGED record \/ (\E u \in Torrent : CreatesRecord(u))
      <3>1. call[c].torrent \in Torrent
        BY <2>3, CallStates DEF TypeOK, SetEntry, Continues, Adding
      <3> QED BY <2>3, <3>1 DEF SetEntry
    <2>4. ASSUME NEW c \in Caller, ContinueUnfinished(c) \/ Runs(c), ~SetEntry(c)
          PROVE  UNCHANGED record
      BY <2>4 DEF ContinueUnfinished, Runs, GetEntry, GetAll, StartAll, Send
    <2>5. ASSUME NEW m \in Manager, RunsManager(m) \/ Fail(m)
          PROVE  UNCHANGED record
      BY <2>5 DEF RunsManager, Register, Serve, Unregister, ManagerBlocks, Blocks, Fail
    <2>6. ASSUME NEW m \in Manager, GotMetadata(m)
          PROVE  UNCHANGED record \/ (\E u \in Torrent : CreatesRecord(u))
      BY <2>6 DEF GotMetadata, TypeOK
    <2>7. ASSUME SpawnListener \/ RunsListener \/ (\E u \in Torrent : Accept(u))
          PROVE  UNCHANGED record
      BY <2>7 DEF SpawnListener, RunsListener, Lookup, StartFromConnection, HandOver,
                    ListenerBlocks, Blocks, Accept
    <2> QED BY <2>1, <2>2, <2>3, <2>4, <2>5, <2>6, <2>7 DEF Next
  <1>2. ASSUME NEW u \in Torrent, CreatesRecord(u) PROVE FALSE
    BY <1>2 DEF CreatesRecord, TypeOK
  <1>3. ASSUME NEW m \in Manager, Save(m) PROVE torrent[m] = t
    BY <1>3 DEF Save, TypeOK
  <1> QED BY <1>1, <1>2, <1>3

LEMMA RecordsStay ==
  ASSUME TypeOK, [Next]_vars, NEW t \in Torrent, record[t] # "None"
  PROVE  record'[t] # "None"
  <1>1. ASSUME NEW m \in Manager, torrent[m] = t, Save(m) PROVE record'[t] # "None"
    BY <1>1 DEF Save, TypeOK
  <1> QED BY <1>1, SavesOnly

-----------------------------------------------------------------------------
(* The registry and the records of the managers. *)

\* A manager is only started where it does no harm.
LEMMA StartKeeps ==
  ASSUME TypeOK, RegisteredIsThere, MetadataHasRecord, [Next]_vars,
         NEW t \in Torrent, NEW b \in Bitfield,
         StartPeerManager(t, b) \/ UNCHANGED managerVars,
         UNCHANGED registry, b # "None" => record'[t] # "None"
  PROVE  RegisteredIsThere' /\ MetadataHasRecord'
  <1>1. CASE UNCHANGED managerVars
    BY <1>1, RecordsStay DEF managerVars, RegisteredIsThere, MetadataHasRecord, TypeOK
  <1>2. CASE StartPeerManager(t, b)
    <2>1. PICK m \in Manager :
            /\ state[m] = "Free"
            /\ state' = [state EXCEPT ![m] = "Spawned"]
            /\ torrent' = [torrent EXCEPT ![m] = t]
            /\ own' = [own EXCEPT ![m] = b]
      BY <1>2 DEF StartPeerManager, IsNext
    <2>2. RegisteredIsThere'
      BY <2>1 DEF RegisteredIsThere, TypeOK
    <2>3. MetadataHasRecord'
      BY <2>1, RecordsStay DEF MetadataHasRecord, TypeOK
    <2> QED BY <2>2, <2>3
  <1> QED BY <1>1, <1>2

\* A step that leaves the managers and the registry alone.
LEMMA IdleKeeps ==
  ASSUME TypeOK, RegisteredIsThere, MetadataHasRecord, [Next]_vars,
         UNCHANGED <<registry, state, torrent, own>>
  PROVE  RegisteredIsThere' /\ MetadataHasRecord'
  BY RecordsStay DEF RegisteredIsThere, MetadataHasRecord, TypeOK

LEMMA ManagerKeeps ==
  ASSUME IInv, [Next]_vars, NEW m \in Manager,
         RunsManager(m) \/ GotMetadata(m) \/ Save(m) \/ Fail(m)
  PROVE  RegisteredIsThere' /\ MetadataHasRecord'
  <1> USE DEF IInv
  <1>1. CASE Register(m)
    <2>1. RegisteredIsThere'
      BY <1>1 DEF Register, RegisteredIsThere, TypeOK
    <2> QED BY <1>1, <2>1 DEF Register, MetadataHasRecord
  <1>2. CASE Serve(m) \/ ManagerBlocks(m)
    BY <1>2, IdleKeeps DEF Serve, ManagerBlocks, Blocks, managerVars
  <1>3. CASE Unregister(m)
    <2>1. RegisteredIsThere'
      BY <1>3 DEF Unregister, RegisteredIsThere, TypeOK
    <2> QED BY <1>3, <2>1 DEF Unregister, MetadataHasRecord
  <1>4. CASE GotMetadata(m)
    <2>1. RegisteredIsThere'
      <3>1. UNCHANGED state \/ state' = [state EXCEPT ![m] = "Ended"]
        BY <1>4 DEF GotMetadata
      <3>2. UNCHANGED <<registry, torrent>> BY <1>4 DEF GotMetadata
      <3>3. CASE UNCHANGED state BY <3>2, <3>3 DEF RegisteredIsThere
      <3>4. CASE state' = [state EXCEPT ![m] = "Ended"]
        BY <3>2, <3>4 DEF RegisteredIsThere, TypeOK
      <3> QED BY <3>1, <3>3, <3>4
    <2>2. MetadataHasRecord'
      BY <1>4, RecordsStay DEF GotMetadata, CreatesRecord, MetadataHasRecord, TypeOK
    <2> QED BY <2>1, <2>2
  <1>5. CASE Save(m)
    <2>1. RegisteredIsThere'
      BY <1>5 DEF Save, RegisteredIsThere
    <2>2. MetadataHasRecord'
      BY <1>5, RecordsStay DEF Save, MetadataHasRecord, TypeOK
    <2> QED BY <2>1, <2>2
  <1>6. CASE Fail(m)
    <2>1. RegisteredIsThere'
      BY <1>6 DEF Fail, RegisteredIsThere, TypeOK
    <2> QED BY <1>6, <2>1 DEF Fail, MetadataHasRecord
  <1> QED BY <1>1, <1>2, <1>3, <1>4, <1>5, <1>6 DEF RunsManager

LEMMA CallKeeps ==
  ASSUME IInv, [Next]_vars, NEW c \in Caller, ContinueUnfinished(c) \/ Runs(c)
  PROVE  RegisteredIsThere' /\ MetadataHasRecord'
  <1> USE DEF IInv
  <1>1. CASE GetEntry(c)
    <2> DEFINE t == call[c].torrent
    <2>1. t \in Torrent /\ record[t] \in Bitfield /\ "None" \in Bitfield
      BY <1>1, CallStates DEF TypeOK, GetEntry, Continues, Adding, Bitfield
    <2>2. \/ StartPeerManager(t, record[t])
          \/ StartPeerManager(t, "None")
          \/ UNCHANGED managerVars
      BY <1>1 DEF GetEntry, StartFromEntry
    <2>3. UNCHANGED <<record, registry>>
      BY <1>1 DEF GetEntry
    <2> QED BY <2>1, <2>2, <2>3, StartKeeps
  <1>2. CASE SetEntry(c)
    <2> DEFINE t == call[c].torrent
    <2>1. t \in Torrent /\ "Unfinished" \in Bitfield
      BY <1>2, CallStates DEF TypeOK, SetEntry, Continues, Adding, Bitfield
    <2>2. UNCHANGED registry
      BY <1>2 DEF SetEntry
    <2>3. CASE UNCHANGED managerVars
      BY <2>1, <2>2, <2>3, IdleKeeps DEF managerVars
    <2>4. CASE CreatesRecord(t) /\ StartPeerManager(t, "Unfinished")
      <3>1. record'[t] # "None"
        BY <2>1, <2>4 DEF CreatesRecord, TypeOK
      <3> QED BY <2>1, <2>2, <2>4, <3>1, StartKeeps
    <2> QED BY <1>2, <2>3, <2>4 DEF SetEntry, StartFromEntry
  <1>3. CASE StartAll(c)
    <2>1. call[c] \in Starting
      BY <1>3, CallStates DEF TypeOK, StartAll, Continues
    <2>2. UNCHANGED <<record, registry>>
      BY <1>3 DEF StartAll
    <2>3. CASE UNCHANGED managerVars
      BY <2>2, <2>3, IdleKeeps DEF managerVars
    <2>4. ASSUME NEW t \in call[c].entries, StartPeerManager(t, "Unfinished")
          PROVE  RegisteredIsThere' /\ MetadataHasRecord'
      <3>1. t \in Torrent /\ record[t] # "None" /\ "Unfinished" \in Bitfield
        BY <1>3, <2>1 DEF Starting, StartAll, Continues, EntriesHaveRecord, Bitfield
      <3> QED BY <2>2, <2>4, <3>1, StartKeeps
    <2> QED BY <1>3, <2>3, <2>4 DEF StartAll, StartFromEntry
  <1>4. CASE ContinueUnfinished(c) \/ GetAll(c) \/ Send(c)
    BY <1>4, IdleKeeps DEF ContinueUnfinished, GetAll, Send, managerVars
  <1> QED BY <1>1, <1>2, <1>3, <1>4 DEF Runs

LEMMA ListenerKeeps ==
  ASSUME IInv, [Next]_vars,
         SpawnListener \/ RunsListener \/ (\E t \in Torrent : Accept(t))
  PROVE  RegisteredIsThere' /\ MetadataHasRecord'
  <1> USE DEF IInv
  <1>1. CASE StartFromConnection
    <2> DEFINE t == listener.torrent
    <2>1. t \in Torrent /\ record[t] \in Bitfield
      BY <1>1 DEF StartFromConnection, TypeOK
    <2>2. /\ StartPeerManager(t, record[t]) \/ UNCHANGED managerVars
          /\ UNCHANGED <<record, registry>>
      BY <1>1 DEF StartFromConnection
    <2> QED BY <2>1, <2>2, StartKeeps
  <1>2. CASE SpawnListener \/ Lookup \/ HandOver \/ ListenerBlocks \/ (\E t \in Torrent : Accept(t))
    BY <1>2, IdleKeeps DEF SpawnListener, Lookup, HandOver, ListenerBlocks, Blocks, Accept, managerVars
  <1> QED BY <1>1, <1>2 DEF RunsListener

\* A call goes through entries that it found, or through fewer of them.
LEMMA EntriesKept ==
  ASSUME TypeOK, EntriesHaveRecord, [Next]_vars
  PROVE  EntriesHaveRecord'
  <1>1. SUFFICES ASSUME NEW c \in Caller, call'[c].pc = "StartAll",
                        NEW t \in call'[c].entries
                 PROVE  record'[t] # "None"
    BY DEF EntriesHaveRecord
  <1>2. CASE call'[c] = call[c]
    <2>1. t \in Torrent /\ record[t] # "None"
      BY <1>1, <1>2, CallStates DEF EntriesHaveRecord, TypeOK, Starting
    <2> QED BY <2>1, RecordsStay
  <1>3. ASSUME GetAll(c) PROVE record'[t] # "None"
    BY <1>1, <1>3 DEF GetAll, TypeOK
  <1>4. ASSUME StartAll(c) PROVE record'[t] # "None"
    <2>1. call[c] \in Starting /\ call[c].pc = "StartAll"
      BY <1>4, CallStates DEF TypeOK, StartAll, Continues
    <2>2. t \in call[c].entries
      <3>1. CASE Returns(c)
        BY <1>1, <3>1 DEF Returns, Idle, TypeOK
      <3>2. ASSUME NEW u \in call[c].entries,
                   call' = [call EXCEPT ![c].entries = @ \ {u}]
            PROVE  t \in call[c].entries
        <4>1. call'[c] = [call[c] EXCEPT !.entries = @ \ {u}]
          BY <3>2 DEF TypeOK
        <4>2. call'[c].entries = call[c].entries \ {u}
          BY <2>1, <4>1 DEF Starting
        <4> QED BY <1>1, <4>2
      <3> QED BY <1>4, <3>1, <3>2 DEF StartAll
    <2>3. t \in Torrent /\ record[t] # "None"
      BY <2>1, <2>2 DEF Starting, EntriesHaveRecord
    <2> QED BY <2>3, RecordsStay
  <1>5. call'[c] = call[c] \/ call'[c].pc # "StartAll" \/ GetAll(c) \/ StartAll(c)
    <2>1. CASE UNCHANGED vars \/ SpawnListener \/ RunsListener \/ (\E u \in Torrent : Accept(u))
      BY <2>1 DEF vars, SpawnListener, RunsListener, Lookup, StartFromConnection,
                  HandOver, ListenerBlocks, Blocks, Accept
    <2>2. ASSUME NEW m \in Manager, RunsManager(m) \/ GotMetadata(m) \/ Save(m) \/ Fail(m)
          PROVE  call'[c] = call[c]
      BY <2>2 DEF RunsManager, Register, Serve, Unregister, ManagerBlocks, Blocks,
                  GotMetadata, Save, Fail
    <2>3. ASSUME NEW d \in Caller, NEW u \in Torrent,
                 (\E name \in Call : Add(d, name, u)) \/ PauseOrResume(d, u)
          PROVE  call'[c] = call[c] \/ call'[c].pc # "StartAll"
      BY <2>3 DEF Add, PauseOrResume, TypeOK
    <2>4. ASSUME NEW d \in Caller, d # c, ContinueUnfinished(d) \/ Runs(d)
          PROVE  call'[c] = call[c]
      BY <2>4 DEF ContinueUnfinished, Runs, GetEntry, SetEntry, GetAll, StartAll, Send, Returns, TypeOK
    <2>5. ASSUME ContinueUnfinished(c) \/ Send(c) \/ SetEntry(c)
          PROVE  call'[c].pc # "StartAll"
      BY <2>5 DEF ContinueUnfinished, Send, SetEntry, Returns, Idle, TypeOK
    <2>6. ASSUME GetEntry(c) PROVE call'[c].pc # "StartAll"
      <3>1. CASE Returns(c)
        BY <3>1 DEF Returns, Idle, TypeOK
      <3>2. CASE call' = [call EXCEPT ![c].pc = "SetEntry"]
        <4>1. call[c] \in Adding
          BY <2>6, CallStates DEF TypeOK, GetEntry, Continues
        <4>2. call'[c] = [call[c] EXCEPT !.pc = "SetEntry"]
          BY <3>2 DEF TypeOK
        <4> QED BY <4>1, <4>2 DEF Adding
      <3> QED BY <2>6, <3>1, <3>2 DEF GetEntry
    <2> QED BY <2>1, <2>2, <2>3, <2>4, <2>5, <2>6 DEF Next, Runs
  <1> QED BY <1>1, <1>2, <1>3, <1>4, <1>5

-----------------------------------------------------------------------------

LEMMA InitInv == Init => IInv
  <1> SUFFICES ASSUME Init PROVE IInv OBVIOUS
  <1>1. TypeOK BY InitType
  <1>2. RegisteredIsThere BY DEF Init, RegisteredIsThere
  <1>3. MetadataHasRecord BY DEF Init, MetadataHasRecord
  <1>4. EntriesHaveRecord BY DEF Init, EntriesHaveRecord, Idle
  <1> QED BY <1>1, <1>2, <1>3, <1>4 DEF IInv

LEMMA NextInv == IInv /\ [Next]_vars => IInv'
  <1> SUFFICES ASSUME IInv, [Next]_vars PROVE IInv' OBVIOUS
  <1>1. TypeOK' BY NextType DEF IInv
  <1>2. EntriesHaveRecord' BY EntriesKept DEF IInv
  <1>3. RegisteredIsThere' /\ MetadataHasRecord'
    <2>1. CASE UNCHANGED vars
      BY <2>1, IdleKeeps DEF IInv, vars, managerVars
    <2>2. ASSUME NEW c \in Caller, NEW t \in Torrent,
                 (\E name \in Call : Add(c, name, t)) \/ PauseOrResume(c, t)
          PROVE  RegisteredIsThere' /\ MetadataHasRecord'
      BY <2>2, IdleKeeps DEF IInv, Add, PauseOrResume, managerVars
    <2> QED BY <2>1, <2>2, CallKeeps, ManagerKeeps, ListenerKeeps DEF Next
  <1> QED BY <1>1, <1>2, <1>3 DEF IInv

\* The inductive invariant of the client: its types, the registry, and the
\* records behind the managers and behind the entries that calls go through.
THEOREM ClientInvariant == Spec => []IInv
  BY InitInv, NextInv, PTL DEF Spec

\* The client's state, the channels of the managers and every call in
\* progress have their types, and no channel exceeds its size.
THEOREM ClientTypeCorrect == Spec => []TypeOK
  <1>1. IInv => TypeOK BY DEF IInv
  <1> QED BY <1>1, ClientInvariant, PTL

\* However many managers of a torrent are started, replaced and removed, the
\* registry names a manager of that torrent that has not left.
THEOREM RegisteredAlwaysThere == Spec => []RegisteredIsThere
  <1>1. IInv => RegisteredIsThere BY DEF IInv
  <1> QED BY <1>1, ClientInvariant, PTL

\* Every manager that has the metadata finds its record when it saves a
\* piece: the assertion in update_bitfields never fails.
THEOREM MetadataAlwaysHasRecord == Spec => []MetadataHasRecord
  <1>1. IInv => MetadataHasRecord BY DEF IInv
  <1> QED BY <1>1, ClientInvariant, PTL

\* No call of the application and no manager that gets its metadata changes
\* a record that exists.
THEOREM ProgressAlwaysKept == Spec => ProgressIsKept
  <1>1. TypeOK /\ [Next]_vars =>
          [\A t \in Torrent :
             record[t] \notin {"None", record'[t]} => \E m \in Manager : torrent[m] = t /\ Save(m)]_vars
    BY SavesOnly
  <1> QED BY <1>1, ClientTypeCorrect, PTL DEF Spec, ProgressIsKept

-----------------------------------------------------------------------------
(* The lock that is held across an await.                                   *)

\* Who holds it is sending, and the tasks that wait for it are starting or
\* have ended.
LockInv ==
  /\ lock # NoCaller => call[lock].pc = "Send"
  /\ \A m \in Manager : m \in blocked => state[m] \in {"Spawned", "Ended"}

LEMMA StartBlocks ==
  ASSUME TypeOK, NEW t, NEW b, StartFromEntry(t, b) \/ UNCHANGED managerVars,
         NEW m \in Manager, state[m] \in {"Spawned", "Ended"}
  PROVE  state'[m] \in {"Spawned", "Ended"}
  BY DEF TypeOK, StartFromEntry, StartPeerManager, managerVars

\* A step of a call of c, which is not the one that holds the lock.
LEMMA CallLock ==
  ASSUME TypeOK, LockInv, NEW c \in Caller, call[c].pc # "Send",
         UNCHANGED <<lock, blocked>>,
         \A d \in Caller : d # c => call'[d] = call[d],
         \A m \in Manager :
           state[m] \in {"Spawned", "Ended"} => state'[m] \in {"Spawned", "Ended"}
  PROVE  LockInv'
  BY DEF LockInv, TypeOK

LEMMA CallsLock ==
  ASSUME TypeOK, LockInv, NEW c \in Caller,
         \/ \E t \in Torrent, name \in Call : Add(c, name, t)
         \/ ContinueUnfinished(c)
         \/ Runs(c)
         \/ \E t \in Torrent : PauseOrResume(c, t)
  PROVE  LockInv'
  <1>1. CASE \/ \E t \in Torrent, name \in Call : Add(c, name, t)
             \/ ContinueUnfinished(c) \/ GetAll(c)
    <2>1. /\ call[c].pc # "Send" /\ UNCHANGED <<lock, blocked, state>>
          /\ \A d \in Caller : d # c => call'[d] = call[d]
      BY <1>1
      DEF Add, ContinueUnfinished, GetAll, Calling, Continues, Idle, managerVars, TypeOK
    <2> QED BY <2>1, CallLock
  <1>2. CASE GetEntry(c) \/ SetEntry(c) \/ StartAll(c)
    <2>1. /\ call[c].pc # "Send" /\ UNCHANGED <<lock, blocked>>
          /\ \A d \in Caller : d # c => call'[d] = call[d]
      BY <1>2 DEF GetEntry, SetEntry, StartAll, Continues, Returns, TypeOK
    <2>2. \/ UNCHANGED managerVars
          \/ \E t, b : StartFromEntry(t, b)
      BY <1>2 DEF GetEntry, SetEntry, StartAll, StartFromEntry
    <2>3. \A m \in Manager :
            state[m] \in {"Spawned", "Ended"} => state'[m] \in {"Spawned", "Ended"}
      BY <2>2, StartBlocks
    <2> QED BY <2>1, <2>3, CallLock
  <1>3. CASE Send(c)
    BY <1>3 DEF Send, LockInv
  <1>4. ASSUME NEW t \in Torrent, PauseOrResume(c, t)
        PROVE  LockInv'
    BY <1>4 DEF PauseOrResume, LockInv, TypeOK, managerVars
  <1> QED BY <1>1, <1>2, <1>3, <1>4 DEF Runs

LEMMA ManagersLock ==
  ASSUME TypeOK, LockInv, NEW m \in Manager,
         RunsManager(m) \/ GotMetadata(m) \/ Save(m) \/ Fail(m)
  PROVE  LockInv'
  <1>1. CASE Register(m) \/ Unregister(m)
    BY <1>1 DEF Register, Unregister, Locks, LockInv, TypeOK
  <1>2. CASE Serve(m) \/ GotMetadata(m) \/ Save(m) \/ Fail(m)
    <2>1. /\ UNCHANGED <<lock, call, blocked>> /\ m \notin blocked
          /\ \A n \in Manager : n # m => state'[n] = state[n]
      BY <1>2 DEF Serve, GotMetadata, Save, Fail, RunsOn, TypeOK
    <2> QED BY <2>1 DEF LockInv
  <1>3. CASE ManagerBlocks(m)
    BY <1>3 DEF ManagerBlocks, Blocks, managerVars, LockInv
  <1> QED BY <1>1, <1>2, <1>3 DEF RunsManager

LEMMA ListenerLock ==
  ASSUME TypeOK, LockInv, SpawnListener \/ RunsListener \/ \E t \in Torrent : Accept(t)
  PROVE  LockInv'
  <1>1. CASE SpawnListener \/ Lookup \/ HandOver \/ \E t \in Torrent : Accept(t)
    <2>1. /\ UNCHANGED <<lock, call, state>> /\ blocked' \subseteq blocked
      BY <1>1 DEF SpawnListener, Lookup, HandOver, Accept, Locks, RunsOn, managerVars
    <2> QED BY <2>1 DEF LockInv
  <1>2. CASE ListenerBlocks
    BY <1>2 DEF ListenerBlocks, Blocks, managerVars, LockInv
  <1>3. CASE StartFromConnection
    <2>1. /\ UNCHANGED <<lock, call, blocked>>
          /\ UNCHANGED managerVars \/ \E t, b : StartFromEntry(t, b)
      BY <1>3 DEF StartFromConnection, StartFromEntry, RunsOn
    <2>2. \A m \in Manager :
            state[m] \in {"Spawned", "Ended"} => state'[m] \in {"Spawned", "Ended"}
      BY <2>1, StartBlocks
    <2> QED BY <2>1, <2>2 DEF LockInv
  <1> QED BY <1>1, <1>2, <1>3 DEF RunsListener

LEMMA NextLock == TypeOK /\ LockInv /\ [Next]_vars => LockInv'
  <1> SUFFICES ASSUME TypeOK, LockInv, [Next]_vars PROVE LockInv'
    OBVIOUS
  <1>1. CASE UNCHANGED vars
    BY <1>1 DEF vars, managerVars, LockInv
  <1> QED BY <1>1, CallsLock, ManagersLock, ListenerLock DEF Next

\* pause_download and resume_download hold a std mutex while they await room in
\* a manager's channel.  With more workers than managers that never becomes a
\* deadlock: as long as the lock is held, its holder's send goes through or
\* fails at once, or the manager it waits for has a worker left to take a
\* message with, however many tasks wait for the lock.
HolderIsServed ==
  lock # NoCaller =>
    LET m == call[lock].to IN
    /\ call[lock].pc = "Send"
    /\ Receives(m) =>
         \/ mail[m] < ChannelSize
         \/ mail[m] > 0 /\ m \notin blocked /\ HasWorker(m)

THEOREM HolderAlwaysServed ==
  ASSUME Workers > MaxManagers
  PROVE  Spec => []HolderIsServed
  <1>1. Init => LockInv
    BY DEF Init, LockInv
  <1>2. TypeOK /\ LockInv /\ [Next]_vars => LockInv'
    BY NextLock
  <1>3. TypeOK /\ LockInv => HolderIsServed
    <2> SUFFICES ASSUME TypeOK, LockInv, lock # NoCaller
                 PROVE  HolderIsServed
      BY DEF HolderIsServed
    <2> DEFINE m == call[lock].to
    <2>1. call[lock].pc = "Send"
      BY DEF LockInv
    <2>2. m \in Manager
      BY <2>1, CallStates DEF TypeOK, Sending
    <2> HIDE DEF m
    <2>3. mail[m] \in 0..ChannelSize
      BY <2>2 DEF TypeOK
    <2>4. ASSUME Receives(m) PROVE m \notin blocked /\ Cardinality(blocked) < Workers
      <3>1. m \notin blocked
        BY <2>2, <2>4 DEF LockInv, Receives
      <3>2. PICK rest : rest = (0..MaxManagers) \ {m}
        OBVIOUS
      <3>3. blocked \subseteq rest
        BY <3>1, <3>2, ClientAssumption DEF TypeOK
      <3>4. /\ IsFiniteSet(0..MaxManagers) /\ m \in 0..MaxManagers
            /\ Cardinality(0..MaxManagers) = MaxManagers + 1
        <4>1. /\ Cardinality(0..MaxManagers) =
                   IF 0 > MaxManagers THEN 0 ELSE MaxManagers - 0 + 1
              /\ IsFiniteSet(0..MaxManagers)
          BY ClientAssumption, FS_Interval
        <4> QED BY <2>2, <4>1, ClientAssumption
      <3>5. IsFiniteSet(rest) /\ Cardinality(rest) = Cardinality(0..MaxManagers) - 1
        BY ONLY <3>2, <3>4, FS_RemoveElement
      <3>6. Cardinality(blocked) \in Nat /\ Cardinality(blocked) <= Cardinality(rest)
        BY ONLY <3>3, <3>5, FS_Subset, FS_CardinalityType
      <3>7. Cardinality(blocked) <= MaxManagers
        BY <3>4, <3>5, <3>6, ClientAssumption
      <3> QED BY <3>1, <3>6, <3>7, ClientAssumption
    <2>5. Receives(m) =>
            \/ mail[m] < ChannelSize
            \/ mail[m] > 0 /\ m \notin blocked /\ HasWorker(m)
      BY <2>3, <2>4, ClientAssumption DEF HasWorker
    <2> QED BY <2>1, <2>5 DEF HolderIsServed, m
  <1> QED BY <1>1, <1>2, <1>3, ClientTypeCorrect, PTL DEF Spec

=============================================================================
