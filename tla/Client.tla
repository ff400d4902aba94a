------------------------------- MODULE Client -------------------------------
(***************************************************************************)
(* The client (client.rs): its registry of peer managers behind a std      *)
(* Mutex, the calls of the application, the listener, and of each manager  *)
(* its life: spawned, registered, running and ended.                       *)
(*                                                                         *)
(* A call is cut where it awaits (the database, a channel) or takes the    *)
(* lock.  The application's calls run on threads of their own; managers    *)
(* and the listener are tasks on the runtime's workers, and a task that    *)
(* waits for the lock keeps its worker.                                    *)
(***************************************************************************)
EXTENDS Naturals, FiniteSets

CONSTANTS
  Torrent,          \* info hashes
  Caller,           \* the application's threads
  Builder,          \* the one that builds the client
  MaxManagers,      \* bound: managers are started no more often
  Workers,          \* the runtime's worker threads
  ChannelSize,      \* CLIENT_CHANNEL_SIZE (16)
  Calls,            \* the calls that the application makes
  MayPanic          \* whether a manager may panic

Manager == 1..MaxManagers
NoManager == 0
NoCaller == "none"

Bitfield == {"None", "Unfinished", "Finished"}

Call == {"add_torrent", "add_magnet", "pause_or_resume", "continue_unfinished"}

ASSUME ClientAssumption ==
  /\ Builder \in Caller /\ NoCaller \notin Caller
  /\ MaxManagers \in Nat /\ Workers \in Nat \ {0} /\ ChannelSize \in Nat \ {0}
  /\ Calls \subseteq Call /\ MayPanic \in BOOLEAN

VARIABLES
  record,           \* the database: "None", "Unfinished" or "Finished"
  registry,         \* peer_managers
  lock,             \* who holds its mutex across an await
  state,            \* of each manager's task
  torrent,          \* what each manager downloads
  own,              \* its own bitfield; "None" while it has no metadata
  mail,             \* the client's messages in its channel
  call,             \* what each caller does
  listener,         \* what the listener does
  blocked           \* the tasks that keep a worker while they wait for the lock

managerVars == <<state, torrent, own, mail>>
vars == <<record, registry, lock, managerVars, call, listener, blocked>>

Idle == [pc |-> "Idle"]
TheListener == 0

\* A task that runs needs a worker, unless it already keeps one.
HasWorker(task) == task \in blocked \/ Cardinality(blocked) < Workers

\* A task takes the lock and gives it back.
Locks(task) == HasWorker(task) /\ lock = NoCaller /\ blocked' = blocked \ {task}
RunsOn(task) == task \notin blocked /\ HasWorker(task) /\ UNCHANGED blocked

Blocks(task) ==
  /\ lock # NoCaller /\ task \notin blocked /\ HasWorker(task)
  /\ blocked' = blocked \cup {task}
  /\ UNCHANGED <<record, registry, lock, managerVars, call, listener>>

-----------------------------------------------------------------------------
(* Starting managers. *)

IsNext(m) == state[m] = "Free" /\ \A n \in 1..(m - 1) : state[n] # "Free"

\* start_peer_manager: the task is spawned, and registers itself when it runs.
StartPeerManager(t, bitfield) ==
  \E m \in Manager :
    /\ IsNext(m)
    /\ state' = [state EXCEPT ![m] = "Spawned"]
    /\ torrent' = [torrent EXCEPT ![m] = t]
    /\ own' = [own EXCEPT ![m] = bitfield]
    /\ UNCHANGED mail

\* init_from_entry opens the output file, which may fail.
StartFromEntry(t, bitfield) == StartPeerManager(t, bitfield) \/ UNCHANGED managerVars

\* mutant: set_entry replaces an existing record
CreatesAnyRecord(t) == record' = [record EXCEPT ![t] = "Unfinished"]

\* mutant: the new entry is not stored
WritesNoRecord(t) == record[t] = "None" /\ UNCHANGED record

\* set_entry: create fails on an existing record.
CreatesRecord(t) == record[t] = "None" /\ record' = [record EXCEPT ![t] = "Unfinished"]

-----------------------------------------------------------------------------
(* The application's calls. *)

Calling(c, name) == listener.pc # "Off" /\ call[c] = Idle /\ name \in Calls
Continues(c, pc) == call[c].pc = pc
Returns(c) == call' = [call EXCEPT ![c] = Idle]

\* add_torrent and add_magnet up to the look into the database:
\* is_already_downloading takes the lock and gives it back.
Add(c, name, t) ==
  /\ Calling(c, name) /\ name \in {"add_torrent", "add_magnet"}
  /\ lock = NoCaller
  /\ registry[t] = NoManager
  /\ call' = [call EXCEPT ![c] = [pc |-> "GetEntry", name |-> name, torrent |-> t]]
  /\ UNCHANGED <<record, registry, lock, managerVars, listener, blocked>>

\* Reading the database may fail, and the call with it.
GetEntry(c) ==
  /\ Continues(c, "GetEntry")
  /\ LET t == call[c].torrent IN
     \/ /\ record[t] # "None"
        /\ StartFromEntry(t, record[t]) /\ Returns(c)
     \/ /\ record[t] = "None" /\ call[c].name = "add_magnet"
        /\ StartPeerManager(t, "None") /\ Returns(c)
     \/ /\ record[t] = "None" /\ call[c].name = "add_torrent"
        /\ call' = [call EXCEPT ![c].pc = "SetEntry"]
        /\ UNCHANGED managerVars
     \/ Returns(c) /\ UNCHANGED managerVars
  /\ UNCHANGED <<record, registry, lock, listener, blocked>>

SetEntry(c) ==
  /\ Continues(c, "SetEntry")
  /\ LET t == call[c].torrent IN
     \/ CreatesRecord(t) /\ StartFromEntry(t, "Unfinished")
     \/ UNCHANGED <<record, managerVars>>
  /\ Returns(c)
  /\ UNCHANGED <<registry, lock, listener, blocked>>

\* continue_download_unfinished does not look at the registry.
ContinueUnfinished(c) ==
  /\ Calling(c, "continue_unfinished")
  /\ call' = [call EXCEPT ![c] = [pc |-> "GetAll"]]
  /\ UNCHANGED <<record, registry, lock, managerVars, listener, blocked>>

\* get_all has no entries when it fails.
GetAll(c) ==
  /\ Continues(c, "GetAll")
  /\ \E entries \in {{}, {t \in Torrent : record[t] = "Unfinished"}} :
       call' = [call EXCEPT ![c] = [pc |-> "StartAll", entries |-> entries]]
  /\ UNCHANGED <<record, registry, lock, managerVars, listener, blocked>>

StartAll(c) ==
  /\ Continues(c, "StartAll")
  /\ \/ \E t \in call[c].entries :
          /\ StartFromEntry(t, "Unfinished")
          /\ call' = [call EXCEPT ![c].entries = @ \ {t}]
     \/ /\ call[c].entries = {}
        /\ Returns(c) /\ UNCHANGED managerVars
  /\ UNCHANGED <<record, registry, lock, listener, blocked>>

\* pause_download and resume_download hold the guard across the send.
PauseOrResume(c, t) ==
  /\ Calling(c, "pause_or_resume")
  /\ lock = NoCaller /\ registry[t] # NoManager
  /\ lock' = c
  /\ call' = [call EXCEPT ![c] = [pc |-> "Send", to |-> registry[t]]]
  /\ UNCHANGED <<record, registry, managerVars, listener, blocked>>

Receives(m) == state[m] = "Running"

\* mutant: the guard is not dropped when the receiver is gone
SendsToLiving(c) ==
  /\ Continues(c, "Send") /\ Receives(call[c].to) /\ mail[call[c].to] < ChannelSize
  /\ mail' = [mail EXCEPT ![call[c].to] = @ + 1]
  /\ lock' = NoCaller
  /\ Returns(c)
  /\ UNCHANGED <<record, registry, state, torrent, own, listener, blocked>>

\* A send to a manager that has ended fails at once.
Send(c) ==
  /\ Continues(c, "Send")
  /\ LET m == call[c].to IN
     IF Receives(m)
     THEN mail[m] < ChannelSize /\ mail' = [mail EXCEPT ![m] = @ + 1]
     ELSE UNCHANGED mail
  /\ lock' = NoCaller
  /\ Returns(c)
  /\ UNCHANGED <<record, registry, state, torrent, own, listener, blocked>>

Runs(c) == GetEntry(c) \/ SetEntry(c) \/ GetAll(c) \/ StartAll(c) \/ Send(c)

-----------------------------------------------------------------------------
(* The managers. *)

\* The spawned task's first step.  An entry of the same torrent is replaced.
Register(m) ==
  /\ state[m] = "Spawned"
  /\ Locks(m)
  /\ state' = [state EXCEPT ![m] = "Running"]
  /\ registry' = [registry EXCEPT ![torrent[m]] = m]
  /\ UNCHANGED <<record, lock, torrent, own, mail, call, listener>>

Serve(m) ==
  /\ Receives(m) /\ mail[m] > 0 /\ RunsOn(m)
  /\ mail' = [mail EXCEPT ![m] = @ - 1]
  /\ UNCHANGED <<record, registry, lock, state, torrent, own, call, listener>>

\* transition_downloading: an existing record ends the manager.
GotMetadata(m) ==
  /\ Receives(m) /\ own[m] = "None" /\ RunsOn(m)
  /\ \/ /\ CreatesRecord(torrent[m])
        /\ own' = [own EXCEPT ![m] = "Unfinished"]
        /\ UNCHANGED state
     \/ /\ record[torrent[m]] # "None"
        /\ state' = [state EXCEPT ![m] = "Ended"]
        /\ UNCHANGED <<record, own>>
  /\ UNCHANGED <<registry, lock, torrent, mail, call, listener>>

\* update_bitfields: a piece is saved, and the record gets the manager's own
\* bitfield, whatever it says by now.
Save(m) ==
  /\ Receives(m) /\ own[m] = "Unfinished" /\ RunsOn(m)
  /\ \E bitfield \in {"Unfinished", "Finished"} :
       /\ own' = [own EXCEPT ![m] = bitfield]
       /\ record' = [record EXCEPT ![torrent[m]] = bitfield]
  /\ UNCHANGED <<registry, lock, state, torrent, mail, call, listener>>

\* run returns an error, or panics: an event that nobody receives is enough.
Fail(m) ==
  /\ Receives(m) /\ RunsOn(m)
  /\ \E end \in {"Ended"} \cup (IF MayPanic THEN {"Panicked"} ELSE {}) :
       state' = [state EXCEPT ![m] = end]
  /\ UNCHANGED <<record, registry, lock, torrent, own, mail, call, listener>>

\* mutant: the entry stays
GoesSilently(m) ==
  /\ state[m] = "Ended"
  /\ Locks(m)
  /\ state' = [state EXCEPT ![m] = "Gone"]
  /\ UNCHANGED <<record, registry, lock, torrent, own, mail, call, listener>>

\* mutant: the entry is only removed when the lock is free (try_lock)
TriesLock(m) ==
  /\ state[m] = "Ended" /\ RunsOn(m)
  /\ state' = [state EXCEPT ![m] = "Gone"]
  /\ registry' = IF lock = NoCaller THEN [registry EXCEPT ![torrent[m]] = NoManager] ELSE registry
  /\ UNCHANGED <<record, lock, torrent, own, mail, call, listener>>

\* The entry of its info hash is removed, whose ever it is by now.
Unregister(m) ==
  /\ state[m] = "Ended"
  /\ Locks(m)
  /\ state' = [state EXCEPT ![m] = "Gone"]
  /\ registry' = [registry EXCEPT ![torrent[m]] = NoManager]
  /\ UNCHANGED <<record, lock, torrent, own, mail, call, listener>>

ManagerBlocks(m) == state[m] \in {"Spawned", "Ended"} /\ Blocks(m)

RunsManager(m) == Register(m) \/ Serve(m) \/ Unregister(m) \/ ManagerBlocks(m)

-----------------------------------------------------------------------------
(* The listener: one connection at a time. *)

\* ClientOptions::build starts it when the unfinished downloads are started.
SpawnListener ==
  /\ listener.pc = "Off" /\ call[Builder] = Idle
  /\ listener' = [pc |-> "Accept"]
  /\ UNCHANGED <<record, registry, lock, managerVars, call, blocked>>

\* A remote connects and shakes hands for a torrent.
Accept(t) ==
  /\ listener.pc = "Accept" /\ RunsOn(TheListener)
  /\ listener' = [pc |-> "Lookup", torrent |-> t]
  /\ UNCHANGED <<record, registry, lock, managerVars, call>>

\* The connection of a torrent with a registered manager is handed over to it.
Lookup ==
  /\ listener.pc = "Lookup"
  /\ Locks(TheListener)
  /\ listener' = IF registry[listener.torrent] # NoManager THEN [pc |-> "HandOver"]
                 ELSE [listener EXCEPT !.pc = "GetEntry"]
  /\ UNCHANGED <<record, registry, lock, managerVars, call>>

\* That of another torrent starts one, unless there is no record, or reading it
\* or opening the file fails.
StartFromConnection ==
  /\ listener.pc = "GetEntry" /\ RunsOn(TheListener)
  /\ \/ /\ record[listener.torrent] # "None"
        /\ StartPeerManager(listener.torrent, record[listener.torrent])
        /\ listener' = [pc |-> "HandOver"]
     \/ listener' = [pc |-> "Accept"] /\ UNCHANGED managerVars
  /\ UNCHANGED <<record, registry, lock, call>>

\* connect_to_peer_manager waits for room in the manager's queue, for as long
\* as that is full; a send that fails only drops the connection.
HandOver ==
  /\ listener.pc = "HandOver" /\ RunsOn(TheListener)
  /\ listener' = [pc |-> "Accept"]
  /\ UNCHANGED <<record, registry, lock, managerVars, call>>

ListenerBlocks == listener.pc = "Lookup" /\ Blocks(TheListener)

RunsListener == Lookup \/ StartFromConnection \/ HandOver \/ ListenerBlocks

-----------------------------------------------------------------------------

Init ==
  /\ record \in [Torrent -> Bitfield]
  /\ registry = [t \in Torrent |-> NoManager]
  /\ lock = NoCaller
  /\ state = [m \in Manager |-> "Free"]
  /\ torrent \in {[m \in Manager |-> t] : t \in Torrent}
  /\ own = [m \in Manager |-> "None"]
  /\ mail = [m \in Manager |-> 0]
  /\ \E first \in {Idle, [pc |-> "GetAll"]} :
       call = [c \in Caller |-> IF c = Builder THEN first ELSE Idle]
  /\ listener = [pc |-> "Off"]
  /\ blocked = {}

Next ==
  \/ \E c \in Caller, t \in Torrent :
       \/ \E name \in Call : Add(c, name, t)
       \/ PauseOrResume(c, t)
  \/ \E c \in Caller : ContinueUnfinished(c) \/ Runs(c)
  \/ \E m \in Manager : RunsManager(m) \/ GotMetadata(m) \/ Save(m) \/ Fail(m)
  \/ SpawnListener \/ RunsListener
  \/ \E t \in Torrent : Accept(t)

Spec == Init /\ [][Next]_vars

-----------------------------------------------------------------------------

TaskState == {"Free", "Spawned", "Running", "Ended", "Gone", "Panicked"}

CallState ==
  {Idle} \cup [pc: {"GetAll"}]
    \cup [pc: {"GetEntry", "SetEntry"}, name: {"add_torrent", "add_magnet"}, torrent: Torrent]
    \cup [pc: {"StartAll"}, entries: SUBSET Torrent]
    \cup [pc: {"Send"}, to: Manager]

\* The type of the state.
TypeOK ==
  /\ record \in [Torrent -> Bitfield]
  /\ registry \in [Torrent -> Manager \cup {NoManager}]
  /\ lock \in Caller \cup {NoCaller}
  /\ state \in [Manager -> TaskState]
  /\ torrent \in [Manager -> Torrent] /\ own \in [Manager -> Bitfield]
  /\ mail \in [Manager -> 0..ChannelSize]
  /\ call \in [Caller -> CallState]
  /\ listener \in [pc: {"Off", "Accept", "HandOver"}] \cup [pc: {"Lookup", "GetEntry"}, torrent: Torrent]
  /\ blocked \subseteq Manager \cup {TheListener}

\* A registered manager is of that torrent and has not gone: whichever of two
\* managers of a torrent ends first, and whoever removes whose entry.
RegisteredIsThere ==
  \A t \in Torrent : registry[t] # NoManager =>
    /\ torrent[registry[t]] = t
    /\ state[registry[t]] \in {"Running", "Ended", "Panicked"}

\* A manager past the metadata has a record to write its bitfield to
\* (update_bitfields asserts it), however many calls and managers race.
MetadataHasRecord ==
  \A m \in Manager : own[m] # "None" => record[torrent[m]] # "None"

\* Only a manager that saves a piece changes an existing record: adding a
\* torrent again never resets its progress, not even when the record appears
\* between another call's get_entry and set_entry.
ProgressIsKept ==
  [][\A t \in Torrent :
       record[t] \notin {"None", record'[t]} => \E m \in Manager : torrent[m] = t /\ Save(m)]_vars

\* The torrent that add_* or the listener finds no manager for has none
\* (client.rs, "No, then we might still have the file but just not a peer
\* manager").
OneManagerPerTorrent ==
  \A m, n \in Manager :
    /\ m # n /\ torrent[m] = torrent[n]
    /\ {state[m], state[n]} \subseteq {"Spawned", "Running"}
    => FALSE

\* The database answers and threads run; Tokio polls every woken task, so a
\* running manager takes the client's messages while a worker is left; and who
\* waits for the lock gets it at some time if it is given back again and again
\* (the mutex is not fair, but the application does not take it all the time).
Fairness ==
  /\ \A c \in Caller : WF_vars(Runs(c))
  /\ \A m \in Manager : SF_vars(Register(m)) /\ WF_vars(Serve(m)) /\ SF_vars(Unregister(m))
  /\ SF_vars(Lookup) /\ WF_vars(StartFromConnection)

FairSpec == Spec /\ Fairness

\* Every call of the application returns, and gives the lock back (client.rs,
\* "I think thats enough for simple pause/resume messages").
CallsReturn == \A c \in Caller : call[c] # Idle ~> call[c] = Idle

\* A manager that ends with an error is not found any more.
EndedIsForgotten ==
  \A m \in Manager : state[m] = "Ended" ~> \A t \in Torrent : registry[t] # m

-----------------------------------------------------------------------------
(* What the repository says and the code does not keep: the model refutes  *)
(* each of these (README, section 4).                                       *)

\* A torrent that is_already_downloading has a manager (client.rs, "do we
\* already have a peer_manager running for this torrent?").
RegisteredIsRunning ==
  \A t \in Torrent : registry[t] # NoManager => state[registry[t]] # "Panicked"

\* A running manager can be paused: it is the one that pause_download finds.
RunningIsRegistered ==
  \A m \in Manager : state[m] = "Running" => registry[torrent[m]] # NoManager
=============================================================================
