------------------------------ MODULE Messages ------------------------------
(***************************************************************************)
(* The constants of the models and the messages that the parts of          *)
(* Drosophila exchange: the window's commands and the backend's events     *)
(* (backend.rs), and the line protocol between the GUI process and the     *)
(* elevated TUN worker (privileged.rs).  Texts, addresses and keys that no *)
(* decision depends on are left out of the messages.                       *)
(***************************************************************************)
EXTENDS Naturals, Sequences, FiniteSets

CONSTANTS
    Peers,          \* peer URIs that can be configured
    Modes,          \* connection modes in use
    Searches,       \* ids of peer discoveries
    MaxInputs,      \* bound: inputs the user gives
    MaxSession,     \* bound: TUN sessions are numbered 1..MaxSession
    MaxPipe,        \* bound: status reports on their way from a worker
    MaxEvents,      \* bound: no status report while this many events wait
    Builds,         \* builds of the application, among AllBuilds
    Faults          \* which of AllFaults the environment may inject

AllFaults == {"launchError", "workerCrash", "startError", "capabilityError",
              "peerError", "closeTimeout", "guiCrash"}

AllBuilds == {"Linux", "Windows"}

NodeMode == {"Tun", "Proxy", "SystemProxy"}

ASSUME MessagesAssumption ==
    /\ Modes \subseteq NodeMode
    /\ Searches \subseteq Nat
    /\ MaxInputs \in Nat
    /\ MaxSession \in Nat
    /\ MaxPipe \in Nat
    /\ MaxEvents \in Nat
    /\ Builds \subseteq AllBuilds
    /\ Faults \subseteq AllFaults

Sessions == 1..MaxSession

\* The part of StoredConfig that decides what a start does.
Config == [mode : Modes, peers : SUBSET Peers]

PeerEdit == [command : {"AddPeer", "RemovePeer"}, peer : Peers]

BackendCommand ==
    [command : {"Start"}, config : Config]
        \cup PeerEdit
        \cup [command : {"Discover"}, id : Searches]
        \cup [command : {"Stop", "Shutdown"}]

BackendEvent ==
    [event : {"Starting", "Stopped", "Failed", "PeerStatus"}]
        \cup [event : {"Started"}, mode : NodeMode]
        \cup [event : {"DiscoveryFinished"}, id : Searches]

Event(name) == [event |-> name]

WorkerCommand ==
    [command : {"Start"}, config : Config]
        \cup PeerEdit
        \cup [command : {"Shutdown"}]

ShutdownCommand == [command |-> "Shutdown"]

IsShutdown(command) == command.command = "Shutdown"

WorkerEvent == {"Started", "StartFailed", "OperationFailed", "PeerStatus"}

RemoteEnvelope ==
    [session : Sessions,
     event : WorkerEvent \cup {"Disconnected", "DisconnectedWithError"}]

\* parent_connection's last report of a session.
IsEndReport(report) == report.event \in {"Disconnected", "DisconnectedWithError"}

\* Core::add_peer and Core::remove_peer, when the core accepts the edit.
EditPeers(peers, edit) ==
    IF edit.command = "AddPeer" THEN peers \cup {edit.peer} ELSE peers \ {edit.peer}

=============================================================================
