----------------------------- MODULE Drosophila -----------------------------
(***************************************************************************)
(* The whole application: the window, the network thread and the elevated  *)
(* TUN workers, joined by the command and the event channel.               *)
(***************************************************************************)
EXTENDS Backend, Window

VARIABLE missed   \* history: what went wrong since the last start was asked for
                  \* (by a window that was up to date, for "ending").
                  \* "edit": the peer list was edited at a moment the backend
                  \* was not told, or the core rejected an edit; "ending": a
                  \* Stopped or Failed of an earlier node ended the transition.

appVars == <<windowVars, missed>>
allVars == <<vars, appVars>>

AppInit == Init /\ WindowInit /\ missed = {}

Asked(command) ==
    Len(commands') > Len(commands) /\ commands'[Len(commands')].command = command

\* Nothing is on its way between the window and the network thread.
Settled == pc = "Select" /\ commands = <<>> /\ events = <<>>

\* A start copies the whole configuration; an edit is sent while a node runs.
TrackEdits ==
    missed' = IF Asked("Start") THEN IF Settled THEN {} ELSE missed \ {"edit"}
              ELSE IF config'.peers # config.peers /\ ~running
              THEN missed \cup {"edit"} ELSE missed

User ==
    /\ Input
    /\ UserStep
    /\ TrackEdits
    /\ UNCHANGED <<privilegedVars, loopVars>>

Pump ==
    /\ HandleEvent
    /\ UNCHANGED <<privilegedVars, loopVars>>
    /\ missed' = IF transitioning /\ ~transitioning' /\ ~running' /\ ~Settled'
                 THEN missed \cup {"ending"} ELSE missed

\* The node is told of an edit and answers with an error.
EditRejected ==
    \/ \E s \in Sessions : WorkerRejects(s)
    \/ HandlePeerEdit /\ node = LocalNode /\ events' # events

\* A crash of the GUI process takes the window with it.
System ==
    /\ SystemStep
    /\ open' = (open /\ ~LoopGone')
    /\ missed' = IF EditRejected THEN missed \cup {"edit"} ELSE missed
    /\ UNCHANGED <<running, transitioning, switchOn, cardSensitive,
                   modeSensitive, deleteSensitive, config>>

AppNext == User \/ Pump \/ System

AppSpec == AppInit /\ [][AppNext]_allVars

\* The main loop dispatches the pump's timer; the rest as in Backend.
AppFairSpec ==
    /\ AppSpec
    /\ WF_allVars(Pump)
    /\ WF_allVars(CommandStep /\ System)
    /\ WF_allVars(CloseStep /\ System)
    /\ WF_allVars(StartStep /\ System)
    /\ WF_allVars(HandleRemote /\ System)
    /\ WF_allVars(Exit /\ System)
    /\ WF_allVars(ThreadEnds /\ System)
    /\ \A s \in Sessions :
         /\ WF_allVars(ForwardCommand(s) /\ System)
         /\ WF_allVars(ReceiveEvent(s) /\ System)
         /\ WF_allVars((StreamEnds(s) \/ DisconnectFires(s)) /\ System)
         /\ WF_allVars(WorkerProgress(s) /\ System)

(***************************************************************************)
(* Properties.                                                             *)
(***************************************************************************)

\* Whenever no start or stop is under way, the switch shows whether a node
\* runs and can be used; the mode can be changed only while none runs.
SwitchTruthful ==
    open /\ ~transitioning =>
        /\ switchOn = running
        /\ cardSensitive
        /\ modeSensitive = ~running

\* When the dust settles the window shows what it was told last, although
\* Failed is interpreted by the window's own idea of a transition and clicks
\* cross events on the way (app.rs:456-461).
WindowAgrees ==
    open /\ Settled =>
        /\ transitioning = (announced = "Starting")
        /\ ~transitioning => running = (announced = "Running")

\* Every command reached the node.
Delivered ==
    /\ open /\ Settled
    /\ running
    /\ \A s \in Sessions :
         node = TunNode(s) =>
            worker[s] = "Running" /\ requests[s] = <<>> /\ down[s] = <<>>

NodePeers ==
    IF node.kind = "Local" THEN localPeers ELSE livePeers[node.session]

\* The node has the peers the window lists, as long as the core accepts every
\* edit and none was made between a start's copy of the list and its Started:
\* edits arrive in order, over both channels and the stream, and none gets lost
\* when a session is closed, dies or is started again (app.rs:611-632).
PeersAgree ==
    Delivered /\ "edit" \notin missed /\ node # NoNode => NodePeers = config.peers

\* The same without the proviso on the moment of the edit: what the peer list
\* of the window promises when the core rejects nothing.
PeersAlwaysAgree ==
    "peerError" \notin Faults /\ Delivered /\ node # NoNode =>
        NodePeers = config.peers

\* A running node was started in the mode the window shows, as long as every
\* end the window was told of was the one it was waiting for (app.rs:462-466).
ModeAgrees ==
    Delivered /\ "ending" \notin missed /\ node # NoNode =>
        (config.mode = "Tun") = (node.kind = "Privileged")

\* The window never stays in transition: whatever fails, the controls return.
TransitionEnds == transitioning ~> ~transitioning \/ ~open

=============================================================================
