------------------------------- MODULE Backend -------------------------------
(***************************************************************************)
(* The network thread (src/src/backend.rs): one task that takes the GUI's  *)
(* commands, owns at most one Yggdrasil node and reports to the GUI.  A    *)
(* command is handled to its end, awaits included, before the next command *)
(* or worker event is looked at; `pc` says where the handler awaits.       *)
(***************************************************************************)
EXTENDS Privileged, Handle

VARIABLES
    pc,           \* where backend_loop is
    pending,      \* the command being handled
    node,         \* backend_loop's `node`
    closing,      \* the node whose close() is awaited
    nextSession,  \* next_remote_session
    localPeers,   \* peers of the in-process node's core
    searching,    \* discover_peers tasks in flight
    announced,    \* the last lifecycle phase the GUI was told
    gaveUp        \* history: a close() stopped waiting for its worker

loopVars == <<pc, pending, node, closing, nextSession, localPeers, searching,
              announced, gaveUp>>
backendVars == <<handleVars, loopVars>>
vars == <<privilegedVars, backendVars>>

NoNode == [kind |-> "None", session |-> 0]
LocalNode == [kind |-> "Local", session |-> 0]
TunNode(s) == [kind |-> "Privileged", session |-> s]
ActiveNode == {NoNode, LocalNode} \cup {TunNode(s) : s \in Sessions}

Idle == [command |-> "Stop"]

BackendTypeOK ==
    /\ pc \in {"Select", "Closing", "Launching", "Accepting", "Sending",
               "StartingLocal", "Exiting", "Joining", "Done"}
    /\ pending \in BackendCommand
    /\ node \in ActiveNode
    /\ closing \in ActiveNode
    /\ nextSession \in 0..MaxSession
    /\ localPeers \in SUBSET Peers
    /\ searching \in SUBSET Searches
    /\ announced \in {"Stopped", "Starting", "Running"}
    /\ gaveUp \in BOOLEAN

TypeOK == PrivilegedTypeOK /\ HandleTypeOK /\ BackendTypeOK

Init ==
    /\ PrivilegedInit
    /\ HandleInit
    /\ pc = "Select"
    /\ pending = Idle
    /\ node = NoNode
    /\ closing = NoNode
    /\ nextSession = 0
    /\ localPeers = {}
    /\ searching = {}
    /\ announced = "Stopped"
    /\ gaveUp = FALSE

(***************************************************************************)
(* What the handlers tell the GUI.                                         *)
(***************************************************************************)

\* The phase the GUI has been told to be in after an event.
PhaseAfter(phase, event) ==
    CASE event = "Starting" -> "Starting"
      [] event = "Started" -> "Running"
      [] event = "Stopped" -> "Stopped"
      [] event = "Failed" /\ phase = "Starting" -> "Stopped"
      [] OTHER -> phase

Send(event) ==
    /\ events' = Append(events, event)
    /\ announced' = PhaseAfter(announced, event.event)

SendNothing == UNCHANGED <<events, announced>>

(***************************************************************************)
(* backend_loop, the command arm: handle_command.                          *)
(***************************************************************************)

\* The next command, of the given kinds, when the select takes it.
Receive(kinds) ==
    /\ pc = "Select"
    /\ commands # <<>>
    /\ Head(commands).command \in kinds
    /\ commands' = Tail(commands)

\* handle_command returns: the loop selects again.
Return == pc' = "Select" /\ pending' = Idle

\* Mistake: a start is not announced.
ResumeUnannounced(command) ==
    CASE command.command = "Start" ->
           /\ pc' = IF command.config.mode = "Tun" THEN "Launching" ELSE "StartingLocal"
           /\ pending' = command
           /\ SendNothing
      [] command.command = "Stop" ->
           /\ Return
           /\ Send(Event("Stopped"))
      [] OTHER ->
           /\ pc' = "Exiting"
           /\ pending' = Idle
           /\ SendNothing

\* What follows `current.close().await` for the command being handled.
Resume(command) ==
    CASE command.command = "Start" ->
           /\ pc' = IF command.config.mode = "Tun" THEN "Launching" ELSE "StartingLocal"
           /\ pending' = command
           /\ Send(Event("Starting"))
      [] command.command = "Stop" ->
           /\ Return
           /\ Send(Event("Stopped"))
      [] OTHER ->
           /\ pc' = "Exiting"
           /\ pending' = Idle
           /\ SendNothing

\* Mistake: the node is waited for without being asked to shut down.
HandleLifecycleUnasked ==
    /\ Receive({"Start", "Stop", "Shutdown"})
    /\ node' = NoNode
    /\ IF node = NoNode
       THEN /\ Resume(Head(commands))
            /\ UNCHANGED closing
       ELSE /\ pc' = "Closing"
            /\ pending' = Head(commands)
            /\ closing' = node
            /\ SendNothing
    /\ UNCHANGED <<privilegedVars, inputs, nextSession, localPeers, searching, gaveUp>>

\* Start, Stop and Shutdown first take the current node and close it.
HandleLifecycle ==
    /\ Receive({"Start", "Stop", "Shutdown"})
    /\ node' = NoNode
    /\ IF node = NoNode
       THEN /\ Resume(Head(commands))
            /\ UNCHANGED <<closing, privilegedVars>>
       ELSE /\ pc' = "Closing"
            /\ pending' = Head(commands)
            /\ closing' = node
            /\ IF node.kind = "Privileged"
               THEN Request(node.session, ShutdownCommand)
               ELSE UNCHANGED privilegedVars
            /\ SendNothing
    /\ UNCHANGED <<inputs, nextSession, localPeers, searching, gaveUp>>

AfterClose ==
    /\ closing' = NoNode
    /\ Resume(pending)
    /\ UNCHANGED <<commands, inputs, node, nextSession, searching>>

\* RunningNode::close
CloseLocal ==
    /\ pc = "Closing"
    /\ closing = LocalNode
    /\ localPeers' = {}
    /\ AfterClose
    /\ UNCHANGED <<privilegedVars, gaveUp>>

\* Mistake: close() does not wait for the connection to end.
CloseDoesNotWait(s) ==
    /\ pc = "Closing"
    /\ closing = TunNode(s)
    /\ DropNode(s)
    /\ AfterClose
    /\ UNCHANGED <<localPeers, gaveUp>>

\* PrivilegedNode::close sees `closed` resolve: parent_connection has returned.
CloseCompletes(s) ==
    /\ pc = "Closing"
    /\ closing = TunNode(s)
    /\ conn[s] = "Ended"
    /\ DropNode(s)
    /\ AfterClose
    /\ UNCHANGED <<localPeers, gaveUp>>

\* Mistake: close() has no time limit.
CloseNeverTimesOut(s) == FALSE /\ CloseCompletes(s)

\* ... or ten seconds pass: fire `disconnect` and go on.
CloseTimesOut(s) ==
    /\ "closeTimeout" \in Faults
    /\ pc = "Closing"
    /\ closing = TunNode(s)
    /\ conn[s] # "Ended"
    /\ DropNode(s)
    /\ AfterClose
    /\ gaveUp' = TRUE
    /\ UNCHANGED localPeers

\* Mistake: the failure of a start is only logged.
StartNodeFailsSilently ==
    /\ Return
    /\ UNCHANGED <<commands, inputs, events, announced, node, closing,
                   localPeers, searching, gaveUp>>

\* start_node returns an error.
StartNodeFails ==
    /\ Return
    /\ Send(Event("Failed"))
    /\ UNCHANGED <<commands, inputs, node, closing, localPeers, searching, gaveUp>>

\* Mistake: the command is gone when the worker is there to take it.
StartTunForgetsConfig ==
    /\ pc = "Launching"
    /\ nextSession < MaxSession
    /\ nextSession' = nextSession + 1
    /\ LaunchWorker(nextSession')
    /\ pc' = "Accepting"
    /\ pending' = Idle
    /\ UNCHANGED <<commands, inputs, events, node, closing, localPeers,
                   searching, announced, gaveUp>>

\* Number the session, bind the listener, spawn the elevated worker.
StartTun ==
    /\ pc = "Launching"
    /\ nextSession < MaxSession
    /\ nextSession' = nextSession + 1
    /\ LaunchWorker(nextSession')
    /\ pc' = "Accepting"
    /\ UNCHANGED <<commands, inputs, events, pending, node, closing,
                   localPeers, searching, announced, gaveUp>>

StartTunFails ==
    /\ "launchError" \in Faults
    /\ pc = "Launching"
    /\ nextSession < MaxSession
    /\ nextSession' = nextSession + 1
    /\ StartNodeFails
    /\ UNCHANGED privilegedVars

Accept ==
    /\ pc = "Accepting"
    /\ AcceptWorker(nextSession)
    /\ pc' = "Sending"
    /\ UNCHANGED <<commands, inputs, events, pending, node, closing,
                   nextSession, localPeers, searching, announced, gaveUp>>

\* The launcher's process ended before the worker connected ...
LauncherExits ==
    /\ pc = "Accepting"
    /\ worker[nextSession] = "Exited"
    /\ StopListening(nextSession)
    /\ StartNodeFails
    /\ UNCHANGED nextSession

\* ... or two minutes passed without an authorized connection.
ElevationTimesOut ==
    /\ pc = "Accepting"
    /\ StopListening(nextSession)
    /\ StartNodeFails
    /\ UNCHANGED nextSession

SendStart ==
    /\ pc = "Sending"
    /\ conn[nextSession] = "Open"
    /\ Request(nextSession, pending)
    /\ node' = TunNode(nextSession)
    /\ Return
    /\ UNCHANGED <<commands, inputs, events, closing, nextSession,
                   localPeers, searching, announced, gaveUp>>

\* The connection ended before Start was queued.
SendStartFails ==
    /\ pc = "Sending"
    /\ conn[nextSession] # "Open"
    /\ DropNode(nextSession)
    /\ StartNodeFails
    /\ UNCHANGED nextSession

\* RunningNode::start for the two proxy modes.
StartLocal ==
    /\ pc = "StartingLocal"
    /\ node' = LocalNode
    /\ localPeers' = pending.config.peers
    /\ Return
    /\ Send([event |-> "Started", mode |-> pending.config.mode])
    /\ UNCHANGED <<privilegedVars, commands, inputs, closing,
                   nextSession, searching, gaveUp>>

StartLocalFails ==
    /\ "startError" \in Faults
    /\ pc = "StartingLocal"
    /\ StartNodeFails
    /\ UNCHANGED <<privilegedVars, nextSession>>

\* AddPeer and RemovePeer reach whichever node runs, and are ignored without.
HandlePeerEdit ==
    /\ Receive({"AddPeer", "RemovePeer"})
    /\ LET edit == Head(commands)
       IN  CASE node.kind = "Local" ->
                  /\ \/ /\ localPeers' = EditPeers(localPeers, edit)
                        /\ SendNothing
                     \/ /\ "peerError" \in Faults
                        /\ Send(Event("Failed"))
                        /\ UNCHANGED localPeers
                  /\ UNCHANGED privilegedVars
             [] node.kind = "Privileged" ->
                  /\ Request(node.session, edit)
                  /\ SendNothing
                  /\ UNCHANGED localPeers
             [] OTHER -> UNCHANGED <<privilegedVars, events, announced, localPeers>>
    /\ UNCHANGED <<inputs, pc, pending, node, closing, nextSession, searching, gaveUp>>

HandleDiscover ==
    /\ Receive({"Discover"})
    /\ searching' = searching \cup {Head(commands).id}
    /\ UNCHANGED <<privilegedVars, inputs, events, pc, pending, node,
                   closing, nextSession, localPeers, announced, gaveUp>>

\* The spawned discovery task reports; nothing orders it with the loop.
DiscoveryFinishes(id) ==
    /\ id \in searching
    /\ searching' = searching \ {id}
    /\ Send([event |-> "DiscoveryFinished", id |-> id])
    /\ UNCHANGED <<privilegedVars, commands, inputs, pc, pending, node,
                   closing, nextSession, localPeers, gaveUp>>

(***************************************************************************)
(* backend_loop, the other arms.                                           *)
(***************************************************************************)

\* Mistake: the session of a report is not compared with the node's.
HandleRemoteOfAnySession ==
    /\ pc = "Select"
    /\ remote # <<>>
    /\ LET report == Head(remote)
       IN  IF node.kind = "Privileged"
           THEN /\ IF IsEndReport(report)
                   THEN /\ node' = NoNode
                        /\ attached' = [attached EXCEPT ![node.session] = FALSE]
                   ELSE UNCHANGED <<node, attached>>
                /\ CASE report.event = "Started" ->
                          Send([event |-> "Started", mode |-> "Tun"])
                     [] report.event \in {"StartFailed", "OperationFailed"} ->
                          Send(Event("Failed"))
                     [] report.event = "PeerStatus" -> Send(Event("PeerStatus"))
                     [] OTHER -> Send(Event("Stopped"))
           ELSE UNCHANGED <<node, attached, events, announced>>
    /\ remote' = Tail(remote)
    /\ UNCHANGED <<conn, requests, shutdownSent, failureReported, workerVars,
                   down, up, commands, inputs, pc, pending, closing,
                   nextSession, localPeers, searching, gaveUp>>

\* handle_remote_event: reports of any session but the current are dropped.
HandleRemote ==
    /\ pc = "Select"
    /\ remote # <<>>
    /\ LET report == Head(remote)
       IN  IF node = TunNode(report.session)
           THEN /\ IF IsEndReport(report)
                   THEN /\ node' = NoNode
                        /\ attached' = [attached EXCEPT ![report.session] = FALSE]
                   ELSE UNCHANGED <<node, attached>>
                /\ CASE report.event = "Started" ->
                          Send([event |-> "Started", mode |-> "Tun"])
                     [] report.event \in {"StartFailed", "OperationFailed"} ->
                          Send(Event("Failed"))
                     [] report.event = "PeerStatus" -> Send(Event("PeerStatus"))
                     [] report.event = "DisconnectedWithError" ->
                          /\ events' = events \o <<Event("Stopped"), Event("Failed")>>
                          /\ announced' = "Stopped"
                     [] OTHER -> SendNothing
           ELSE UNCHANGED <<node, attached, events, announced>>
    /\ remote' = Tail(remote)
    /\ UNCHANGED <<conn, requests, shutdownSent, failureReported, workerVars,
                   down, up, commands, inputs, pc, pending, closing,
                   nextSession, localPeers, searching, gaveUp>>

\* The one-second timer, polled only for an in-process node.
StatusTick ==
    /\ pc = "Select"
    /\ node = LocalNode
    /\ Len(events) < MaxEvents
    /\ Send(Event("PeerStatus"))
    /\ UNCHANGED <<privilegedVars, commands, inputs, pc, pending, node,
                   closing, nextSession, localPeers, searching, gaveUp>>

\* The loop has returned and the thread drops the runtime, which cancels the
\* tasks and then waits, without limit, for what runs in spawn_blocking.  Only a
\* Windows build has such work.  (Nothing before depends on the build.)
Exit ==
    /\ pc = "Exiting"
    /\ \E build \in Builds : pc' = IF build = "Windows" THEN "Joining" ELSE "Done"
    /\ DropAllLinks
    /\ commands' = <<>>
    /\ searching' = {}
    /\ UNCHANGED <<inputs, events, pending, node, closing,
                   nextSession, localPeers, announced, gaveUp>>

\* What a Windows build runs in spawn_blocking: `runas`, from the UAC prompt
\* until the worker has exited.
LauncherBlocks(s) == worker[s] \notin {"None", "Exited"}

ThreadWaits == pc = "Joining" /\ \E s \in Sessions : LauncherBlocks(s)

\* The last launcher has returned, and with it the network thread.
ThreadEnds ==
    /\ pc = "Joining"
    /\ ~ThreadWaits
    /\ pc' = "Done"
    /\ UNCHANGED <<privilegedVars, handleVars, pending, node, closing, nextSession,
                   localPeers, searching, announced, gaveUp>>

\* backend_loop and every task beside it are gone.
LoopGone == pc \in {"Joining", "Done"}

GuiCrash ==
    /\ "guiCrash" \in Faults
    /\ pc # "Done"
    /\ pc' = "Done"
    /\ DropAllLinks
    /\ commands' = <<>>
    /\ node' = NoNode
    /\ closing' = NoNode
    /\ localPeers' = {}
    /\ searching' = {}
    /\ pending' = Idle
    /\ UNCHANGED <<inputs, events, nextSession, announced, gaveUp>>

(***************************************************************************)
(* The next-state relation, by who acts.                                   *)
(***************************************************************************)

CloseStep ==
    \/ CloseLocal
    \/ \E s \in Sessions : CloseCompletes(s) \/ CloseTimesOut(s)

StartStep ==
    \/ StartTun \/ StartTunFails
    \/ Accept \/ LauncherExits \/ ElevationTimesOut
    \/ SendStart \/ SendStartFails
    \/ StartLocal \/ StartLocalFails

CommandStep == HandleLifecycle \/ HandlePeerEdit \/ HandleDiscover

LoopStep == CommandStep \/ CloseStep \/ StartStep \/ HandleRemote \/ Exit \/ ThreadEnds

WorkerOrLinkStep(s) ==
    /\ \/ PrivilegedStep(s)
       \/ Len(events) < MaxEvents /\ WorkerTick(s)
    /\ UNCHANGED backendVars

SystemStep ==
    \/ LoopStep
    \/ StatusTick
    \/ GuiCrash
    \/ \E id \in Searches : DiscoveryFinishes(id)
    \/ \E s \in Sessions : WorkerOrLinkStep(s)

\* Any window: it sends any command, and takes the events in order ...
SubmitCommand(command) ==
    /\ ~LoopGone
    /\ Input
    /\ Post(command)
    /\ UNCHANGED <<privilegedVars, events, loopVars>>

\* ... and the user gives inputs that need no command.
OtherInput ==
    /\ Input
    /\ UNCHANGED <<privilegedVars, commands, events, loopVars>>

TakeEvent ==
    /\ events # <<>>
    /\ events' = Tail(events)
    /\ UNCHANGED <<privilegedVars, commands, inputs, loopVars>>

Next ==
    \/ \E command \in BackendCommand : SubmitCommand(command)
    \/ OtherInput
    \/ TakeEvent
    \/ SystemStep

Spec == Init /\ [][Next]_vars

(***************************************************************************)
(* Fairness: tokio polls every ready branch of a select! and every ready   *)
(* task sooner or later, and its timers fire.  No worker step that waits   *)
(* for the user, and no tick, is fair.                                     *)
(***************************************************************************)

LoopFairness ==
    /\ WF_vars(CommandStep)
    /\ WF_vars(CloseStep)
    /\ WF_vars(StartStep)
    /\ WF_vars(HandleRemote)
    /\ WF_vars(Exit)
    /\ WF_vars(ThreadEnds)

LinkFairness ==
    \A s \in Sessions :
        /\ WF_vars(ForwardCommand(s) /\ UNCHANGED backendVars)
        /\ WF_vars(ReceiveEvent(s) /\ UNCHANGED backendVars)
        /\ WF_vars((StreamEnds(s) \/ DisconnectFires(s)) /\ UNCHANGED backendVars)

WorkerFairness ==
    \A s \in Sessions : WF_vars(WorkerProgress(s) /\ UNCHANGED backendVars)

\* The user answers a prompt for authorization sooner or later.
PromptsAnswered ==
    \A s \in Sessions :
        WF_vars((WorkerConnects(s) \/ AuthorizationDenied(s)) /\ UNCHANGED backendVars)

\* The GUI alone is fair: workers may hang.
GuiFairSpec == Spec /\ LoopFairness /\ LinkFairness

FairSpec == GuiFairSpec /\ WorkerFairness

(***************************************************************************)
(* Properties.                                                             *)
(***************************************************************************)

\* The worker holds, or may hold, a TUN interface.
HasTunnel(s) == worker[s] \in {"Starting", "Running", "Closing"}

EndReports(s) == {[session |-> s, event |-> "Disconnected"],
                  [session |-> s, event |-> "DisconnectedWithError"]}

\* A node whose connection is gone is never kept silently: until the loop
\* drops the node, parent_connection's final report is on its way to it
\* (backend.rs:296-302 is the only place such a node is dropped).
EndIsReported ==
    pc # "Done" =>
        \A s \in Sessions :
            node = TunNode(s) /\ conn[s] = "Ended" =>
                \E i \in 1..Len(remote) : remote[i] \in EndReports(s)

\* Whenever the loop waits for work, what the window was told last agrees with
\* the node it holds: nothing is announced as starting or running without a
\* node, and an in-process node is always announced.  A quiet Disconnected
\* (backend.rs:297) may drop a node without a word only because StartFailed
\* was announced before.
AnnouncementTruthful ==
    pc = "Select" =>
        /\ node = NoNode => announced = "Stopped"
        /\ node = LocalNode => announced = "Running"

\* A worker connection the backend gave up is told to end: Shutdown is queued
\* or sent, or the disconnect receiver has resolved.  Nobody else would ever
\* end it (privileged.rs:184-193).
AbandonedLinksEnd ==
    \A s \in Sessions :
        conn[s] = "Open" /\ node # TunNode(s)
            /\ ~(pc = "Sending" /\ s = nextSession) =>
                \/ shutdownSent[s]
                \/ ~attached[s]
                \/ \E i \in 1..Len(requests[s]) : IsShutdown(requests[s][i])

\* As long as no close() gave up waiting, at most one worker holds a TUN
\* interface: a restart begins after the previous worker's process ended.
OneTunnel ==
    ~gaveUp /\ pc # "Done" =>
        \A s, t \in Sessions : HasTunnel(s) /\ HasTunnel(t) => s = t

\* ... and when the window was told "Stopped" and the loop holds no node, no
\* worker has a TUN interface left, whichever way the last one ended.
StoppedMeansDown ==
    ~gaveUp /\ pc = "Select" /\ node = NoNode =>
        \A s \in Sessions : ~HasTunnel(s)

\* Peer status is reported only between Started and the end of that node, so
\* late reports of an older session never repaint the peer list.
StatusOnlyWhileRunning ==
    [][ Len(events') > Len(events) /\ events'[Len(events')] = Event("PeerStatus")
            => announced = "Running" ]_vars

(***************************************************************************)
(* The inductive strengthening of the three invariants above.              *)
(***************************************************************************)

\* A start is being handled exactly where its arguments are used.
PendingStart ==
    /\ pc \in {"Launching", "Accepting", "Sending", "StartingLocal"} =>
         pending.command = "Start"
    /\ pc \in {"Accepting", "Sending"} => nextSession \in Sessions

TypeInv == TypeOK /\ PendingStart

\* Who answers for session s.
Owns(s) ==
    \/ node = TunNode(s)
    \/ closing = TunNode(s)
    \/ pc \in {"Accepting", "Sending"} /\ s = nextSession

\* A node is held only between commands, one is closed only in "Closing".
OneOwner ==
    /\ node # NoNode => pc = "Select"
    /\ closing # NoNode => pc = "Closing"

LinksOwned ==
    \A s \in Sessions :
        /\ conn[s] = "Open" => Owns(s)
        /\ conn[s] = "Listening" => pc = "Accepting" /\ s = nextSession

FreshSessions ==
    \A s \in Sessions :
        /\ s > nextSession => conn[s] = "None"
        /\ conn[s] = "None" => worker[s] = "None" /\ down[s] = <<>>

ListeningIsQuiet ==
    \A s \in Sessions :
        conn[s] = "Listening" =>
            worker[s] \in {"Launched", "Connected", "Exited"} /\ down[s] = <<>>

\* A worker whose connection is gone has exited or will never be started.
EndedIsDown ==
    pc # "Done" =>
        \A s \in Sessions :
            conn[s] = "Ended" =>
                \/ worker[s] \in {"Launched", "Exited"}
                \/ worker[s] = "Connected" /\ down[s] = <<>>

OpenIsAttached == \A s \in Sessions : conn[s] = "Open" => attached[s]

EndReportsTrue ==
    \A i \in 1..Len(remote) :
        IsEndReport(remote[i]) => conn[remote[i].session] = "Ended"

\* Why OneTunnel and StoppedMeansDown hold: every connection is owned by the
\* one node the loop holds, opens or closes, and a connection ends only after
\* its worker has.
Ownership ==
    /\ OneOwner
    /\ LinksOwned
    /\ FreshSessions
    /\ ListeningIsQuiet
    /\ EndedIsDown
    /\ OpenIsAttached
    /\ EndReportsTrue

\* This needs close() to wait as long as it takes: after its ten seconds the
\* next node is started next to the old one (privileged.rs:184-193).
SessionInv == ~gaveUp => Ownership

Lifecycle == INSTANCE NodeLifecycle WITH phase <- announced, over <- LoopGone

\* The events follow the node lifecycle (safety part).
LifecycleSafe == Lifecycle!Safe

\* ... and no start is left unresolved, whatever the user does at the prompt
\* and however the worker fails.
LifecycleResolved == WorkerFairness => Lifecycle!Resolves

ShutdownAsked == \E i \in 1..Len(commands) : IsShutdown(commands[i])

\* BackendHandle::shutdown joins the network thread on GTK's main thread
\* (backend.rs:114-125).  The loop ends even when workers hang, prompts stay open
\* and closes time out, and so does the thread, but for one thing: a Windows build
\* then waits for a UAC prompt or a worker that is still there
\* (privileged.rs:573-581), so closing the window takes as long as they do.
\* If every prompt is answered and every worker progresses, the thread ends.
ShutdownCompletes ==
    /\ ShutdownAsked ~> (pc = "Done" \/ ThreadWaits)
    /\ WorkerFairness /\ PromptsAnswered => (ShutdownAsked ~> pc = "Done")

\* A worker never outlives the GUI with its tunnel up: end of file, or a failed
\* write, ends it, after a crash of the GUI as after its exit.
OrphansExit ==
    WorkerFairness =>
        \A s \in Sessions : LoopGone /\ HasTunnel(s) ~> worker[s] = "Exited"

=============================================================================
