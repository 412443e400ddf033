---------------------------- MODULE BackendProofs ----------------------------
(***************************************************************************)
(* Proofs about the network thread and its TUN workers, for every value of *)
(* the constants: the type invariant, and that at most one worker holds a  *)
(* TUN interface as long as no close() gave up waiting.                    *)
(***************************************************************************)
EXTENDS Backend, TLAPS

(***************************************************************************)
(* Types.                                                                  *)
(***************************************************************************)

\* A step of a session's worker or of its connection keeps the types.
LEMMA PrivilegedStepTypes ==
    ASSUME PrivilegedTypeOK, NEW s \in Sessions, PrivilegedStep(s)
    PROVE  PrivilegedTypeOK'
<1> USE DEF PrivilegedTypeOK, linkVars, workerVars, ConnState, WorkerState
<1>1. CASE ForwardCommand(s)
  <2>1. NextRequest(s) \in WorkerCommand
    BY <1>1 DEF ForwardCommand, CanForward, NextRequest, WorkerCommand, ShutdownCommand
  <2>2. requests' \in [Sessions -> Seq(WorkerCommand)]
    BY <1>1 DEF ForwardCommand
  <2>3. down' \in [Sessions -> Seq(WorkerCommand)]
    BY <1>1, <2>1 DEF ForwardCommand
  <2> QED BY <1>1, <2>2, <2>3 DEF ForwardCommand, IsShutdown
<1>2. ASSUME NEW quiet \in BOOLEAN, EndConnection(s, quiet)
      PROVE  PrivilegedTypeOK'
  <2>1. remote' \in Seq(RemoteEnvelope)
    BY <1>2 DEF EndConnection, RemoteEnvelope
  <2> QED BY <1>2, <2>1 DEF EndConnection
<1>3. CASE ForwardFails(s)
  BY <1>2, <1>3 DEF ForwardFails, IsShutdown
<1>4. CASE ReceiveEvent(s)
  <2>1. Head(up[s]) \in WorkerEvent /\ up' \in [Sessions -> Seq(WorkerEvent)]
    BY <1>4 DEF ReceiveEvent
  <2>2. remote' \in Seq(RemoteEnvelope)
    BY <1>4, <2>1 DEF ReceiveEvent, RemoteEnvelope
  <2> QED BY <1>4, <2>1, <2>2 DEF ReceiveEvent
<1>5. CASE StreamEnds(s)
  BY <1>2, <1>5 DEF StreamEnds
<1>6. CASE DisconnectFires(s)
  BY <1>2, <1>6 DEF DisconnectFires
<1>7. CASE WorkerConnects(s)
  BY <1>7 DEF WorkerConnects, GoTo
<1>8. CASE AuthorizationDenied(s)
  BY <1>8 DEF AuthorizationDenied, GoTo
<1>9. CASE WorkerReadsFirst(s)
  <2>1. Head(down[s]) \in WorkerCommand /\ down' \in [Sessions -> Seq(WorkerCommand)]
    BY <1>9 DEF WorkerReadsFirst
  <2>2. Head(down[s]).command = "Start" => Head(down[s]).config.peers \in SUBSET Peers
    BY <2>1 DEF WorkerCommand, Config, PeerEdit
  <2> QED BY <1>9, <2>1, <2>2 DEF WorkerReadsFirst, GoTo
<1>10. ASSUME NEW event \in WorkerEvent, Emit(s, event)
       PROVE  up' \in [Sessions -> Seq(WorkerEvent)]
  BY <1>10 DEF Emit
<1>11. CASE WorkerStarts(s)
  BY <1>10, <1>11 DEF WorkerStarts, GoTo, WorkerEvent
<1>12. CASE WorkerStartFails(s)
  BY <1>10, <1>12 DEF WorkerStartFails, GoTo, WorkerEvent
<1>13. CASE WorkerCapabilityFails(s)
  BY <1>13 DEF WorkerCapabilityFails, GoTo
<1>14. ASSUME NEW C, WorkerReads(s, C)
       PROVE  /\ Head(down[s]) \in WorkerCommand
              /\ down' \in [Sessions -> Seq(WorkerCommand)]
  BY <1>14 DEF WorkerReads
<1>15. CASE WorkerEditsPeers(s)
  <2>1. /\ Head(down[s]) \in WorkerCommand
        /\ down' \in [Sessions -> Seq(WorkerCommand)]
    BY <1>14, <1>15 DEF WorkerEditsPeers
  <2>2. Head(down[s]).command \in {"AddPeer", "RemovePeer"}
    BY <1>15 DEF WorkerEditsPeers, WorkerReads
  <2>3. Head(down[s]).peer \in Peers
    BY <2>1, <2>2 DEF WorkerCommand, PeerEdit, Config
  <2>4. livePeers' \in [Sessions -> SUBSET Peers]
    BY <1>15, <2>3 DEF WorkerEditsPeers, EditPeers
  <2> QED BY <1>15, <2>1, <2>4 DEF WorkerEditsPeers, WorkerReads
<1>16. CASE WorkerRejects(s)
  <2>1. down' \in [Sessions -> Seq(WorkerCommand)]
    BY <1>14, <1>16 DEF WorkerRejects
  <2>2. up' \in [Sessions -> Seq(WorkerEvent)]
    BY <1>10, <1>16 DEF WorkerRejects, WorkerEvent
  <2> QED BY <1>16, <2>1, <2>2 DEF WorkerRejects, WorkerReads
<1>17. CASE WorkerShutsDown(s)
  <2>1. down' \in [Sessions -> Seq(WorkerCommand)]
    BY <1>14, <1>17 DEF WorkerShutsDown
  <2> QED BY <1>17, <2>1 DEF WorkerShutsDown, WorkerReads, GoTo
<1>18. CASE WorkerLosesGui(s)
  BY <1>18 DEF WorkerLosesGui, GoTo
<1>19. CASE WorkerClosed(s)
  BY <1>19 DEF WorkerClosed, GoTo
<1>20. CASE WorkerDies(s)
  BY <1>20 DEF WorkerDies, GoTo
<1> QED
  BY <1>1, <1>3, <1>4, <1>5, <1>6, <1>7, <1>8, <1>9, <1>11, <1>12, <1>13,
     <1>15, <1>16, <1>17, <1>18, <1>19, <1>20
     DEF PrivilegedStep, ParentConnection, WorkerStep, WorkerProgress

\* The status tick of a worker keeps the types.
LEMMA WorkerTickTypes ==
    ASSUME PrivilegedTypeOK, NEW s \in Sessions, WorkerTick(s)
    PROVE  PrivilegedTypeOK'
BY DEF PrivilegedTypeOK, WorkerTick, Emit, linkVars, workerVars, WorkerEvent

\* So do the operations that the backend performs on a session.
LEMMA OperationTypes ==
    ASSUME PrivilegedTypeOK, NEW s \in Sessions
    PROVE  /\ LaunchWorker(s) => PrivilegedTypeOK'
           /\ AcceptWorker(s) => PrivilegedTypeOK'
           /\ StopListening(s) => PrivilegedTypeOK'
           /\ DropNode(s) => PrivilegedTypeOK'
           /\ DropAllLinks => PrivilegedTypeOK'
           /\ \A command \in WorkerCommand : Request(s, command) => PrivilegedTypeOK'
<1> USE DEF PrivilegedTypeOK, linkVars, workerVars, ConnState, WorkerState
<1>1. LaunchWorker(s) => PrivilegedTypeOK'
  BY DEF LaunchWorker
<1>2. AcceptWorker(s) => PrivilegedTypeOK'
  BY DEF AcceptWorker
<1>3. StopListening(s) => PrivilegedTypeOK'
  BY DEF StopListening
<1>4. DropNode(s) => PrivilegedTypeOK'
  BY DEF DropNode
<1>5. DropAllLinks => PrivilegedTypeOK'
  BY DEF DropAllLinks
<1>6. ASSUME NEW command \in WorkerCommand, Request(s, command)
      PROVE  PrivilegedTypeOK'
  BY <1>6 DEF Request
<1> QED BY <1>1, <1>2, <1>3, <1>4, <1>5, <1>6

\* What the handlers tell the window is an event, and leaves a phase announced.
LEMMA SendTypes ==
    ASSUME events \in Seq(BackendEvent),
           announced \in {"Stopped", "Starting", "Running"},
           NEW event \in BackendEvent, Send(event)
    PROVE  /\ events' \in Seq(BackendEvent)
           /\ announced' \in {"Stopped", "Starting", "Running"}
BY DEF Send, PhaseAfter

\* The commands that are handled, and what a start forwards, are well formed.
LEMMA CommandTypes ==
    /\ Idle \in BackendCommand
    /\ ShutdownCommand \in WorkerCommand
    /\ \A c \in BackendCommand :
          /\ c.command \in {"AddPeer", "RemovePeer"} => c \in WorkerCommand
          /\ c.command = "Start" =>
               /\ c \in WorkerCommand
               /\ c.config.peers \in SUBSET Peers
               /\ c.config.mode \in NodeMode
BY MessagesAssumption DEF Idle, BackendCommand, WorkerCommand, ShutdownCommand, PeerEdit, Config

\* What the loop tells the window is an event.
LEMMA EventTypes ==
    /\ \A name \in {"Starting", "Stopped", "Failed", "PeerStatus"} :
          Event(name) \in BackendEvent
    /\ \A m \in NodeMode : [event |-> "Started", mode |-> m] \in BackendEvent
    /\ \A id \in Searches : [event |-> "DiscoveryFinished", id |-> id] \in BackendEvent
BY DEF Event, BackendEvent

\* Going on after a close keeps the loop's types and leads to a start only
\* with the command of one.
LEMMA ResumeTypes ==
    ASSUME events \in Seq(BackendEvent),
           announced \in {"Stopped", "Starting", "Running"},
           NEW command \in BackendCommand, Resume(command)
    PROVE  /\ events' \in Seq(BackendEvent)
           /\ announced' \in {"Stopped", "Starting", "Running"}
           /\ pending' \in BackendCommand
           /\ pc' \in {"Launching", "StartingLocal", "Select", "Exiting"}
           /\ pc' \in {"Launching", "StartingLocal"} => pending'.command = "Start"
<1>1. CASE command.command = "Start"
  <2>1. Send(Event("Starting"))
    BY <1>1 DEF Resume
  <2> QED BY <1>1, <2>1, SendTypes, EventTypes DEF Resume
<1>2. CASE command.command = "Stop"
  <2>1. Send(Event("Stopped"))
    BY <1>2 DEF Resume
  <2> QED BY <1>2, <2>1, SendTypes, EventTypes, CommandTypes DEF Resume, Return
<1>3. CASE command.command \notin {"Start", "Stop"}
  BY <1>3, CommandTypes DEF Resume, SendNothing
<1> QED BY <1>1, <1>2, <1>3

\* Handling a command keeps the types.
LEMMA CommandStepTypes ==
    ASSUME TypeInv, CommandStep
    PROVE  TypeInv'
<1> USE DEF TypeInv, TypeOK, HandleTypeOK, BackendTypeOK
<1>1. ASSUME NEW kinds, Receive(kinds)
      PROVE  /\ Head(commands) \in BackendCommand
             /\ Head(commands).command \in kinds
             /\ commands' \in Seq(BackendCommand)
             /\ pc = "Select"
  BY <1>1 DEF Receive
<1>2. ASSUME NEW s \in Sessions, node = TunNode(s)
      PROVE  node.session = s /\ node.kind = "Privileged"
  BY <1>2 DEF TunNode
<1>3. node.kind = "Privileged" => node.session \in Sessions
  BY DEF ActiveNode, NoNode, LocalNode, TunNode
<1>4. CASE HandleLifecycle
  <2>1. /\ Head(commands) \in BackendCommand
        /\ Head(commands).command \in {"Start", "Stop", "Shutdown"}
        /\ commands' \in Seq(BackendCommand)
        /\ pc = "Select"
    BY <1>1, <1>4 DEF HandleLifecycle
  <2>2. NoNode \in ActiveNode
    BY DEF ActiveNode
  <2>3. CASE node = NoNode
    <3>1. Resume(Head(commands)) /\ UNCHANGED <<closing, privilegedVars>>
      BY <1>4, <2>3 DEF HandleLifecycle
    <3>2. PrivilegedTypeOK'
      BY <3>1 DEF PrivilegedTypeOK, privilegedVars, linkVars, workerVars
    <3>3. /\ events' \in Seq(BackendEvent)
          /\ announced' \in {"Stopped", "Starting", "Running"}
          /\ pending' \in BackendCommand
          /\ pc' \in {"Launching", "StartingLocal", "Select", "Exiting"}
          /\ pc' \in {"Launching", "StartingLocal"} => pending'.command = "Start"
      BY <2>1, <3>1, ResumeTypes
    <3> QED BY <1>4, <2>1, <2>2, <3>1, <3>2, <3>3 DEF HandleLifecycle, PendingStart
  <2>4. CASE node # NoNode
    <3>1. PrivilegedTypeOK'
      <4>1. CASE node.kind = "Privileged"
        BY <1>3, <1>4, <2>4, <4>1, OperationTypes, CommandTypes DEF HandleLifecycle
      <4>2. CASE node.kind # "Privileged"
        BY <1>4, <2>4, <4>2
           DEF HandleLifecycle, PrivilegedTypeOK, privilegedVars, linkVars, workerVars
      <4> QED BY <4>1, <4>2
    <3> QED BY <1>4, <2>1, <2>2, <2>4, <3>1 DEF HandleLifecycle, PendingStart, SendNothing
  <2> QED BY <2>3, <2>4
<1>5. CASE HandlePeerEdit
  <2> DEFINE edit == Head(commands)
  <2>1. /\ edit \in BackendCommand
        /\ edit.command \in {"AddPeer", "RemovePeer"}
        /\ commands' \in Seq(BackendCommand)
        /\ pc = "Select"
    BY <1>1, <1>5 DEF HandlePeerEdit
  <2>2. edit \in WorkerCommand /\ edit.peer \in Peers
    BY <2>1, CommandTypes DEF BackendCommand, PeerEdit
  <2>3. EditPeers(localPeers, edit) \in SUBSET Peers
    BY <2>2 DEF EditPeers
  <2> HIDE DEF edit
  <2>4. /\ PrivilegedTypeOK'
        /\ localPeers' \in SUBSET Peers
        /\ events' \in Seq(BackendEvent)
        /\ announced' \in {"Stopped", "Starting", "Running"}
    <3>1. CASE node.kind = "Local"
      <4>1. PrivilegedTypeOK'
        BY <1>5, <3>1 DEF HandlePeerEdit, PrivilegedTypeOK, privilegedVars, linkVars, workerVars
      <4>2. CASE localPeers' = EditPeers(localPeers, edit) /\ SendNothing
        BY <2>3, <4>1, <4>2 DEF SendNothing
      <4>3. CASE Send(Event("Failed")) /\ UNCHANGED localPeers
        BY <4>1, <4>3, SendTypes, EventTypes
      <4> QED BY <1>5, <3>1, <4>2, <4>3 DEF HandlePeerEdit, edit
    <3>2. CASE node.kind = "Privileged"
      <4>1. Request(node.session, edit) /\ SendNothing /\ UNCHANGED localPeers
        BY <1>5, <3>2 DEF HandlePeerEdit, edit
      <4>2. PrivilegedTypeOK'
        BY <1>3, <2>2, <3>2, <4>1, OperationTypes
      <4> QED BY <4>1, <4>2 DEF SendNothing
    <3>3. CASE node.kind \notin {"Local", "Privileged"}
      BY <1>5, <3>3 DEF HandlePeerEdit, PrivilegedTypeOK, privilegedVars, linkVars, workerVars
    <3> QED BY <3>1, <3>2, <3>3
  <2> QED BY <1>5, <2>1, <2>4 DEF HandlePeerEdit, PendingStart
<1>6. CASE HandleDiscover
  <2>1. /\ Head(commands) \in BackendCommand
        /\ Head(commands).command = "Discover"
        /\ commands' \in Seq(BackendCommand)
    BY <1>1, <1>6 DEF HandleDiscover
  <2>2. Head(commands).id \in Searches
    BY <2>1 DEF BackendCommand, PeerEdit
  <2> QED
    BY <1>6, <2>1, <2>2
       DEF HandleDiscover, PendingStart, PrivilegedTypeOK, privilegedVars, linkVars, workerVars
<1> QED BY <1>4, <1>5, <1>6 DEF CommandStep

\* Ending a close keeps the types.
LEMMA CloseStepTypes ==
    ASSUME TypeInv, CloseStep
    PROVE  TypeInv'
<1> USE DEF TypeInv, TypeOK, HandleTypeOK, BackendTypeOK
<1>1. ASSUME AfterClose, PrivilegedTypeOK', localPeers' \in SUBSET Peers,
             gaveUp' \in BOOLEAN
      PROVE  TypeInv'
  <2>1. Resume(pending)
    BY <1>1 DEF AfterClose
  <2>2. /\ events' \in Seq(BackendEvent)
        /\ announced' \in {"Stopped", "Starting", "Running"}
        /\ pending' \in BackendCommand
        /\ pc' \in {"Launching", "StartingLocal", "Select", "Exiting"}
        /\ pc' \in {"Launching", "StartingLocal"} => pending'.command = "Start"
    BY <2>1, ResumeTypes
  <2> QED BY <1>1, <2>2 DEF AfterClose, PendingStart, ActiveNode
<1>2. CASE CloseLocal
  BY <1>1, <1>2 DEF CloseLocal, PrivilegedTypeOK, privilegedVars, linkVars, workerVars
<1>3. ASSUME NEW s \in Sessions, CloseCompletes(s)
      PROVE  TypeInv'
  BY <1>1, <1>3, OperationTypes DEF CloseCompletes
<1>4. ASSUME NEW s \in Sessions, CloseTimesOut(s)
      PROVE  TypeInv'
  BY <1>1, <1>4, OperationTypes DEF CloseTimesOut
<1> QED BY <1>2, <1>3, <1>4 DEF CloseStep

\* Every step of a start, failed ones included, keeps the types.
LEMMA StartStepTypes ==
    ASSUME TypeInv, StartStep
    PROVE  TypeInv'
<1> USE MessagesAssumption DEF TypeInv, TypeOK, HandleTypeOK, BackendTypeOK
<1>1. ASSUME StartNodeFails, PrivilegedTypeOK', nextSession' \in 0..MaxSession
      PROVE  TypeInv'
  <2>1. /\ events' \in Seq(BackendEvent)
        /\ announced' \in {"Stopped", "Starting", "Running"}
    BY <1>1, SendTypes, EventTypes DEF StartNodeFails
  <2> QED BY <1>1, <2>1, CommandTypes DEF StartNodeFails, Return, PendingStart
<1>2. CASE StartTun
  <2>1. nextSession' \in Sessions
    BY <1>2 DEF StartTun, Sessions
  <2>2. PrivilegedTypeOK'
    BY <1>2, <2>1, OperationTypes DEF StartTun
  <2> QED BY <1>2, <2>1, <2>2 DEF StartTun, PendingStart, Sessions
<1>3. CASE StartTunFails
  <2>1. PrivilegedTypeOK'
    BY <1>3 DEF StartTunFails, PrivilegedTypeOK, privilegedVars, linkVars, workerVars
  <2> QED BY <1>1, <1>3, <2>1 DEF StartTunFails
<1>4. CASE Accept
  <2>1. PrivilegedTypeOK'
    BY <1>4, OperationTypes DEF Accept, PendingStart
  <2> QED BY <1>4, <2>1 DEF Accept, PendingStart
<1>5. CASE LauncherExits
  BY <1>1, <1>5, OperationTypes DEF LauncherExits, PendingStart
<1>6. CASE ElevationTimesOut
  BY <1>1, <1>6, OperationTypes DEF ElevationTimesOut, PendingStart
<1>7. CASE SendStart
  <2>1. pending \in WorkerCommand /\ nextSession \in Sessions
    BY <1>7, CommandTypes DEF SendStart, PendingStart
  <2>2. PrivilegedTypeOK'
    BY <1>7, <2>1, OperationTypes DEF SendStart
  <2> QED BY <1>7, <2>1, <2>2, CommandTypes
             DEF SendStart, Return, PendingStart, ActiveNode
<1>8. CASE SendStartFails
  BY <1>1, <1>8, OperationTypes DEF SendStartFails, PendingStart
<1>9. CASE StartLocal
  <2>1. /\ pending.config.peers \in SUBSET Peers
        /\ pending.config.mode \in NodeMode
    BY <1>9, CommandTypes DEF StartLocal, PendingStart
  <2>2. /\ events' \in Seq(BackendEvent)
        /\ announced' \in {"Stopped", "Starting", "Running"}
    BY <1>9, <2>1, SendTypes, EventTypes DEF StartLocal
  <2>3. PrivilegedTypeOK'
    BY <1>9 DEF StartLocal, PrivilegedTypeOK, privilegedVars, linkVars, workerVars
  <2> QED BY <1>9, <2>1, <2>2, <2>3, CommandTypes
             DEF StartLocal, Return, PendingStart, ActiveNode
<1>10. CASE StartLocalFails
  <2>1. PrivilegedTypeOK'
    BY <1>10 DEF StartLocalFails, PrivilegedTypeOK, privilegedVars, linkVars, workerVars
  <2> QED BY <1>1, <1>10, <2>1 DEF StartLocalFails
<1> QED
  BY <1>2, <1>3, <1>4, <1>5, <1>6, <1>7, <1>8, <1>9, <1>10 DEF StartStep

\* The remaining steps of the thread, and of everyone else, keep the types.
LEMMA OtherStepTypes ==
    ASSUME TypeInv,
           \/ HandleRemote \/ Exit \/ ThreadEnds \/ StatusTick \/ GuiCrash
           \/ TakeEvent \/ OtherInput
           \/ \E id \in Searches : DiscoveryFinishes(id)
           \/ \E s \in Sessions : WorkerOrLinkStep(s)
           \/ \E command \in BackendCommand : SubmitCommand(command)
    PROVE  TypeInv'
<1> USE DEF TypeInv, TypeOK, HandleTypeOK, BackendTypeOK
<1>1. CASE HandleRemote
  <2> DEFINE report == Head(remote)
  <2>1. report \in RemoteEnvelope /\ remote' \in Seq(RemoteEnvelope)
    BY <1>1 DEF HandleRemote, PrivilegedTypeOK
  <2>2. /\ node' \in ActiveNode
        /\ attached' \in [Sessions -> BOOLEAN]
    BY <1>1, <2>1 DEF HandleRemote, PrivilegedTypeOK, ActiveNode
  <2>3. /\ events' \in Seq(BackendEvent)
        /\ announced' \in {"Stopped", "Starting", "Running"}
    <3>1. CASE Send([event |-> "Started", mode |-> "Tun"])
      BY <3>1, SendTypes, EventTypes DEF NodeMode
    <3>2. CASE Send(Event("Failed")) \/ Send(Event("PeerStatus"))
      BY <3>2, SendTypes, EventTypes
    <3>3. CASE /\ events' = events \o <<Event("Stopped"), Event("Failed")>>
               /\ announced' = "Stopped"
      BY <3>3, EventTypes
    <3>4. CASE UNCHANGED <<events, announced>>
      BY <3>4
    <3> QED BY <1>1, <3>1, <3>2, <3>3, <3>4 DEF HandleRemote, SendNothing
  <2> HIDE DEF report
  <2>4. PrivilegedTypeOK'
    BY <1>1, <2>1, <2>2 DEF HandleRemote, PrivilegedTypeOK, workerVars
  <2> QED BY <1>1, <2>2, <2>3, <2>4 DEF HandleRemote, PendingStart
<1>2. CASE Exit
  <2>1. PrivilegedTypeOK'
    BY <1>2 DEF Exit, DropAllLinks, PrivilegedTypeOK, workerVars, ConnState
  <2> QED BY <1>2, <2>1 DEF Exit, PendingStart
<1>9. CASE ThreadEnds
  BY <1>9 DEF ThreadEnds, PendingStart, PrivilegedTypeOK, privilegedVars, linkVars,
              workerVars, handleVars
<1>3. CASE StatusTick
  <2>1. /\ events' \in Seq(BackendEvent)
        /\ announced' \in {"Stopped", "Starting", "Running"}
    BY <1>3, SendTypes, EventTypes DEF StatusTick
  <2> QED BY <1>3, <2>1
        DEF StatusTick, PendingStart, PrivilegedTypeOK, privilegedVars, linkVars, workerVars
<1>4. CASE GuiCrash
  <2>1. PrivilegedTypeOK'
    BY <1>4 DEF GuiCrash, DropAllLinks, PrivilegedTypeOK, workerVars, ConnState
  <2> QED BY <1>4, <2>1, CommandTypes DEF GuiCrash, PendingStart, ActiveNode
<1>5. CASE TakeEvent \/ OtherInput
  <2>1. CASE TakeEvent
    BY <2>1 DEF TakeEvent, loopVars, PendingStart, PrivilegedTypeOK, privilegedVars,
                linkVars, workerVars
  <2>2. CASE OtherInput
    BY <2>2 DEF OtherInput, Input, loopVars, PendingStart, PrivilegedTypeOK,
                privilegedVars, linkVars, workerVars
  <2> QED BY <1>5, <2>1, <2>2
<1>6. ASSUME NEW id \in Searches, DiscoveryFinishes(id)
      PROVE  TypeInv'
  <2>1. /\ events' \in Seq(BackendEvent)
        /\ announced' \in {"Stopped", "Starting", "Running"}
    BY <1>6, SendTypes, EventTypes DEF DiscoveryFinishes
  <2> QED BY <1>6, <2>1
        DEF DiscoveryFinishes, PendingStart, PrivilegedTypeOK, privilegedVars,
            linkVars, workerVars
<1>7. ASSUME NEW s \in Sessions, WorkerOrLinkStep(s)
      PROVE  TypeInv'
  <2>1. PrivilegedTypeOK'
    BY <1>7, PrivilegedStepTypes, WorkerTickTypes DEF WorkerOrLinkStep
  <2> QED BY <1>7, <2>1 DEF WorkerOrLinkStep, backendVars, handleVars, loopVars, PendingStart
<1>8. ASSUME NEW command \in BackendCommand, SubmitCommand(command)
      PROVE  TypeInv'
  BY <1>8 DEF SubmitCommand, Input, Post, loopVars, PendingStart, PrivilegedTypeOK,
              privilegedVars, linkVars, workerVars
<1> QED BY <1>1, <1>2, <1>3, <1>4, <1>5, <1>6, <1>7, <1>8, <1>9

\* Every variable keeps its type, and a start in progress has its arguments:
\* handle_command's `config` and the session start_node numbered.
THEOREM TypeCorrect == Spec => []TypeInv
<1>1. Init => TypeInv
  <2> SUFFICES ASSUME Init PROVE TypeInv
    OBVIOUS
  <2>1. PrivilegedTypeOK
    BY DEF Init, PrivilegedInit, PrivilegedTypeOK, ConnState, WorkerState
  <2>2. HandleTypeOK
    BY DEF Init, HandleInit, HandleTypeOK
  <2>3. BackendTypeOK
    <3>1. gaveUp \in BOOLEAN
      BY ZenonT(30) DEF Init
    <3>2. nextSession \in 0..MaxSession
      BY MessagesAssumption DEF Init
    <3>3. pending \in BackendCommand /\ node \in ActiveNode /\ closing \in ActiveNode
      BY CommandTypes DEF Init, ActiveNode
    <3>4. localPeers \in SUBSET Peers /\ searching \in SUBSET Searches
      BY DEF Init
    <3>5. /\ pc \in {"Select", "Closing", "Launching", "Accepting", "Sending",
                     "StartingLocal", "Exiting", "Joining", "Done"}
          /\ announced \in {"Stopped", "Starting", "Running"}
      BY DEF Init
    <3> QED BY <3>1, <3>2, <3>3, <3>4, <3>5 DEF BackendTypeOK
  <2>4. PendingStart
    BY DEF Init, PendingStart
  <2> QED BY <2>1, <2>2, <2>3, <2>4 DEF TypeInv, TypeOK
<1>2. TypeInv /\ [Next]_vars => TypeInv'
  <2> SUFFICES ASSUME TypeInv, [Next]_vars
               PROVE  TypeInv'
    OBVIOUS
  <2>1. CASE UNCHANGED vars
    BY <2>1 DEF vars, backendVars, handleVars, loopVars, privilegedVars, linkVars,
                workerVars, TypeInv, TypeOK, PrivilegedTypeOK, HandleTypeOK,
                BackendTypeOK, PendingStart
  <2>2. CASE Next
    BY <2>2, CommandStepTypes, CloseStepTypes, StartStepTypes, OtherStepTypes
       DEF Next, SystemStep, LoopStep
  <2> QED BY <2>1, <2>2
<1> QED BY <1>1, <1>2, PTL DEF Spec

(***************************************************************************)
(* One tunnel at a time.                                                   *)
(***************************************************************************)

\* Nodes of different sessions are different, and none is the absent node.
LEMMA TunNodes ==
    /\ \A s, t \in Sessions : TunNode(s) = TunNode(t) => s = t
    /\ \A s \in Sessions : TunNode(s) # NoNode /\ TunNode(s) # LocalNode
    /\ LocalNode # NoNode
BY DEF TunNode, NoNode, LocalNode

\* A connection ends only after its worker has exited: `attached` keeps the
\* disconnect arm asleep, and the stream ends at the worker's end only.
LEMMA LinkStepOwnership ==
    ASSUME TypeInv, Ownership, NEW s \in Sessions, ParentConnection(s),
           UNCHANGED backendVars
    PROVE  Ownership'
<1> USE DEF TypeInv, TypeOK, PrivilegedTypeOK, Ownership, OneOwner, LinksOwned, Owns,
            FreshSessions, ListeningIsQuiet, EndedIsDown, OpenIsAttached,
            backendVars, loopVars, workerVars
<1>1. ASSUME NEW quiet \in BOOLEAN, EndConnection(s, quiet), conn[s] = "Open",
             worker[s] = "Exited"
      PROVE  Ownership'
  <2>1. EndReportsTrue'
    <3> SUFFICES ASSUME NEW i \in 1..Len(remote'), IsEndReport(remote'[i])
                 PROVE  conn'[remote'[i].session] = "Ended"
      BY DEF EndReportsTrue, IsEndReport
    <3>1. CASE i \in 1..Len(remote)
      <4>1. /\ remote'[i] = remote[i]
            /\ remote[i] \in RemoteEnvelope
            /\ IsEndReport(remote[i])
        BY <1>1, <3>1 DEF EndConnection, IsEndReport
      <4>2. conn[remote[i].session] = "Ended" /\ remote[i].session \in Sessions
        BY <3>1, <4>1 DEF EndReportsTrue, RemoteEnvelope
      <4> QED BY <1>1, <4>1, <4>2 DEF EndConnection
    <3>2. CASE i = Len(remote) + 1
      <4>1. remote'[i].session = s
        BY <1>1, <3>2 DEF EndConnection
      <4> QED BY <1>1, <4>1 DEF EndConnection
    <3> QED BY <1>1, <3>1, <3>2 DEF EndConnection
  <2> QED BY <1>1, <2>1 DEF EndConnection
<1>2. CASE ForwardCommand(s)
  BY <1>2 DEF ForwardCommand, CanForward, EndReportsTrue
<1>3. CASE ForwardFails(s)
  BY <1>1, <1>3 DEF ForwardFails, CanForward, IsShutdown
<1>4. CASE ReceiveEvent(s)
  <2>1. Head(up[s]) \in WorkerEvent
    BY <1>4 DEF ReceiveEvent
  <2>2. EndReportsTrue'
    <3> SUFFICES ASSUME NEW i \in 1..Len(remote'), IsEndReport(remote'[i])
                 PROVE  conn'[remote'[i].session] = "Ended"
      BY DEF EndReportsTrue, IsEndReport
    <3>1. i \in 1..Len(remote)
      BY <1>4, <2>1 DEF ReceiveEvent, IsEndReport, WorkerEvent
    <3>2. remote'[i] = remote[i]
      BY <1>4, <3>1 DEF ReceiveEvent
    <3> QED BY <1>4, <3>1, <3>2 DEF ReceiveEvent, EndReportsTrue
  <2> QED BY <1>4, <2>2 DEF ReceiveEvent
<1>5. CASE StreamEnds(s)
  BY <1>1, <1>5 DEF StreamEnds
<1>6. CASE DisconnectFires(s)
  BY <1>6 DEF DisconnectFires
<1> QED BY <1>2, <1>3, <1>4, <1>5, <1>6 DEF ParentConnection

\* A worker whose connection is gone never starts a node.
LEMMA WorkerStepOwnership ==
    ASSUME TypeInv, Ownership, NEW s \in Sessions, WorkerStep(s) \/ WorkerTick(s),
           UNCHANGED backendVars
    PROVE  Ownership'
<1> USE DEF TypeInv, TypeOK, PrivilegedTypeOK, Ownership, OneOwner, LinksOwned, Owns,
            FreshSessions, ListeningIsQuiet, EndedIsDown, OpenIsAttached, EndReportsTrue,
            backendVars, loopVars, linkVars, workerVars, GoTo, ConnState
<1>1. CASE WorkerConnects(s)
  BY <1>1 DEF WorkerConnects
<1>2. CASE AuthorizationDenied(s)
  BY <1>2 DEF AuthorizationDenied
<1>3. CASE WorkerReadsFirst(s)
  BY <1>3 DEF WorkerReadsFirst
<1>4. CASE WorkerStarts(s)
  BY <1>4 DEF WorkerStarts
<1>5. CASE WorkerStartFails(s)
  BY <1>5 DEF WorkerStartFails
<1>6. CASE WorkerCapabilityFails(s)
  BY <1>6 DEF WorkerCapabilityFails
<1>7. CASE WorkerEditsPeers(s)
  BY <1>7 DEF WorkerEditsPeers, WorkerReads
<1>8. CASE WorkerRejects(s)
  BY <1>8 DEF WorkerRejects, WorkerReads
<1>9. CASE WorkerShutsDown(s)
  BY <1>9 DEF WorkerShutsDown, WorkerReads
<1>10. CASE WorkerLosesGui(s)
  <2>1. CASE worker[s] = "Connected" /\ GoTo(s, "Exited")
    BY <1>10, <2>1 DEF WorkerLosesGui
  <2>2. CASE worker[s] = "Running" /\ GoTo(s, "Closing")
    BY <1>10, <2>2 DEF WorkerLosesGui
  <2> QED BY <1>10, <2>1, <2>2 DEF WorkerLosesGui
<1>11. CASE WorkerClosed(s)
  BY <1>11 DEF WorkerClosed
<1>12. CASE WorkerDies(s)
  BY <1>12 DEF WorkerDies
<1>13. CASE WorkerTick(s)
  BY <1>13 DEF WorkerTick
<1> QED
  BY <1>1, <1>2, <1>3, <1>4, <1>5, <1>6, <1>7, <1>8, <1>9, <1>10, <1>11, <1>12, <1>13
     DEF WorkerStep, WorkerProgress

\* Nothing the loop does gives up a connection it owns and leaves it open.
LEMMA LoopStepOwnership ==
    ASSUME TypeInv, Ownership, LoopStep, ~gaveUp'
    PROVE  Ownership'
<1> USE TunNodes
    DEF TypeInv, TypeOK, PrivilegedTypeOK, BackendTypeOK, PendingStart,
        Ownership, OneOwner, LinksOwned, Owns, FreshSessions, ListeningIsQuiet,
        EndedIsDown, OpenIsAttached, EndReportsTrue, linkVars, workerVars,
        privilegedVars
<1>1. CASE HandleLifecycle
  <2>1. CASE node = NoNode
    BY <1>1, <2>1 DEF HandleLifecycle, Receive, Resume, Return
  <2>2. CASE node # NoNode
    <3>1. UNCHANGED <<conn, attached, workerVars, down, up, remote>>
      BY <1>1, <2>2 DEF HandleLifecycle, Request
    <3>2. /\ pc = "Select" /\ pc' = "Closing"
          /\ node' = NoNode /\ closing' = node /\ closing = NoNode
          /\ UNCHANGED nextSession
      BY <1>1, <2>2 DEF HandleLifecycle, Receive
    <3> QED BY <2>2, <3>1, <3>2
  <2> QED BY <2>1, <2>2
<1>2. CASE HandlePeerEdit
  <2>1. UNCHANGED <<conn, attached, workerVars, down, up, remote>>
    BY <1>2 DEF HandlePeerEdit, Request
  <2> QED BY <1>2, <2>1 DEF HandlePeerEdit
<1>3. CASE HandleDiscover
  BY <1>3 DEF HandleDiscover
<1>4. CASE CloseLocal
  BY <1>4 DEF CloseLocal, AfterClose, Resume, Return
<1>5. ASSUME NEW s \in Sessions, CloseCompletes(s)
      PROVE  Ownership'
  <2>1. /\ closing = TunNode(s) /\ closing' = NoNode
        /\ pc = "Closing" /\ pc' \in {"Select", "Launching", "StartingLocal", "Exiting"}
        /\ node = NoNode
    BY <1>5 DEF CloseCompletes, AfterClose, Resume, Return
  <2>2. /\ conn[s] = "Ended"
        /\ attached' = [attached EXCEPT ![s] = FALSE]
        /\ UNCHANGED <<conn, worker, down, remote, node, nextSession>>
    BY <1>5 DEF CloseCompletes, DropNode, AfterClose
  <2>3. OneOwner' /\ LinksOwned'
    BY <2>1, <2>2
  <2>4. FreshSessions' /\ ListeningIsQuiet' /\ EndedIsDown'
    BY <2>1, <2>2
  <2>5. OpenIsAttached' /\ EndReportsTrue'
    BY <2>2
  <2> QED BY <2>3, <2>4, <2>5
<1>6. CASE StartTun
  <2>1. /\ nextSession' = nextSession + 1 /\ nextSession' \in Sessions
        /\ nextSession \in Nat
    BY <1>6, MessagesAssumption DEF StartTun, Sessions
  <2>2. /\ pc = "Launching" /\ pc' = "Accepting"
        /\ conn' = [conn EXCEPT ![nextSession'] = "Listening"]
        /\ worker' = [worker EXCEPT ![nextSession'] = "Launched"]
        /\ UNCHANGED <<attached, down, remote, node, closing>>
    BY <1>6 DEF StartTun, LaunchWorker
  <2>3. conn[nextSession'] = "None" /\ down[nextSession'] = <<>>
    BY <2>1
  <2>4. \A t \in Sessions : t > nextSession' => t > nextSession /\ t # nextSession'
    BY <2>1 DEF Sessions
  <2>5. OneOwner' /\ LinksOwned'
    BY <2>1, <2>2
  <2>6. FreshSessions' /\ ListeningIsQuiet'
    BY <2>1, <2>2, <2>3, <2>4
  <2>7. EndedIsDown' /\ OpenIsAttached'
    BY <2>1, <2>2
  <2>8. EndReportsTrue'
    <3> SUFFICES ASSUME NEW i \in 1..Len(remote), IsEndReport(remote[i])
                 PROVE  conn'[remote[i].session] = "Ended"
      BY <2>2 DEF IsEndReport
    <3>1. conn[remote[i].session] = "Ended"
      OBVIOUS
    <3> QED BY <2>2, <2>3, <3>1
  <2> QED BY <2>5, <2>6, <2>7, <2>8
<1>7. CASE StartTunFails
  BY <1>7 DEF StartTunFails, StartNodeFails, Return, Sessions
<1>8. CASE Accept
  <2>1. /\ nextSession \in Sessions
        /\ conn' = [conn EXCEPT ![nextSession] = "Open"]
        /\ attached' = [attached EXCEPT ![nextSession] = TRUE]
        /\ conn[nextSession] = "Listening"
    BY <1>8 DEF Accept, AcceptWorker
  <2>2. /\ pc = "Accepting" /\ pc' = "Sending"
        /\ UNCHANGED <<worker, down, remote, node, closing, nextSession>>
    BY <1>8 DEF Accept, AcceptWorker
  <2>3. OneOwner' /\ LinksOwned' /\ FreshSessions' /\ ListeningIsQuiet'
    BY <2>1, <2>2
  <2>4. EndedIsDown' /\ OpenIsAttached'
    BY <2>1, <2>2
  <2>5. EndReportsTrue'
    <3> SUFFICES ASSUME NEW i \in 1..Len(remote), IsEndReport(remote[i])
                 PROVE  conn'[remote[i].session] = "Ended"
      BY <2>2 DEF IsEndReport
    <3>1. conn[remote[i].session] = "Ended"
      OBVIOUS
    <3>2. remote[i].session # nextSession
      BY <2>1, <3>1
    <3> QED BY <2>1, <3>1, <3>2
  <2> QED BY <2>3, <2>4, <2>5
<1>9. CASE LauncherExits \/ ElevationTimesOut
  <2>1. /\ pc = "Accepting" /\ pc' = "Select" /\ nextSession \in Sessions
        /\ UNCHANGED <<node, closing, nextSession>>
    BY <1>9 DEF LauncherExits, ElevationTimesOut, StartNodeFails, Return
  <2>2. /\ conn[nextSession] = "Listening"
        /\ conn' = [conn EXCEPT ![nextSession] = "Ended"]
        /\ UNCHANGED <<attached, worker, down, remote>>
    BY <1>9 DEF LauncherExits, ElevationTimesOut, StopListening
  <2>3. OneOwner' /\ LinksOwned'
    BY <2>1, <2>2
  <2>4. FreshSessions' /\ ListeningIsQuiet'
    BY <2>1, <2>2
  <2>5. EndedIsDown' /\ OpenIsAttached'
    BY <2>1, <2>2
  <2>6. EndReportsTrue'
    <3> SUFFICES ASSUME NEW i \in 1..Len(remote), IsEndReport(remote[i])
                 PROVE  conn'[remote[i].session] = "Ended"
      BY <2>2 DEF IsEndReport
    <3>1. conn[remote[i].session] = "Ended"
      OBVIOUS
    <3> QED BY <2>2, <3>1
  <2> QED BY <2>3, <2>4, <2>5, <2>6
<1>10. CASE SendStart
  <2>1. /\ pc = "Sending" /\ pc' = "Select"
        /\ node' = TunNode(nextSession)
        /\ UNCHANGED <<conn, attached, worker, down, remote, closing, nextSession>>
    BY <1>10 DEF SendStart, Request, Return
  <2>2. OneOwner' /\ LinksOwned'
    BY <2>1
  <2> QED BY <2>1, <2>2
<1>11. CASE SendStartFails
  <2>1. /\ pc = "Sending" /\ pc' = "Select" /\ nextSession \in Sessions
        /\ UNCHANGED <<node, closing, nextSession>>
    BY <1>11 DEF SendStartFails, StartNodeFails, Return
  <2>2. /\ conn[nextSession] # "Open"
        /\ attached' = [attached EXCEPT ![nextSession] = FALSE]
        /\ UNCHANGED <<conn, worker, down, remote>>
    BY <1>11 DEF SendStartFails, DropNode
  <2>3. OneOwner' /\ LinksOwned'
    BY <2>1, <2>2
  <2> QED BY <2>1, <2>2, <2>3
<1>12. CASE StartLocal
  BY <1>12 DEF StartLocal, Return
<1>13. CASE StartLocalFails
  BY <1>13 DEF StartLocalFails, StartNodeFails, Return
<1>14. CASE HandleRemote
  <2> DEFINE report == Head(remote)
  <2>1. /\ report = remote[1] /\ 1 \in 1..Len(remote)
        /\ report.session \in Sessions
    <3>1. remote # <<>> /\ remote \in Seq(RemoteEnvelope)
      BY <1>14 DEF HandleRemote
    <3>2. report \in RemoteEnvelope /\ report = remote[1] /\ 1 \in 1..Len(remote)
      BY <3>1
    <3> QED BY <3>2 DEF RemoteEnvelope
  <2>2. IsEndReport(report) => conn[report.session] = "Ended"
    BY <2>1
  <2>3. \A i \in 1..Len(remote') : i + 1 \in 1..Len(remote) /\ remote'[i] = remote[i + 1]
    BY <1>14 DEF HandleRemote
  <2>4. /\ pc = "Select" /\ closing = NoNode
        /\ UNCHANGED <<conn, worker, down, pc, closing, nextSession>>
    BY <1>14 DEF HandleRemote
  <2>5. EndReportsTrue'
    <3> SUFFICES ASSUME NEW i \in 1..Len(remote'), IsEndReport(remote'[i])
                 PROVE  conn'[remote'[i].session] = "Ended"
      BY DEF IsEndReport
    <3>1. i + 1 \in 1..Len(remote) /\ remote'[i] = remote[i + 1]
      BY <2>3
    <3>2. conn[remote[i + 1].session] = "Ended"
      BY <3>1 DEF IsEndReport
    <3> QED BY <2>4, <3>1, <3>2
  <2>6. CASE node = TunNode(report.session) /\ IsEndReport(report)
    <3>1. node' = NoNode /\ attached' = [attached EXCEPT ![report.session] = FALSE]
      BY <1>14, <2>6 DEF HandleRemote
    <3> QED BY <2>1, <2>2, <2>4, <2>5, <2>6, <3>1
  <2>7. CASE ~(node = TunNode(report.session) /\ IsEndReport(report))
    <3>1. UNCHANGED <<node, attached>>
      BY <1>14, <2>7 DEF HandleRemote
    <3> QED BY <2>4, <2>5, <3>1
  <2> QED BY <2>6, <2>7
<1>15. CASE Exit
  BY <1>15 DEF Exit, DropAllLinks
<1>16. CASE ThreadEnds
  BY <1>16 DEF ThreadEnds
<1> QED
  BY <1>1, <1>2, <1>3, <1>4, <1>5, <1>6, <1>7, <1>8, <1>9, <1>10, <1>11, <1>12,
     <1>13, <1>14, <1>15, <1>16
     DEF LoopStep, CommandStep, CloseStep, StartStep, CloseTimesOut

\* Neither does anybody else.
LEMMA NextOwnership ==
    ASSUME TypeInv, Ownership, [Next]_vars, ~gaveUp'
    PROVE  Ownership'
<1> USE DEF Ownership, OneOwner, LinksOwned, Owns, FreshSessions, ListeningIsQuiet,
            EndedIsDown, OpenIsAttached, EndReportsTrue, linkVars, workerVars,
            privilegedVars, loopVars
<1>1. CASE LoopStep
  BY <1>1, LoopStepOwnership
<1>2. CASE StatusTick
  BY <1>2 DEF StatusTick
<1>3. CASE GuiCrash
  BY <1>3 DEF GuiCrash, DropAllLinks
<1>4. ASSUME NEW id \in Searches, DiscoveryFinishes(id)
      PROVE  Ownership'
  BY <1>4 DEF DiscoveryFinishes
<1>5. ASSUME NEW s \in Sessions, WorkerOrLinkStep(s)
      PROVE  Ownership'
  BY <1>5, LinkStepOwnership, WorkerStepOwnership DEF WorkerOrLinkStep, PrivilegedStep
<1>6. ASSUME NEW command \in BackendCommand, SubmitCommand(command)
      PROVE  Ownership'
  BY <1>6 DEF SubmitCommand
<1>7. CASE TakeEvent \/ OtherInput
  BY <1>7 DEF TakeEvent, OtherInput
<1>8. CASE UNCHANGED vars
  BY <1>8 DEF vars, backendVars
<1> QED
  BY <1>1, <1>2, <1>3, <1>4, <1>5, <1>6, <1>7, <1>8 DEF Next, SystemStep

\* That a close() gave up is never forgotten.
LEMMA GaveUpStays ==
    ASSUME TypeInv, [Next]_vars, gaveUp
    PROVE  gaveUp'
<1>1. CASE CommandStep
  BY <1>1 DEF CommandStep, HandleLifecycle, HandlePeerEdit, HandleDiscover
<1>2. CASE CloseStep
  BY <1>2 DEF CloseStep, CloseLocal, CloseCompletes, CloseTimesOut
<1>3. CASE StartStep
  BY <1>3 DEF StartStep, StartTun, StartTunFails, Accept, LauncherExits,
              ElevationTimesOut, SendStart, SendStartFails, StartLocal,
              StartLocalFails, StartNodeFails
<1>4. CASE \/ HandleRemote \/ Exit \/ ThreadEnds \/ StatusTick \/ GuiCrash
           \/ TakeEvent \/ OtherInput
           \/ \E id \in Searches : DiscoveryFinishes(id)
  BY <1>4 DEF HandleRemote, Exit, ThreadEnds, StatusTick, GuiCrash, TakeEvent, OtherInput,
              DiscoveryFinishes, loopVars
<1>5. CASE \/ \E s \in Sessions : WorkerOrLinkStep(s)
           \/ \E command \in BackendCommand : SubmitCommand(command)
           \/ UNCHANGED vars
  BY <1>5 DEF WorkerOrLinkStep, SubmitCommand, vars, backendVars, loopVars
<1> QED BY <1>1, <1>2, <1>3, <1>4, <1>5 DEF Next, SystemStep, LoopStep

\* The strengthening is an invariant: connections are owned, fresh or ended,
\* and end after their worker, as long as close() never gives up.
THEOREM SessionsOwned == Spec => []SessionInv
<1>1. Init => SessionInv
  BY DEF Init, PrivilegedInit, SessionInv, Ownership, OneOwner, LinksOwned,
         FreshSessions, ListeningIsQuiet, EndedIsDown, OpenIsAttached, EndReportsTrue
<1>2. TypeInv /\ SessionInv /\ [Next]_vars => SessionInv'
  <2> SUFFICES ASSUME TypeInv, SessionInv, [Next]_vars, ~gaveUp'
               PROVE  Ownership'
    BY DEF SessionInv
  <2>1. ~gaveUp
    BY GaveUpStays
  <2> QED BY <2>1, NextOwnership DEF SessionInv
<1> QED BY <1>1, <1>2, TypeCorrect, PTL DEF Spec

\* Two sessions are never owned at once.
LEMMA OwnerUnique ==
    ASSUME OneOwner, pc # "Done", NEW s \in Sessions, NEW t \in Sessions,
           Owns(s), Owns(t)
    PROVE  s = t
BY TunNodes DEF OneOwner, Owns

\* A worker that has a tunnel still has its connection.
LEMMA TunnelIsOwned ==
    ASSUME TypeInv, Ownership, pc # "Done", NEW s \in Sessions, HasTunnel(s)
    PROVE  Owns(s)
<1>1. conn[s] \in {"None", "Listening", "Open", "Ended"}
  BY DEF TypeInv, TypeOK, PrivilegedTypeOK, ConnState
<1>2. conn[s] = "Open"
  BY <1>1 DEF Ownership, FreshSessions, ListeningIsQuiet, EndedIsDown, HasTunnel
<1> QED BY <1>2 DEF Ownership, LinksOwned

\* At most one worker holds a TUN interface, however starts, stops, crashes and
\* failures interleave, as long as no close() gave up waiting.
THEOREM OneTunnelHolds == Spec => []OneTunnel
<1>1. TypeInv /\ SessionInv => OneTunnel
  BY OwnerUnique, TunnelIsOwned DEF SessionInv, OneTunnel, Ownership
<1> QED BY <1>1, TypeCorrect, SessionsOwned, PTL

\* Under the same condition, an idle backend without a node has no worker with
\* a TUN interface anywhere.
THEOREM StoppedMeansDownHolds == Spec => []StoppedMeansDown
<1>1. TypeInv /\ SessionInv => StoppedMeansDown
  BY TunnelIsOwned, TunNodes
     DEF SessionInv, StoppedMeansDown, Ownership, OneOwner, Owns
<1> QED BY <1>1, TypeCorrect, SessionsOwned, PTL

=============================================================================
