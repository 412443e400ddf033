----------------------------- MODULE StoryProofs -----------------------------
(***************************************************************************)
(* Proofs about what the network thread tells the window, for every value  *)
(* of the constants and with every fault, closes that time out included:   *)
(* what was announced is true of the node, the events follow the node      *)
(* lifecycle, and no session's end is lost or left to nobody.              *)
(***************************************************************************)
EXTENDS BackendProofs

(***************************************************************************)
(* Where nodes and sessions are.                                           *)
(***************************************************************************)

\* Unlike Ownership, this survives a close() that gave up.
PlaceInv == OneOwner /\ FreshSessions /\ ListeningIsQuiet

\* A connection's own steps.
LEMMA LinkStepPlaces ==
    ASSUME TypeInv, PlaceInv, NEW s \in Sessions, ParentConnection(s),
           UNCHANGED backendVars
    PROVE  PlaceInv'
<1> USE DEF TypeInv, TypeOK, PrivilegedTypeOK, PlaceInv, OneOwner, FreshSessions,
            ListeningIsQuiet, backendVars, loopVars, workerVars
<1>1. ASSUME NEW quiet \in BOOLEAN, EndConnection(s, quiet), conn[s] = "Open"
      PROVE  PlaceInv'
  BY <1>1 DEF EndConnection
<1>2. CASE ForwardCommand(s)
  BY <1>2 DEF ForwardCommand, CanForward
<1>3. CASE ForwardFails(s)
  BY <1>1, <1>3 DEF ForwardFails, CanForward, IsShutdown
<1>4. CASE ReceiveEvent(s)
  BY <1>4 DEF ReceiveEvent
<1>5. CASE StreamEnds(s)
  BY <1>1, <1>5 DEF StreamEnds
<1>6. CASE DisconnectFires(s)
  BY <1>1, <1>6 DEF DisconnectFires
<1> QED BY <1>2, <1>3, <1>4, <1>5, <1>6 DEF ParentConnection

\* A worker's.
LEMMA WorkerStepPlaces ==
    ASSUME TypeInv, PlaceInv, NEW s \in Sessions, WorkerStep(s) \/ WorkerTick(s),
           UNCHANGED backendVars
    PROVE  PlaceInv'
<1> USE DEF TypeInv, TypeOK, PrivilegedTypeOK, PlaceInv, OneOwner, FreshSessions,
            ListeningIsQuiet, backendVars, loopVars, linkVars, workerVars, GoTo
<1>1. CASE WorkerConnects(s) \/ AuthorizationDenied(s)
  BY <1>1 DEF WorkerConnects, AuthorizationDenied
<1>2. CASE WorkerReadsFirst(s)
  BY <1>2 DEF WorkerReadsFirst
<1>3. CASE WorkerStarts(s) \/ WorkerStartFails(s)
  BY <1>3 DEF WorkerStarts, WorkerStartFails
<1>4. CASE WorkerCapabilityFails(s) \/ WorkerClosed(s) \/ WorkerDies(s)
  BY <1>4 DEF WorkerCapabilityFails, WorkerClosed, WorkerDies
<1>5. CASE WorkerEditsPeers(s) \/ WorkerRejects(s) \/ WorkerShutsDown(s)
  BY <1>5 DEF WorkerEditsPeers, WorkerRejects, WorkerShutsDown, WorkerReads
<1>6. CASE WorkerLosesGui(s)
  <2>1. CASE worker[s] = "Connected" /\ GoTo(s, "Exited")
    BY <1>6, <2>1 DEF WorkerLosesGui
  <2>2. CASE worker[s] = "Running" /\ GoTo(s, "Closing")
    BY <1>6, <2>2 DEF WorkerLosesGui
  <2> QED BY <1>6, <2>1, <2>2 DEF WorkerLosesGui
<1>7. CASE WorkerTick(s)
  BY <1>7 DEF WorkerTick
<1> QED
  BY <1>1, <1>2, <1>3, <1>4, <1>5, <1>6, <1>7 DEF WorkerStep, WorkerProgress

\* The loop's.
LEMMA LoopStepPlaces ==
    ASSUME TypeInv, PlaceInv, LoopStep
    PROVE  PlaceInv'
<1> USE TunNodes
    DEF TypeInv, TypeOK, PrivilegedTypeOK, BackendTypeOK, PendingStart, PlaceInv,
        OneOwner, FreshSessions, ListeningIsQuiet, linkVars, workerVars, privilegedVars
<1>1. CASE HandleLifecycle
  <2>1. CASE node = NoNode
    BY <1>1, <2>1 DEF HandleLifecycle, Receive, Resume, Return
  <2>2. CASE node # NoNode
    <3>1. UNCHANGED <<conn, worker, down>>
      BY <1>1, <2>2 DEF HandleLifecycle, Request
    <3>2. /\ pc' = "Closing" /\ node' = NoNode
          /\ UNCHANGED nextSession
      BY <1>1, <2>2 DEF HandleLifecycle, Receive
    <3> QED BY <2>2, <3>1, <3>2
  <2> QED BY <2>1, <2>2
<1>2. CASE HandlePeerEdit
  <2>1. UNCHANGED <<conn, worker, down>>
    BY <1>2 DEF HandlePeerEdit, Request
  <2> QED BY <1>2, <2>1 DEF HandlePeerEdit
<1>3. CASE HandleDiscover
  BY <1>3 DEF HandleDiscover
<1>4. CASE CloseLocal
  BY <1>4 DEF CloseLocal, AfterClose, Resume, Return
<1>5. ASSUME NEW s \in Sessions, CloseCompletes(s) \/ CloseTimesOut(s)
      PROVE  PlaceInv'
  <2>1. /\ closing' = NoNode /\ node = NoNode
        /\ UNCHANGED <<conn, worker, down, node, nextSession>>
    BY <1>5 DEF CloseCompletes, CloseTimesOut, DropNode, AfterClose
  <2> QED BY <2>1
<1>6. CASE StartTun
  <2>1. /\ nextSession' = nextSession + 1 /\ nextSession' \in Sessions
        /\ nextSession \in Nat
    BY <1>6, MessagesAssumption DEF StartTun, Sessions
  <2>2. /\ pc = "Launching" /\ pc' = "Accepting"
        /\ conn' = [conn EXCEPT ![nextSession'] = "Listening"]
        /\ worker' = [worker EXCEPT ![nextSession'] = "Launched"]
        /\ UNCHANGED <<down, node, closing>>
    BY <1>6 DEF StartTun, LaunchWorker
  <2>3. down[nextSession'] = <<>>
    BY <2>1
  <2>4. \A t \in Sessions : t > nextSession' => t > nextSession /\ t # nextSession'
    BY <2>1 DEF Sessions
  <2> QED BY <2>1, <2>2, <2>3, <2>4
<1>7. CASE StartTunFails
  BY <1>7 DEF StartTunFails, StartNodeFails, Return, Sessions
<1>8. CASE Accept
  BY <1>8 DEF Accept, AcceptWorker
<1>9. CASE LauncherExits \/ ElevationTimesOut
  <2>1. /\ nextSession \in Sessions /\ conn[nextSession] = "Listening"
        /\ conn' = [conn EXCEPT ![nextSession] = "Ended"]
        /\ UNCHANGED <<worker, down, node, closing, nextSession>>
        /\ pc = "Accepting"
    BY <1>9 DEF LauncherExits, ElevationTimesOut, StopListening, StartNodeFails
  <2> QED BY <2>1
<1>10. CASE SendStart
  BY <1>10 DEF SendStart, Request, Return
<1>11. CASE SendStartFails
  BY <1>11 DEF SendStartFails, DropNode, StartNodeFails, Return
<1>12. CASE StartLocal
  BY <1>12 DEF StartLocal, Return
<1>13. CASE StartLocalFails
  BY <1>13 DEF StartLocalFails, StartNodeFails, Return
<1>14. CASE HandleRemote
  <2>1. node' \in {node, NoNode} /\ UNCHANGED <<conn, worker, down, pc, closing, nextSession>>
    BY <1>14 DEF HandleRemote
  <2> QED BY <2>1
<1>15. CASE Exit \/ ThreadEnds
  BY <1>15 DEF Exit, ThreadEnds, DropAllLinks
<1> QED
  BY <1>1, <1>2, <1>3, <1>4, <1>5, <1>6, <1>7, <1>8, <1>9, <1>10, <1>11, <1>12,
     <1>13, <1>14, <1>15 DEF LoopStep, CommandStep, CloseStep, StartStep

\* PlaceInv holds in every state, whatever fails.
LEMMA PlacesHold == Spec => []PlaceInv
<1>1. Init => PlaceInv
  BY DEF Init, PrivilegedInit, PlaceInv, OneOwner, FreshSessions, ListeningIsQuiet
<1>2. TypeInv /\ PlaceInv /\ [Next]_vars => PlaceInv'
  <2> SUFFICES ASSUME TypeInv, PlaceInv, [Next]_vars PROVE PlaceInv'
    OBVIOUS
  <2> USE DEF PlaceInv, OneOwner, FreshSessions, ListeningIsQuiet, linkVars,
              workerVars, privilegedVars, loopVars
  <2>1. CASE LoopStep
    BY <2>1, LoopStepPlaces
  <2>2. CASE StatusTick
    BY <2>2 DEF StatusTick
  <2>3. CASE GuiCrash
    BY <2>3 DEF GuiCrash, DropAllLinks
  <2>4. ASSUME NEW id \in Searches, DiscoveryFinishes(id)
        PROVE  PlaceInv'
    BY <2>4 DEF DiscoveryFinishes
  <2>5. ASSUME NEW s \in Sessions, WorkerOrLinkStep(s)
        PROVE  PlaceInv'
    BY <2>5, LinkStepPlaces, WorkerStepPlaces DEF WorkerOrLinkStep, PrivilegedStep
  <2>6. ASSUME NEW command \in BackendCommand, SubmitCommand(command)
        PROVE  PlaceInv'
    BY <2>6 DEF SubmitCommand
  <2>7. CASE TakeEvent \/ OtherInput
    BY <2>7 DEF TakeEvent, OtherInput
  <2>8. CASE UNCHANGED vars
    BY <2>8 DEF vars, backendVars
  <2> QED
    BY <2>1, <2>2, <2>3, <2>4, <2>5, <2>6, <2>7, <2>8 DEF Next, SystemStep
<1> QED BY <1>1, <1>2, TypeCorrect, PTL DEF Spec

(***************************************************************************)
(* No session is left to nobody, and none ends unheard.                    *)
(***************************************************************************)

\* Held neither by the node nor by the start that is about to return one.
Dropped(s) ==
    /\ conn[s] = "Open"
    /\ node # TunNode(s)
    /\ ~(pc = "Sending" /\ s = nextSession)

AskedToEnd(s) ==
    \/ shutdownSent[s]
    \/ ~attached[s]
    \/ \E i \in 1..Len(requests[s]) : IsShutdown(requests[s][i])

\* What was queued stays queued behind a new command, and is the next to be
\* forwarded or stays queued when one is.
LEMMA QueueKeeps ==
    ASSUME NEW q \in Seq(WorkerCommand), NEW i \in 1..Len(q)
    PROVE  /\ \A command \in WorkerCommand :
                /\ i \in 1..Len(Append(q, command)) /\ Append(q, command)[i] = q[i]
                /\ Len(q) + 1 \in 1..Len(Append(q, command))
                /\ Append(q, command)[Len(q) + 1] = command
           /\ q # <<>>
           /\ q[i] = Head(q) \/ (i - 1 \in 1..Len(Tail(q)) /\ Tail(q)[i - 1] = q[i])
<1>1. ASSUME NEW command \in WorkerCommand
      PROVE  /\ i \in 1..Len(Append(q, command)) /\ Append(q, command)[i] = q[i]
             /\ Len(q) + 1 \in 1..Len(Append(q, command))
             /\ Append(q, command)[Len(q) + 1] = command
  OBVIOUS
<1>2. q # <<>>
  OBVIOUS
<1>3. CASE i = 1
  BY <1>1, <1>2, <1>3
<1>4. CASE i # 1
  <2>1. i - 1 \in 1..Len(Tail(q)) /\ Tail(q)[i - 1] = q[i]
    BY <1>2, <1>4
  <2> QED BY <1>1, <1>2, <2>1
<1> QED BY <1>3, <1>4

\* Nobody takes back that a session was asked to end, while it is open.
LEMMA LinkStepAsked ==
    ASSUME TypeInv, NEW s \in Sessions, NEW t \in Sessions, ParentConnection(t),
           conn'[s] = "Open", AskedToEnd(s)
    PROVE  AskedToEnd(s)'
<1> USE DEF TypeInv, TypeOK, PrivilegedTypeOK, AskedToEnd
<1>1. ASSUME NEW quiet \in BOOLEAN, EndConnection(t, quiet)
      PROVE  AskedToEnd(s)'
  BY <1>1 DEF EndConnection
<1>2. CASE ForwardCommand(t)
  <2>1. CASE s # t
    BY <1>2, <2>1 DEF ForwardCommand
  <2>2. CASE s = t
    <3>1. /\ shutdownSent'[s] = IsShutdown(NextRequest(s))
          /\ attached' = attached /\ ~shutdownSent[s]
          /\ requests[s] \in Seq(WorkerCommand)
      BY <1>2, <2>2 DEF ForwardCommand, CanForward
    <3>2. CASE ~attached[s]
      BY <3>1, <3>2
    <3>3. CASE attached[s]
      <4>1. PICK i \in 1..Len(requests[s]) : IsShutdown(requests[s][i])
        BY <3>1, <3>3
      <4>2. requests[s] # <<>>
        BY <4>1, <3>1
      <4>3. /\ NextRequest(s) = Head(requests[s])
            /\ requests'[s] = Tail(requests[s])
        BY <1>2, <2>2, <4>2 DEF ForwardCommand, NextRequest
      <4>4. \/ requests[s][i] = Head(requests[s])
            \/ i - 1 \in 1..Len(Tail(requests[s])) /\ Tail(requests[s])[i - 1] = requests[s][i]
        BY <3>1, QueueKeeps
      <4>5. CASE requests[s][i] = Head(requests[s])
        BY <3>1, <4>1, <4>3, <4>5
      <4>6. CASE i - 1 \in 1..Len(Tail(requests[s])) /\ Tail(requests[s])[i - 1] = requests[s][i]
        <5>1. i - 1 \in 1..Len(requests'[s]) /\ IsShutdown(requests'[s][i - 1])
          BY <4>1, <4>3, <4>6
        <5> QED BY <5>1
      <4> QED BY <4>4, <4>5, <4>6
    <3> QED BY <3>2, <3>3
  <2> QED BY <2>1, <2>2
<1>3. CASE ForwardFails(t)
  BY <1>1, <1>3 DEF ForwardFails, IsShutdown
<1>4. CASE ReceiveEvent(t)
  BY <1>4 DEF ReceiveEvent
<1>5. CASE StreamEnds(t)
  BY <1>1, <1>5 DEF StreamEnds
<1>6. CASE DisconnectFires(t)
  BY <1>1, <1>6 DEF DisconnectFires
<1> QED BY <1>2, <1>3, <1>4, <1>5, <1>6 DEF ParentConnection

\* A request that reaches a session's queue takes back nobody's order to end.
LEMMA RequestAsked ==
    ASSUME TypeInv, NEW s \in Sessions, NEW t \in Sessions,
           NEW command \in WorkerCommand, Request(t, command)
    PROVE  /\ AskedToEnd(s) => AskedToEnd(s)'
           /\ s = t /\ conn[s] = "Open" /\ IsShutdown(command) => AskedToEnd(s)'
<1> USE DEF TypeInv, TypeOK, PrivilegedTypeOK, AskedToEnd
<1>1. UNCHANGED <<shutdownSent, attached>>
  BY DEF Request
<1>2. CASE s # t \/ conn[t] # "Open"
  BY <1>1, <1>2 DEF Request
<1>3. CASE s = t /\ conn[t] = "Open"
  <2>1. requests'[s] = Append(requests[s], command) /\ requests[s] \in Seq(WorkerCommand)
    BY <1>3 DEF Request
  <2>2. ASSUME NEW i \in 1..Len(requests[s]), IsShutdown(requests[s][i])
        PROVE  AskedToEnd(s)'
    <3>1. i \in 1..Len(requests'[s]) /\ requests'[s][i] = requests[s][i]
      BY <2>1, QueueKeeps
    <3>2. i \in 1..Len(requests'[s]) /\ IsShutdown(requests'[s][i])
      BY <2>2, <3>1
    <3> QED BY <3>2
  <2>3. ASSUME IsShutdown(command) PROVE AskedToEnd(s)'
    <3>1. /\ Len(requests[s]) + 1 \in 1..Len(requests'[s])
          /\ requests'[s][Len(requests[s]) + 1] = command
      BY <2>1
    <3>2. IsShutdown(requests'[s][Len(requests[s]) + 1])
      BY <2>3, <3>1
    <3> QED BY <3>1, <3>2
  <2> QED BY <1>1, <2>2, <2>3
<1> QED BY <1>2, <1>3

\* A step of the loop keeps AbandonedLinksEnd: who is no longer the loop's was
\* given up by it, and told so.
LEMMA LoopStepAbandons ==
    ASSUME TypeInv, PlaceInv, AbandonedLinksEnd, LoopStep
    PROVE  AbandonedLinksEnd'
<1> SUFFICES ASSUME NEW s \in Sessions, Dropped(s)' PROVE AskedToEnd(s)'
  BY DEF AbandonedLinksEnd, Dropped, AskedToEnd
<1>a. Dropped(s) => AskedToEnd(s)
  BY DEF AbandonedLinksEnd, Dropped, AskedToEnd
<1>b. conn'[s] = "Open" /\ node' # TunNode(s) /\ ~(pc' = "Sending" /\ s = nextSession')
  BY DEF Dropped
<1> USE TunNodes
    DEF TypeInv, TypeOK, PrivilegedTypeOK, BackendTypeOK, PendingStart, PlaceInv, OneOwner
<1>c. ASSUME UNCHANGED <<conn, attached, shutdownSent, requests>>, Dropped(s)
      PROVE  AskedToEnd(s)'
  BY <1>a, <1>c DEF AskedToEnd
<1>1. CASE HandleLifecycle
  <2>1. pc = "Select" /\ Head(commands) \in BackendCommand
    BY <1>1 DEF HandleLifecycle, Receive, HandleTypeOK
  <2>2. CASE node = NoNode
    <3>1. UNCHANGED <<conn, attached, shutdownSent, requests>> /\ Dropped(s)
      BY <1>1, <1>b, <2>1, <2>2
         DEF HandleLifecycle, privilegedVars, linkVars, Dropped
    <3> QED BY <1>c, <3>1
  <2>3. CASE node.kind = "Privileged"
    <3>1. node # NoNode /\ node.session \in Sessions /\ node = TunNode(node.session)
      BY <2>3 DEF ActiveNode, NoNode, LocalNode, TunNode
    <3>2. Request(node.session, ShutdownCommand)
      BY <1>1, <2>3, <3>1 DEF HandleLifecycle
    <3>3. conn[s] = "Open"
      BY <1>b, <3>2 DEF Request
    <3>4. CASE s = node.session
      BY <3>1, <3>2, <3>3, <3>4, RequestAsked, CommandTypes DEF IsShutdown, ShutdownCommand
    <3>5. CASE s # node.session
      <4>1. Dropped(s)
        BY <2>1, <3>1, <3>3, <3>5 DEF Dropped
      <4> QED BY <1>a, <4>1, <3>1, <3>2, RequestAsked, CommandTypes
    <3> QED BY <3>4, <3>5
  <2>4. CASE node = LocalNode
    <3>1. UNCHANGED <<conn, attached, shutdownSent, requests>>
      BY <1>1, <2>4 DEF HandleLifecycle, privilegedVars, linkVars, LocalNode
    <3>2. Dropped(s)
      BY <1>b, <2>1, <2>4, <3>1 DEF Dropped
    <3> QED BY <1>c, <3>1, <3>2
  <2> QED BY <2>2, <2>3, <2>4 DEF ActiveNode, TunNode
<1>2. CASE HandlePeerEdit
  <2>1. /\ pc = "Select" /\ UNCHANGED <<pc, node, nextSession, conn, attached, shutdownSent>>
        /\ Head(commands) \in WorkerCommand
    BY <1>2, CommandTypes
       DEF HandlePeerEdit, Receive, HandleTypeOK, Request, privilegedVars, linkVars
  <2>2. Dropped(s)
    BY <1>b, <2>1 DEF Dropped
  <2>3. CASE node.kind = "Privileged"
    <3>1. Request(node.session, Head(commands)) /\ node.session \in Sessions
      BY <1>2, <2>3 DEF HandlePeerEdit, ActiveNode, NoNode, LocalNode, TunNode
    <3> QED BY <1>a, <2>1, <2>2, <3>1, RequestAsked
  <2>4. CASE node.kind # "Privileged"
    <3>1. UNCHANGED requests
      BY <1>2, <2>4 DEF HandlePeerEdit, privilegedVars, linkVars
    <3> QED BY <1>c, <2>1, <2>2, <3>1
  <2> QED BY <2>3, <2>4
<1>3. CASE HandleDiscover
  BY <1>3, <1>b, <1>c DEF HandleDiscover, privilegedVars, linkVars, Dropped
<1>4. CASE CloseLocal
  BY <1>4, <1>b, <1>c DEF CloseLocal, AfterClose, privilegedVars, linkVars, Dropped
<1>5. ASSUME NEW t \in Sessions, CloseCompletes(t) \/ CloseTimesOut(t)
      PROVE  AskedToEnd(s)'
  <2>1. /\ pc = "Closing" /\ UNCHANGED <<conn, shutdownSent, requests, node, nextSession>>
        /\ attached' = [attached EXCEPT ![t] = FALSE]
    BY <1>5 DEF CloseCompletes, CloseTimesOut, AfterClose, DropNode
  <2>2. Dropped(s)
    BY <1>b, <2>1 DEF Dropped
  <2> QED BY <1>a, <2>1, <2>2 DEF AskedToEnd
<1>6. CASE StartTun
  <2>1. /\ pc = "Launching" /\ nextSession' \in Sessions
        /\ UNCHANGED <<node, attached, shutdownSent, requests>>
        /\ conn' = [conn EXCEPT ![nextSession'] = "Listening"]
    BY <1>6, MessagesAssumption DEF StartTun, LaunchWorker, Sessions
  <2>2. Dropped(s)
    BY <1>b, <2>1 DEF Dropped
  <2> QED BY <1>a, <2>1, <2>2 DEF AskedToEnd
<1>7. CASE StartTunFails
  BY <1>7, <1>b, <1>c DEF StartTunFails, StartNodeFails, privilegedVars, linkVars, Dropped
<1>8. CASE Accept
  <2>1. /\ pc = "Accepting" /\ pc' = "Sending" /\ nextSession \in Sessions
        /\ conn' = [conn EXCEPT ![nextSession] = "Open"]
        /\ attached' = [attached EXCEPT ![nextSession] = TRUE]
        /\ UNCHANGED <<node, nextSession, shutdownSent, requests>>
    BY <1>8 DEF Accept, AcceptWorker
  <2>2. s # nextSession
    BY <1>b, <2>1
  <2>3. Dropped(s)
    BY <1>b, <2>1, <2>2 DEF Dropped
  <2> QED BY <1>a, <2>1, <2>2, <2>3 DEF AskedToEnd
<1>9. CASE LauncherExits \/ ElevationTimesOut
  <2>1. /\ pc = "Accepting"
        /\ conn' = [conn EXCEPT ![nextSession] = "Ended"]
        /\ UNCHANGED <<node, nextSession, attached, shutdownSent, requests>>
    BY <1>9 DEF LauncherExits, ElevationTimesOut, StopListening, StartNodeFails
  <2>2. Dropped(s)
    BY <1>b, <2>1 DEF Dropped
  <2> QED BY <1>a, <2>1, <2>2 DEF AskedToEnd
<1>10. CASE SendStart
  <2>1. /\ pc = "Sending" /\ node' = TunNode(nextSession) /\ nextSession \in Sessions
        /\ UNCHANGED <<conn, nextSession>>
        /\ Request(nextSession, pending) /\ pending \in WorkerCommand
    BY <1>10, CommandTypes DEF SendStart, Request
  <2>2. Dropped(s)
    BY <1>b, <2>1 DEF Dropped
  <2> QED BY <1>a, <2>1, <2>2, RequestAsked
<1>11. CASE SendStartFails
  <2>1. /\ pc = "Sending" /\ conn[nextSession] # "Open"
        /\ attached' = [attached EXCEPT ![nextSession] = FALSE]
        /\ UNCHANGED <<conn, node, nextSession, shutdownSent, requests>>
    BY <1>11 DEF SendStartFails, StartNodeFails, DropNode
  <2>2. Dropped(s) /\ s # nextSession
    BY <1>b, <2>1 DEF Dropped
  <2> QED BY <1>a, <2>1, <2>2 DEF AskedToEnd
<1>12. CASE StartLocal \/ StartLocalFails
  BY <1>12, <1>b, <1>c
     DEF StartLocal, StartLocalFails, StartNodeFails, privilegedVars, linkVars, Dropped
<1>13. CASE HandleRemote
  <2> DEFINE t == Head(remote).session
  <2>0. Head(remote) \in RemoteEnvelope
    BY <1>13 DEF HandleRemote
  <2>1. /\ t \in Sessions /\ pc = "Select"
        /\ UNCHANGED <<conn, shutdownSent, requests, pc, nextSession>>
    BY <1>13, <2>0 DEF HandleRemote, RemoteEnvelope
  <2> HIDE DEF t
  <2>2. \/ node = TunNode(t) /\ node' = NoNode /\ attached' = [attached EXCEPT ![t] = FALSE]
        \/ UNCHANGED <<node, attached>>
    BY <1>13 DEF HandleRemote, t
  <2>3. CASE node = TunNode(t) /\ node' = NoNode /\ attached' = [attached EXCEPT ![t] = FALSE]
    <3>1. CASE s = t
      BY <2>1, <2>3, <3>1 DEF AskedToEnd
    <3>2. CASE s # t
      <4>1. Dropped(s)
        BY <1>b, <2>1, <2>3, <3>2 DEF Dropped
      <4> QED BY <1>a, <2>1, <2>3, <3>2, <4>1 DEF AskedToEnd
    <3> QED BY <3>1, <3>2
  <2>4. CASE UNCHANGED <<node, attached>>
    BY <1>b, <1>c, <2>1, <2>4 DEF Dropped
  <2> QED BY <2>2, <2>3, <2>4
<1>14. CASE Exit
  BY <1>14, <1>b DEF Exit, DropAllLinks
<1>15. CASE ThreadEnds
  <2>1. UNCHANGED <<conn, attached, shutdownSent, requests>> /\ Dropped(s)
    BY <1>15, <1>b DEF ThreadEnds, Dropped, privilegedVars, linkVars
  <2> QED BY <1>c, <2>1
<1> QED
  BY <1>1, <1>2, <1>3, <1>4, <1>5, <1>6, <1>7, <1>8, <1>9, <1>10, <1>11, <1>12,
     <1>13, <1>14, <1>15 DEF LoopStep, CommandStep, CloseStep, StartStep

\* A connection that the loop gave up, by whichever way, was told to end or
\* will see that its node is gone (privileged.rs:184-193).
THEOREM AbandonedLinksEndHolds == Spec => []AbandonedLinksEnd
<1>1. Init => AbandonedLinksEnd
  BY DEF Init, PrivilegedInit, AbandonedLinksEnd
<1>2. TypeInv /\ PlaceInv /\ AbandonedLinksEnd /\ [Next]_vars => AbandonedLinksEnd'
  <2> SUFFICES ASSUME TypeInv, PlaceInv, AbandonedLinksEnd, [Next]_vars
               PROVE  AbandonedLinksEnd'
    OBVIOUS
  <2>1. CASE LoopStep
    BY <2>1, LoopStepAbandons
  <2>2. ASSUME NEW t \in Sessions, WorkerOrLinkStep(t), ParentConnection(t)
        PROVE  AbandonedLinksEnd'
    <3> SUFFICES ASSUME NEW s \in Sessions, Dropped(s)' PROVE AskedToEnd(s)'
      BY DEF AbandonedLinksEnd, Dropped, AskedToEnd
    <3>1. UNCHANGED <<node, pc, nextSession>>
      BY <2>2 DEF WorkerOrLinkStep, backendVars, loopVars
    <3>2. conn[s] = "Open"
      BY <2>2
         DEF Dropped, ParentConnection, ForwardCommand, ForwardFails, ReceiveEvent,
             StreamEnds, DisconnectFires, EndConnection, TypeInv, TypeOK, PrivilegedTypeOK
    <3>3. AskedToEnd(s)
      BY <3>1, <3>2 DEF AbandonedLinksEnd, Dropped, AskedToEnd
    <3> QED BY <2>2, <3>3, LinkStepAsked DEF Dropped
  <2>3. ASSUME UNCHANGED <<linkVars, node, pc, nextSession>>
        PROVE  AbandonedLinksEnd'
    BY <2>3 DEF linkVars, AbandonedLinksEnd
  <2>4. ASSUME NEW t \in Sessions, WorkerOrLinkStep(t)
        PROVE  AbandonedLinksEnd'
    <3>1. CASE ParentConnection(t)
      BY <2>2, <2>4, <3>1
    <3>2. CASE WorkerStep(t) \/ WorkerTick(t)
      <4>1. UNCHANGED linkVars
        BY <3>2
           DEF WorkerStep, WorkerProgress, WorkerTick, WorkerConnects, AuthorizationDenied,
               WorkerReadsFirst, WorkerStarts, WorkerStartFails, WorkerCapabilityFails,
               WorkerEditsPeers, WorkerRejects, WorkerShutsDown, WorkerReads,
               WorkerLosesGui, WorkerClosed, WorkerDies
      <4> QED BY <2>3, <2>4, <4>1 DEF WorkerOrLinkStep, backendVars, loopVars
    <3> QED BY <2>4, <3>1, <3>2 DEF WorkerOrLinkStep, PrivilegedStep
  <2>5. CASE GuiCrash
    BY <2>5 DEF GuiCrash, DropAllLinks, AbandonedLinksEnd
  <2>6. CASE \/ StatusTick \/ TakeEvent \/ OtherInput \/ UNCHANGED vars
             \/ \E id \in Searches : DiscoveryFinishes(id)
             \/ \E command \in BackendCommand : SubmitCommand(command)
    BY <2>3, <2>6
       DEF StatusTick, TakeEvent, OtherInput, DiscoveryFinishes, SubmitCommand, vars, backendVars,
           loopVars, privilegedVars
  <2> QED BY <2>1, <2>4, <2>5, <2>6 DEF Next, SystemStep
<1> QED BY <1>1, <1>2, TypeCorrect, PlacesHold, PTL DEF Spec

EndHeard(s) == \E i \in 1..Len(remote) : remote[i] \in EndReports(s)

\* A report that comes, or that goes and is of another kind, changes nothing.
LEMMA EndStaysHeard ==
    ASSUME TypeInv, NEW s \in Sessions, EndHeard(s), NEW report \in RemoteEnvelope,
           \/ remote' = Append(remote, report)
           \/ remote # <<>> /\ remote' = Tail(remote) /\ Head(remote) \notin EndReports(s)
    PROVE  EndHeard(s)'
<1>1. PICK i \in 1..Len(remote) : remote[i] \in EndReports(s)
  BY DEF EndHeard
<1>2. remote \in Seq(RemoteEnvelope)
  BY DEF TypeInv, TypeOK, PrivilegedTypeOK
<1>3. CASE remote' = Append(remote, report)
  <2>1. i \in 1..Len(remote') /\ remote'[i] = remote[i]
    BY <1>2, <1>3
  <2> QED BY <1>1, <2>1 DEF EndHeard, EndReports
<1>4. CASE remote # <<>> /\ remote' = Tail(remote) /\ Head(remote) \notin EndReports(s)
  <2>1. i # 1
    BY <1>1, <1>2, <1>4
  <2>2. i - 1 \in 1..Len(remote') /\ remote'[i - 1] = remote[i]
    BY <1>2, <1>4, <2>1
  <2> QED BY <1>1, <2>2 DEF EndHeard, EndReports
<1> QED BY <1>3, <1>4

\* A connection's own steps.
LEMMA LinkStepReports ==
    ASSUME TypeInv, EndIsReported, NEW t \in Sessions, ParentConnection(t),
           UNCHANGED backendVars
    PROVE  EndIsReported'
<1> SUFFICES ASSUME NEW s \in Sessions, pc # "Done", node = TunNode(s), conn'[s] = "Ended"
             PROVE  EndHeard(s)'
  BY DEF EndIsReported, EndHeard, EndReports, TunNode, backendVars, loopVars
<1> USE DEF TypeInv, TypeOK, PrivilegedTypeOK
<1>a. conn[s] = "Ended" => EndHeard(s)
  BY DEF EndIsReported, EndHeard
<1>1. ASSUME NEW quiet \in BOOLEAN, EndConnection(t, quiet)
      PROVE  EndHeard(s)'
  <2> DEFINE report == [session |-> t, event |-> IF quiet THEN "Disconnected"
                                                 ELSE "DisconnectedWithError"]
  <2>1. /\ report \in RemoteEnvelope /\ report \in EndReports(t)
        /\ remote' = Append(remote, report) /\ remote \in Seq(RemoteEnvelope)
        /\ conn' = [conn EXCEPT ![t] = "Ended"]
    BY <1>1 DEF EndConnection, RemoteEnvelope, EndReports
  <2> HIDE DEF report
  <2>2. CASE s = t
    <3>1. Len(remote) + 1 \in 1..Len(remote') /\ remote'[Len(remote) + 1] = report
      BY <2>1
    <3> QED BY <2>1, <2>2, <3>1 DEF EndHeard, EndReports
  <2>3. CASE s # t
    BY <1>a, <2>1, <2>3, EndStaysHeard
  <2> QED BY <2>2, <2>3
<1>2. CASE ForwardCommand(t)
  BY <1>2, <1>a DEF ForwardCommand, EndHeard, EndReports
<1>3. CASE ForwardFails(t)
  BY <1>1, <1>3 DEF ForwardFails, IsShutdown
<1>4. CASE ReceiveEvent(t)
  <2>1. Head(up[t]) \in WorkerEvent
    BY <1>4 DEF ReceiveEvent
  <2>2. [session |-> t, event |-> Head(up[t])] \in RemoteEnvelope
    BY <2>1 DEF RemoteEnvelope
  <2> QED BY <1>4, <1>a, <2>2, EndStaysHeard DEF ReceiveEvent
<1>5. CASE StreamEnds(t)
  BY <1>1, <1>5 DEF StreamEnds
<1>6. CASE DisconnectFires(t)
  BY <1>1, <1>6 DEF DisconnectFires
<1> QED BY <1>2, <1>3, <1>4, <1>5, <1>6 DEF ParentConnection

\* The loop's.
LEMMA LoopStepReports ==
    ASSUME TypeInv, PlaceInv, EndIsReported, LoopStep
    PROVE  EndIsReported'
<1> SUFFICES ASSUME NEW s \in Sessions, pc' # "Done", node' = TunNode(s), conn'[s] = "Ended"
             PROVE  EndHeard(s)'
  BY DEF EndIsReported, EndHeard, EndReports, TunNode
<1> USE TunNodes
    DEF TypeInv, TypeOK, PrivilegedTypeOK, BackendTypeOK, PendingStart, PlaceInv, OneOwner
<1>a. pc # "Done" /\ node = TunNode(s) /\ conn[s] = "Ended" => EndHeard(s)
  BY DEF EndIsReported, EndHeard
<1>b. ASSUME pc # "Done", UNCHANGED <<node, conn, remote>>
      PROVE  EndHeard(s)'
  BY <1>a, <1>b DEF EndHeard, EndReports
<1>1. CASE HandleLifecycle
  BY <1>1 DEF HandleLifecycle
<1>2. CASE HandlePeerEdit
  <2>1. pc # "Done" /\ UNCHANGED <<node, conn, remote>>
    BY <1>2 DEF HandlePeerEdit, Receive, Request, privilegedVars, linkVars
  <2> QED BY <1>b, <2>1
<1>3. CASE HandleDiscover
  BY <1>3, <1>b DEF HandleDiscover, Receive, privilegedVars, linkVars
<1>4. CASE CloseStep
  <2>1. node = NoNode /\ UNCHANGED node
    BY <1>4 DEF CloseStep, CloseLocal, CloseCompletes, CloseTimesOut, AfterClose
  <2> QED BY <2>1
<1>5. CASE StartTun \/ StartTunFails \/ Accept \/ LauncherExits \/ ElevationTimesOut
           \/ SendStartFails \/ StartLocal \/ StartLocalFails
  <2>1. node = NoNode /\ node' \in {NoNode, LocalNode}
    BY <1>5 DEF StartTun, StartTunFails, Accept, LauncherExits, ElevationTimesOut,
                SendStartFails, StartLocal, StartLocalFails, StartNodeFails
  <2> QED BY <2>1
<1>6. CASE SendStart
  <2>1. /\ node' = TunNode(nextSession) /\ nextSession \in Sessions
        /\ conn[nextSession] = "Open" /\ conn' = conn
    BY <1>6 DEF SendStart, Request
  <2> QED BY <2>1
<1>7. CASE HandleRemote
  <2>1. Head(remote) \in RemoteEnvelope /\ remote # <<>> /\ remote' = Tail(remote)
        /\ pc # "Done" /\ UNCHANGED conn
    BY <1>7 DEF HandleRemote
  <2>2. Head(remote) \in EndReports(s) =>
          Head(remote).session = s /\ IsEndReport(Head(remote))
    BY DEF EndReports, IsEndReport
  <2>3. node = TunNode(s)
    BY <1>7 DEF HandleRemote
  <2>4. Head(remote) \notin EndReports(s)
    BY <1>7, <2>2, <2>3 DEF HandleRemote
  <2> QED BY <1>a, <2>1, <2>3, <2>4, EndStaysHeard
<1>8. CASE Exit \/ ThreadEnds
  BY <1>8 DEF Exit, ThreadEnds
<1> QED
  BY <1>1, <1>2, <1>3, <1>4, <1>5, <1>6, <1>7, <1>8
     DEF LoopStep, CommandStep, StartStep

\* The report that ends a node is on its way whenever its connection is gone.
THEOREM EndIsReportedHolds == Spec => []EndIsReported
<1>1. Init => EndIsReported
  BY DEF Init, PrivilegedInit, EndIsReported
<1>2. TypeInv /\ PlaceInv /\ EndIsReported /\ [Next]_vars => EndIsReported'
  <2> SUFFICES ASSUME TypeInv, PlaceInv, EndIsReported, [Next]_vars
               PROVE  EndIsReported'
    OBVIOUS
  <2>1. CASE LoopStep
    BY <2>1, LoopStepReports
  <2>2. ASSUME UNCHANGED <<conn, remote, node, pc>>
        PROVE  EndIsReported'
    BY <2>2 DEF EndIsReported, EndReports
  <2>3. ASSUME NEW t \in Sessions, WorkerOrLinkStep(t)
        PROVE  EndIsReported'
    <3>1. CASE ParentConnection(t)
      BY <2>3, <3>1, LinkStepReports DEF WorkerOrLinkStep
    <3>2. CASE WorkerStep(t) \/ WorkerTick(t)
      <4>1. UNCHANGED <<conn, remote>>
        BY <3>2
           DEF WorkerStep, WorkerProgress, WorkerTick, WorkerConnects, AuthorizationDenied,
               WorkerReadsFirst, WorkerStarts, WorkerStartFails, WorkerCapabilityFails,
               WorkerEditsPeers, WorkerRejects, WorkerShutsDown, WorkerReads,
               WorkerLosesGui, WorkerClosed, WorkerDies, linkVars
      <4> QED BY <2>2, <2>3, <4>1 DEF WorkerOrLinkStep, backendVars, loopVars
    <3> QED BY <2>3, <3>1, <3>2 DEF WorkerOrLinkStep, PrivilegedStep
  <2>4. CASE GuiCrash
    BY <2>4 DEF GuiCrash, EndIsReported
  <2>5. CASE \/ StatusTick \/ TakeEvent \/ OtherInput \/ UNCHANGED vars
             \/ \E id \in Searches : DiscoveryFinishes(id)
             \/ \E command \in BackendCommand : SubmitCommand(command)
    BY <2>2, <2>5
       DEF StatusTick, TakeEvent, OtherInput, DiscoveryFinishes, SubmitCommand, vars, backendVars,
           loopVars, privilegedVars, linkVars
  <2> QED BY <2>1, <2>3, <2>4, <2>5 DEF Next, SystemStep
<1> QED BY <1>1, <1>2, TypeCorrect, PlacesHold, PTL DEF Spec

(***************************************************************************)
(* What was announced is true of the node.                                 *)
(***************************************************************************)

Ends == {"Disconnected", "DisconnectedWithError"}
Plain == (WorkerEvent \cup {"DisconnectedWithError"}) \ {"StartFailed"}
Opening == {"Started", "DisconnectedWithError"}

\* What a channel of reports holds of one session.
Only(r, s, names) ==
    \A i \in 1..Len(r) : r[i].session = s => r[i].event \in names

OpensWith(r, s, names) ==
    \A i \in 1..Len(r) :
        r[i].session = s /\ (\A j \in 1..Len(r) : r[j].session = s => j >= i) =>
            r[i].event \in names

FailsFirst(r, s) ==
    \E i \in 1..Len(r) :
        /\ r[i] = [session |-> s, event |-> "StartFailed"]
        /\ \A j \in 1..Len(r) :
             r[j].session = s /\ j # i => j > i /\ r[j].event \in Ends

\* The session that the node, or the start about to return one, works with.
Engaged(s) ==
    \/ node = TunNode(s)
    \/ pc = "Sending" /\ s = nextSession

\* Nobody asked an engaged session to end, so it ends only after its worker.
Held(s) ==
    /\ conn[s] \in {"Open", "Ended"}
    /\ attached[s]
    /\ ~shutdownSent[s]
    /\ \A i \in 1..Len(requests[s]) : ~IsShutdown(requests[s][i])
    /\ worker[s] # "Exited" => conn[s] = "Open"

\* Its start did not fail, as far as the worker said.
Unfailed(s) ==
    /\ announced \in {"Starting", "Running"}
    /\ ~failureReported[s]
    /\ \A i \in 1..Len(up[s]) : up[s][i] # "StartFailed"
    /\ Only(remote, s, Plain)
    /\ announced = "Starting" =>
         /\ OpensWith(remote, s, Opening)
         /\ Only(remote, s, {}) /\ up[s] # <<>> => up[s][1] = "Started"
         /\ worker[s] = "Running" => up[s] # <<>> \/ ~Only(remote, s, {})
    /\ worker[s] \in {"Launched", "Connected", "Starting"} =>
         announced = "Starting" /\ up[s] = <<>> /\ Only(remote, s, {})

\* It failed, which is on its way, has reached the channel, or was told.
FailComing(s) ==
    /\ announced = "Starting"
    /\ ~failureReported[s]
    /\ up[s] = <<"StartFailed">>
    /\ Only(remote, s, {})

FailReported(s) ==
    /\ announced = "Starting"
    /\ up[s] = <<>>
    /\ FailsFirst(remote, s)

FailTold(s) ==
    /\ announced = "Stopped"
    /\ up[s] = <<>>
    /\ Only(remote, s, Ends)

Story(s) ==
    \/ Unfailed(s)
    \/ worker[s] = "Exited" /\ (FailComing(s) \/ FailReported(s) \/ FailTold(s))

\* A session is a blank page until its worker is accepted.
Blank(s) ==
    /\ up[s] = <<>> /\ requests[s] = <<>>
    /\ ~shutdownSent[s] /\ ~failureReported[s]
    /\ Only(remote, s, {})

\* What the window was told follows from what the loop does.
Told ==
    /\ pc \in {"Launching", "Accepting", "Sending", "StartingLocal"} =>
         announced = "Starting"
    /\ pc = "Select" /\ node = NoNode => announced = "Stopped"
    /\ pc = "Select" /\ node = LocalNode => announced = "Running"

StoryOK(s) ==
    /\ conn[s] \in {"None", "Listening"} => Blank(s)
    /\ Engaged(s) => Held(s) /\ Story(s)

StoryInv == Told /\ \A s \in Sessions : StoryOK(s)

(***************************************************************************)
(* Channels of reports.                                                    *)
(***************************************************************************)

\* For one session, two channels are alike.
Alike(r, q, s) ==
    /\ \A names : Only(r, s, names) <=> Only(q, s, names)
    /\ \A names : OpensWith(r, s, names) <=> OpensWith(q, s, names)
    /\ FailsFirst(r, s) <=> FailsFirst(q, s)

\* A report of another session changes nothing of what this one's says when it
\* is put at the end of the channel.
LEMMA AppendOther ==
    ASSUME NEW r \in Seq(RemoteEnvelope), NEW t \in Sessions,
           NEW name \in WorkerEvent \cup Ends, NEW s \in Sessions, s # t
    PROVE  Alike(r, Append(r, [session |-> t, event |-> name]), s)
<1> DEFINE e == [session |-> t, event |-> name]
           q == Append(r, e)
<1>0. e \in RemoteEnvelope /\ e.session # s
  BY DEF RemoteEnvelope, Ends
<1> HIDE DEF e
<1>1. /\ Len(q) = Len(r) + 1 /\ Len(r) \in Nat /\ q[Len(r) + 1].session # s
      /\ \A i \in 1..Len(r) : q[i] = r[i]
  BY <1>0
<1> HIDE DEF q
<1>2. \A i \in 1..Len(q) : q[i].session = s => i \in 1..Len(r)
  BY <1>1
<1>3. \A i \in 1..Len(r) : i \in 1..Len(q)
  BY <1>1
<1>4. ASSUME NEW names PROVE Only(r, s, names) <=> Only(q, s, names)
  BY <1>1, <1>2, <1>3 DEF Only
<1>5. ASSUME NEW names PROVE OpensWith(r, s, names) <=> OpensWith(q, s, names)
  BY <1>1, <1>2, <1>3 DEF OpensWith
<1>6. FailsFirst(r, s) <=> FailsFirst(q, s)
  <2>1. FailsFirst(r, s) => FailsFirst(q, s)
    BY <1>1, <1>2, <1>3 DEF FailsFirst
  <2>2. ASSUME FailsFirst(q, s) PROVE FailsFirst(r, s)
    <3>1. PICK i \in 1..Len(q) :
            /\ q[i] = [session |-> s, event |-> "StartFailed"]
            /\ \A j \in 1..Len(q) :
                 q[j].session = s /\ j # i => j > i /\ q[j].event \in Ends
      BY <2>2 DEF FailsFirst
    <3>2. i \in 1..Len(r) /\ r[i] = q[i]
      BY <1>1, <1>2, <3>1
    <3> QED BY <1>1, <1>3, <3>1, <3>2 DEF FailsFirst
  <2> QED BY <2>1, <2>2
<1> QED BY <1>4, <1>5, <1>6 DEF Alike, q, e

\* Nor does another session's report when it is taken.
LEMMA TailOther ==
    ASSUME NEW r \in Seq(RemoteEnvelope), r # <<>>, NEW s, Head(r).session # s
    PROVE  Alike(r, Tail(r), s)
<1> DEFINE q == Tail(r)
<1>1. /\ Len(q) = Len(r) - 1 /\ Len(r) \in Nat \ {0} /\ r[1].session # s
      /\ \A i \in 1..Len(q) : q[i] = r[i + 1]
  OBVIOUS
<1> HIDE DEF q
<1>2. \A i \in 1..Len(r) : r[i].session = s => i - 1 \in 1..Len(q) /\ q[i - 1] = r[i]
  <2> SUFFICES ASSUME NEW i \in 1..Len(r), r[i].session = s
               PROVE  i - 1 \in 1..Len(q) /\ q[i - 1] = r[i]
    OBVIOUS
  <2>1. i # 1
    BY <1>1
  <2>2. i - 1 \in 1..Len(q) /\ (i - 1) + 1 = i
    BY <1>1, <2>1
  <2> QED BY <1>1, <2>2
<1>3. \A i \in 1..Len(q) : i + 1 \in 1..Len(r) /\ q[i] = r[i + 1]
  BY <1>1
<1>4. ASSUME NEW names PROVE Only(r, s, names) <=> Only(q, s, names)
  <2>1. Only(r, s, names) => Only(q, s, names)
    BY <1>3 DEF Only
  <2>2. ASSUME Only(q, s, names), NEW i \in 1..Len(r), r[i].session = s
        PROVE  r[i].event \in names
    BY <1>2, <2>2 DEF Only
  <2> QED BY <2>1, <2>2 DEF Only
<1>5. ASSUME NEW names PROVE OpensWith(r, s, names) <=> OpensWith(q, s, names)
  <2>1. ASSUME OpensWith(r, s, names), NEW i \in 1..Len(q), q[i].session = s,
               \A j \in 1..Len(q) : q[j].session = s => j >= i
        PROVE  q[i].event \in names
    <3>1. ASSUME NEW j \in 1..Len(r), r[j].session = s PROVE j >= i + 1
      <4>1. j - 1 \in 1..Len(q) /\ q[j - 1].session = s
        BY <1>2, <3>1
      <4>2. j - 1 >= i
        BY <2>1, <4>1
      <4> QED BY <4>2
    <3>2. i + 1 \in 1..Len(r) /\ r[i + 1].session = s
      BY <1>3, <2>1
    <3>3. r[i + 1].event \in names
      BY <2>1, <3>1, <3>2 DEF OpensWith
    <3> QED BY <1>3, <3>3
  <2>2. ASSUME OpensWith(q, s, names), NEW i \in 1..Len(r), r[i].session = s,
               \A j \in 1..Len(r) : r[j].session = s => j >= i
        PROVE  r[i].event \in names
    <3>1. ASSUME NEW j \in 1..Len(q), q[j].session = s PROVE j >= i - 1
      <4>1. j + 1 \in 1..Len(r) /\ r[j + 1].session = s
        BY <1>3, <3>1
      <4>2. j + 1 >= i
        BY <2>2, <4>1
      <4> QED BY <4>2
    <3>2. i - 1 \in 1..Len(q) /\ q[i - 1] = r[i]
      BY <1>2, <2>2
    <3> QED BY <2>2, <3>1, <3>2 DEF OpensWith
  <2> QED BY <2>1, <2>2 DEF OpensWith
<1>6. FailsFirst(r, s) <=> FailsFirst(q, s)
  <2> DEFINE fail == [session |-> s, event |-> "StartFailed"]
  <2>1. ASSUME FailsFirst(r, s) PROVE FailsFirst(q, s)
    <3>1. PICK i \in 1..Len(r) :
            /\ r[i] = fail
            /\ \A j \in 1..Len(r) : r[j].session = s /\ j # i => j > i /\ r[j].event \in Ends
      BY <2>1 DEF FailsFirst
    <3>2. i - 1 \in 1..Len(q) /\ q[i - 1] = fail
      BY <1>2, <3>1
    <3>3. ASSUME NEW j \in 1..Len(q), q[j].session = s, j # i - 1
          PROVE  j > i - 1 /\ q[j].event \in Ends
      <4>1. j + 1 \in 1..Len(r) /\ r[j + 1] = q[j] /\ j + 1 # i
        BY <1>3, <3>3
      <4>2. j + 1 > i /\ r[j + 1].event \in Ends
        BY <3>1, <3>3, <4>1
      <4> QED BY <4>1, <4>2
    <3> QED BY <3>2, <3>3 DEF FailsFirst
  <2>2. ASSUME FailsFirst(q, s) PROVE FailsFirst(r, s)
    <3>1. PICK i \in 1..Len(q) :
            /\ q[i] = fail
            /\ \A j \in 1..Len(q) : q[j].session = s /\ j # i => j > i /\ q[j].event \in Ends
      BY <2>2 DEF FailsFirst
    <3>2. i + 1 \in 1..Len(r) /\ r[i + 1] = fail
      BY <1>3, <3>1
    <3>3. ASSUME NEW j \in 1..Len(r), r[j].session = s, j # i + 1
          PROVE  j > i + 1 /\ r[j].event \in Ends
      <4>1. j - 1 \in 1..Len(q) /\ q[j - 1] = r[j] /\ j - 1 # i
        BY <1>2, <3>3
      <4>2. j - 1 > i /\ q[j - 1].event \in Ends
        BY <3>1, <3>3, <4>1
      <4> QED BY <4>1, <4>2
    <3> QED BY <3>2, <3>3 DEF FailsFirst
  <2> QED BY <2>1, <2>2
<1> QED BY <1>4, <1>5, <1>6 DEF Alike, q

\* One more report of the session itself.
Longer(r, q, s, name) ==
    /\ \A names : Only(q, s, names) <=> Only(r, s, names) /\ name \in names
    /\ \A names : Only(q, s, names) => OpensWith(q, s, names)
    /\ \A names : OpensWith(r, s, names) /\ ~Only(r, s, {}) => OpensWith(q, s, names)
    /\ FailsFirst(r, s) /\ name \in Ends => FailsFirst(q, s)
    /\ Only(r, s, {}) /\ name = "StartFailed" => FailsFirst(q, s)

\* A session's own report comes last, after all of its own that wait.
LEMMA AppendOwn ==
    ASSUME NEW r \in Seq(RemoteEnvelope), NEW s \in Sessions,
           NEW name \in WorkerEvent \cup Ends
    PROVE  Longer(r, Append(r, [session |-> s, event |-> name]), s, name)
<1> DEFINE e == [session |-> s, event |-> name]
           q == Append(r, e)
           n == Len(r) + 1
<1>0. e \in RemoteEnvelope
  BY DEF RemoteEnvelope, Ends
<1>1. /\ Len(q) = n /\ Len(r) \in Nat /\ q[n] = e
      /\ \A i \in 1..Len(r) : q[i] = r[i]
  BY <1>0
<1> HIDE DEF q
<1>2. e.session = s /\ e.event = name
  OBVIOUS
<1> HIDE DEF e
<1>3. \A i \in 1..Len(q) : i = n \/ (i \in 1..Len(r) /\ i < n)
  BY <1>1
<1>4. n \in 1..Len(q) /\ n \in Nat /\ \A i \in 1..Len(r) : i \in 1..Len(q) /\ i < n
  BY <1>1
<1> HIDE DEF n
<1>5. ASSUME NEW names PROVE Only(q, s, names) <=> Only(r, s, names) /\ name \in names
  BY <1>1, <1>2, <1>3, <1>4 DEF Only
<1>6. ASSUME NEW names, Only(q, s, names) PROVE OpensWith(q, s, names)
  BY <1>6 DEF Only, OpensWith
<1>7. ASSUME NEW names, OpensWith(r, s, names), ~Only(r, s, {})
      PROVE  OpensWith(q, s, names)
  <2> SUFFICES ASSUME NEW i \in 1..Len(q), q[i].session = s,
                      \A j \in 1..Len(q) : q[j].session = s => j >= i
               PROVE  q[i].event \in names
    BY DEF OpensWith
  <2>1. PICK k \in 1..Len(r) : r[k].session = s
    BY <1>7 DEF Only
  <2>2. k >= i /\ k < n
    BY <1>1, <1>4, <2>1
  <2>3. i \in 1..Len(r)
    <3>1. n \in Nat /\ i \in Nat /\ k \in Nat
      BY <1>1, <1>4
    <3> QED BY <1>3, <2>2, <3>1
  <2>4. \A j \in 1..Len(r) : r[j].session = s => j >= i
    BY <1>1, <1>4
  <2> QED BY <1>1, <1>7, <2>3, <2>4 DEF OpensWith
<1>8. ASSUME FailsFirst(r, s), name \in Ends PROVE FailsFirst(q, s)
  <2>1. PICK i \in 1..Len(r) :
          /\ r[i] = [session |-> s, event |-> "StartFailed"]
          /\ \A j \in 1..Len(r) : r[j].session = s /\ j # i => j > i /\ r[j].event \in Ends
    BY <1>8 DEF FailsFirst
  <2>2. i \in 1..Len(q) /\ q[i] = r[i] /\ n > i
    BY <1>1, <1>4, <2>1
  <2>3. ASSUME NEW j \in 1..Len(q), q[j].session = s, j # i
        PROVE  j > i /\ q[j].event \in Ends
    <3>1. CASE j = n
      BY <1>1, <1>2, <1>8, <2>2, <3>1
    <3>2. CASE j \in 1..Len(r)
      <4>1. q[j] = r[j]
        BY <1>1, <3>2
      <4> QED BY <2>1, <2>3, <3>2, <4>1
    <3> QED BY <1>3, <3>1, <3>2
  <2>4. q[i] = [session |-> s, event |-> "StartFailed"] /\ i \in 1..Len(q)
    BY <2>1, <2>2
  <2> QED BY <2>3, <2>4 DEF FailsFirst
<1>9. ASSUME Only(r, s, {}), name = "StartFailed" PROVE FailsFirst(q, s)
  <2>1. q[n] = [session |-> s, event |-> "StartFailed"] /\ n \in 1..Len(q)
    BY <1>1, <1>4, <1>9 DEF e
  <2>2. \A j \in 1..Len(q) : q[j].session = s => j = n
    BY <1>1, <1>3, <1>9 DEF Only
  <2> QED BY <2>1, <2>2 DEF FailsFirst
<1> QED BY <1>5, <1>6, <1>7, <1>8, <1>9 DEF Longer, q, e

\* A session's own report that is taken was the first of its own.
LEMMA TailOwn ==
    ASSUME NEW r \in Seq(RemoteEnvelope), r # <<>>, NEW s \in Sessions
    PROVE  /\ \A names : Only(r, s, names) => Only(Tail(r), s, names)
           /\ Head(r).session = s =>
                /\ \A names : Only(r, s, names) => Head(r).event \in names
                /\ \A names : OpensWith(r, s, names) => Head(r).event \in names
                /\ FailsFirst(r, s) =>
                     Head(r).event = "StartFailed" /\ Only(Tail(r), s, Ends)
<1> DEFINE q == Tail(r)
<1>1. /\ Len(q) = Len(r) - 1 /\ Len(r) \in Nat \ {0} /\ r[1] = Head(r)
      /\ \A i \in 1..Len(q) : q[i] = r[i + 1]
  OBVIOUS
<1> HIDE DEF q
<1>2. \A i \in 1..Len(q) : i + 1 \in 1..Len(r) /\ i + 1 # 1
  BY <1>1
<1>3. 1 \in 1..Len(r) /\ \A i \in 1..Len(r) : i >= 1
  BY <1>1
<1>4. ASSUME NEW names, Only(r, s, names) PROVE Only(q, s, names)
  BY <1>1, <1>2, <1>4 DEF Only
<1>5. ASSUME Head(r).session = s
      PROVE  /\ \A names : Only(r, s, names) => Head(r).event \in names
             /\ \A names : OpensWith(r, s, names) => Head(r).event \in names
  BY <1>1, <1>3, <1>5 DEF Only, OpensWith
<1>6. ASSUME Head(r).session = s, FailsFirst(r, s)
      PROVE  Head(r).event = "StartFailed" /\ Only(q, s, Ends)
  <2>1. PICK i \in 1..Len(r) :
          /\ r[i] = [session |-> s, event |-> "StartFailed"]
          /\ \A j \in 1..Len(r) : r[j].session = s /\ j # i => j > i /\ r[j].event \in Ends
    BY <1>6 DEF FailsFirst
  <2>2. i = 1
    BY <1>1, <1>3, <1>6, <2>1
  <2> QED BY <1>1, <1>2, <2>1, <2>2 DEF Only
<1> QED BY <1>4, <1>5, <1>6 DEF q

(***************************************************************************)
(* Steps of sessions.                                                      *)
(***************************************************************************)

\* Nothing of the session itself changes.
Untouched(s) ==
    /\ conn'[s] = conn[s] /\ attached'[s] = attached[s]
    /\ requests'[s] = requests[s] /\ shutdownSent'[s] = shutdownSent[s]
    /\ failureReported'[s] = failureReported[s]
    /\ up'[s] = up[s] /\ worker'[s] = worker[s]

\* Who has the same reports waiting, the same pipe and worker, has the same story.
LEMMA UntouchedKeeps ==
    ASSUME NEW s \in Sessions, Untouched(s), Alike(remote, remote', s)
    PROVE  /\ Blank(s) => Blank(s)'
           /\ Held(s) => Held(s)'
           /\ announced' = announced => (Story(s) => Story(s)')
<1> USE DEF Untouched, Alike
<1>1. Blank(s) => Blank(s)'
  BY DEF Blank
<1>2. Held(s) => Held(s)'
  BY DEF Held
<1>3. ASSUME announced' = announced, Story(s) PROVE Story(s)'
  <2>1. Unfailed(s) => Unfailed(s)'
    BY <1>3 DEF Unfailed
  <2>2. FailComing(s) => FailComing(s)'
    BY <1>3 DEF FailComing
  <2>3. FailReported(s) => FailReported(s)'
    BY <1>3 DEF FailReported
  <2>4. FailTold(s) => FailTold(s)'
    BY <1>3 DEF FailTold
  <2> QED BY <1>3, <2>1, <2>2, <2>3, <2>4 DEF Story
<1> QED BY <1>1, <1>2, <1>3

\* A channel that did not change says the same of every session.
LEMMA AlikeSelf == ASSUME NEW s, NEW r, NEW q, q = r PROVE Alike(r, q, s)
BY DEF Alike

\* The end of a connection whose worker has exited: quiet exactly if the worker
\* said that its start failed.
LEMMA EndStory ==
    ASSUME TypeInv, NEW s \in Sessions, NEW quiet \in BOOLEAN, EndConnection(s, quiet),
           quiet => failureReported[s], worker[s] = "Exited", announced' = announced,
           UNCHANGED worker, Held(s), Story(s)
    PROVE  Held(s)' /\ Story(s)'
<1> DEFINE name == IF quiet THEN "Disconnected" ELSE "DisconnectedWithError"
<1>1. /\ name \in WorkerEvent \cup Ends /\ name \in Ends
      /\ remote' = Append(remote, [session |-> s, event |-> name])
      /\ remote \in Seq(RemoteEnvelope)
  BY DEF EndConnection, RemoteEnvelope, TypeInv, TypeOK, PrivilegedTypeOK, Ends
<1>2. ~failureReported[s] => name = "DisconnectedWithError"
  OBVIOUS
<1> HIDE DEF name
<1>3. /\ conn'[s] = "Ended" /\ requests'[s] = <<>> /\ ~shutdownSent'[s]
      /\ ~failureReported'[s] /\ up'[s] = <<>> /\ attached' = attached
      /\ worker'[s] = "Exited"
  BY DEF EndConnection, TypeInv, TypeOK, PrivilegedTypeOK
<1>a. Longer(remote, remote', s, name)
  BY <1>1, AppendOwn
<1>4. /\ \A names : Only(remote', s, names) <=> Only(remote, s, names) /\ name \in names
      /\ \A names : Only(remote', s, names) => OpensWith(remote', s, names)
      /\ \A names : OpensWith(remote, s, names) /\ ~Only(remote, s, {}) =>
           OpensWith(remote', s, names)
      /\ FailsFirst(remote, s) /\ name \in Ends => FailsFirst(remote', s)
  BY <1>a DEF Longer
<1>5. Held(s)'
  BY <1>3 DEF Held
<1>6. ASSUME NEW names, Only(remote, s, {}) PROVE Only(remote, s, names)
  BY <1>6 DEF Only
<1>7. CASE Unfailed(s)
  <2>1. ~failureReported[s] /\ name \in Plain /\ name \in Opening
    BY <1>2, <1>7 DEF Unfailed, Plain, Opening
  <2>2. Only(remote', s, Plain)
    BY <1>4, <1>7, <2>1 DEF Unfailed
  <2>3. announced = "Starting" => OpensWith(remote', s, Opening)
    BY <1>4, <1>6, <1>7, <2>1 DEF Unfailed
  <2>4. Unfailed(s)'
    BY <1>3, <1>7, <2>2, <2>3 DEF Unfailed
  <2> QED BY <1>5, <2>4 DEF Story
<1>8. CASE FailComing(s)
  <2>1. ~failureReported[s] /\ name \in Plain /\ name \in Opening
    BY <1>2, <1>8 DEF FailComing, Plain, Opening
  <2>2. Only(remote', s, Plain) /\ OpensWith(remote', s, Opening)
    BY <1>4, <1>6, <1>8, <2>1 DEF FailComing
  <2>3. Unfailed(s)'
    BY <1>3, <1>8, <2>2 DEF Unfailed, FailComing
  <2> QED BY <1>5, <2>3 DEF Story
<1>9. CASE FailReported(s)
  <2>1. FailReported(s)'
    BY <1>1, <1>3, <1>4, <1>9 DEF FailReported
  <2> QED BY <1>3, <1>5, <2>1 DEF Story
<1>10. CASE FailTold(s)
  <2>1. FailTold(s)'
    BY <1>1, <1>3, <1>4, <1>10 DEF FailTold
  <2> QED BY <1>3, <1>5, <2>1 DEF Story
<1> QED BY <1>7, <1>8, <1>9, <1>10 DEF Story

\* The worker's next event reaches the channel.
LEMMA ReceiveStory ==
    ASSUME TypeInv, NEW s \in Sessions, ReceiveEvent(s), announced' = announced,
           Held(s), Story(s)
    PROVE  Held(s)' /\ Story(s)'
<1> DEFINE name == Head(up[s])
<1>1. /\ up[s] \in Seq(WorkerEvent) /\ up[s] # <<>> /\ name \in WorkerEvent
      /\ name = up[s][1] /\ 1 \in 1..Len(up[s])
      /\ remote \in Seq(RemoteEnvelope)
  BY DEF ReceiveEvent, TypeInv, TypeOK, PrivilegedTypeOK
<1>2. /\ up'[s] = Tail(up[s]) /\ (failureReported'[s] <=> name = "StartFailed")
      /\ remote' = Append(remote, [session |-> s, event |-> name])
      /\ UNCHANGED <<conn, attached, requests, shutdownSent, worker>>
  BY DEF ReceiveEvent, TypeInv, TypeOK, PrivilegedTypeOK, workerVars
<1> HIDE DEF name
<1>3. Longer(remote, remote', s, name)
  BY <1>1, <1>2, AppendOwn
<1>4. /\ \A names : Only(remote', s, names) <=> Only(remote, s, names) /\ name \in names
      /\ \A names : Only(remote', s, names) => OpensWith(remote', s, names)
      /\ \A names : OpensWith(remote, s, names) /\ ~Only(remote, s, {}) =>
           OpensWith(remote', s, names)
      /\ Only(remote, s, {}) /\ name = "StartFailed" => FailsFirst(remote', s)
  BY <1>3 DEF Longer
<1>5. Held(s)'
  BY <1>2 DEF Held
<1>6. ASSUME NEW names, Only(remote, s, {}) PROVE Only(remote, s, names)
  BY <1>6 DEF Only
<1>7. CASE Unfailed(s)
  <2>1. name # "StartFailed" /\ name \in Plain
    BY <1>1, <1>7 DEF Unfailed, Plain
  <2>2. Only(remote', s, Plain) /\ ~Only(remote', s, {})
    BY <1>4, <1>7, <2>1 DEF Unfailed
  <2>3. announced = "Starting" => OpensWith(remote', s, Opening)
    <3>1. CASE announced = "Starting" /\ Only(remote, s, {})
      <4>1. name \in Opening
        BY <1>1, <1>7, <3>1 DEF Unfailed, Opening
      <4> QED BY <1>4, <1>6, <3>1, <4>1
    <3>2. CASE announced = "Starting" /\ ~Only(remote, s, {})
      BY <1>4, <1>7, <3>2 DEF Unfailed
    <3> QED BY <3>1, <3>2
  <2>4. \A i \in 1..Len(up'[s]) : up'[s][i] # "StartFailed"
    <3> SUFFICES ASSUME NEW i \in 1..Len(Tail(up[s])) PROVE Tail(up[s])[i] # "StartFailed"
      BY <1>2
    <3>1. i + 1 \in 1..Len(up[s]) /\ Tail(up[s])[i] = up[s][i + 1]
      BY <1>1
    <3> QED BY <1>7, <3>1 DEF Unfailed
  <2>5. worker[s] \notin {"Launched", "Connected", "Starting"}
    BY <1>1, <1>7 DEF Unfailed
  <2>6. Unfailed(s)'
    BY <1>2, <1>7, <2>1, <2>2, <2>3, <2>4, <2>5 DEF Unfailed
  <2> QED BY <1>5, <2>6 DEF Story
<1>8. CASE worker[s] = "Exited" /\ FailComing(s)
  <2>1. name = "StartFailed" /\ up'[s] = <<>>
    BY <1>1, <1>2, <1>8 DEF FailComing
  <2>2. FailReported(s)'
    BY <1>4, <1>8, <2>1 DEF FailComing, FailReported
  <2> QED BY <1>2, <1>5, <1>8, <2>2 DEF Story
<1> QED BY <1>1, <1>7, <1>8 DEF Story, FailReported, FailTold

\* A connection's own steps.
LEMMA LinkStepStory ==
    ASSUME TypeInv, NEW t \in Sessions, ParentConnection(t), UNCHANGED backendVars,
           NEW s \in Sessions, StoryOK(s)
    PROVE  StoryOK(s)'
<1> USE DEF TypeInv, TypeOK, PrivilegedTypeOK
<1>1. /\ announced' = announced /\ worker' = worker /\ (Engaged(s)' <=> Engaged(s))
  BY DEF backendVars, loopVars, Engaged, TunNode, ParentConnection, ForwardCommand,
         ForwardFails, ReceiveEvent, StreamEnds, DisconnectFires, EndConnection, workerVars
<1>2. CASE s # t
  <2>1. ASSUME NEW quiet \in BOOLEAN, EndConnection(t, quiet)
        PROVE  Untouched(s) /\ Alike(remote, remote', s)
    <3>1. Untouched(s)
      BY <1>2, <2>1 DEF EndConnection, Untouched, workerVars
    <3> DEFINE name == IF quiet THEN "Disconnected" ELSE "DisconnectedWithError"
    <3>2. /\ name \in WorkerEvent \cup Ends
          /\ remote' = Append(remote, [session |-> t, event |-> name])
      BY <2>1 DEF EndConnection, Ends
    <3> HIDE DEF name
    <3> QED BY <1>2, <3>1, <3>2, AppendOther
  <2>2. ASSUME ForwardCommand(t)
        PROVE  Untouched(s) /\ Alike(remote, remote', s)
    <3>1. Untouched(s) /\ remote' = remote
      BY <1>2, <2>2 DEF ForwardCommand, Untouched, workerVars
    <3> QED BY <3>1, AlikeSelf
  <2>3. ASSUME ReceiveEvent(t)
        PROVE  Untouched(s) /\ Alike(remote, remote', s)
    <3>1. Untouched(s)
      BY <1>2, <2>3 DEF ReceiveEvent, Untouched, workerVars
    <3> DEFINE name == Head(up[t])
    <3>2. /\ name \in WorkerEvent \cup Ends
          /\ remote' = Append(remote, [session |-> t, event |-> name])
      BY <2>3 DEF ReceiveEvent
    <3> HIDE DEF name
    <3> QED BY <1>2, <3>1, <3>2, AppendOther
  <2>4. ASSUME ForwardFails(t) \/ StreamEnds(t) \/ DisconnectFires(t)
        PROVE  Untouched(s) /\ Alike(remote, remote', s)
    BY <2>1, <2>4 DEF ForwardFails, StreamEnds, DisconnectFires, IsShutdown
  <2>5. Untouched(s) /\ Alike(remote, remote', s)
    BY <2>2, <2>3, <2>4 DEF ParentConnection
  <2> QED BY <1>1, <2>5, UntouchedKeeps DEF StoryOK, Untouched
<1>3. CASE s = t
  <2>1. conn[s] = "Open" /\ conn'[s] \in {"Open", "Ended"}
    BY <1>3
       DEF ParentConnection, ForwardCommand, CanForward, ForwardFails, ReceiveEvent,
           StreamEnds, DisconnectFires, EndConnection
  <2> SUFFICES ASSUME Engaged(s), Held(s), Story(s) PROVE Held(s)' /\ Story(s)'
    BY <1>1, <2>1 DEF StoryOK
  <2>2. CASE ForwardCommand(s)
    <3>1. /\ requests[s] # <<>> /\ requests[s] \in Seq(WorkerCommand)
          /\ NextRequest(s) = requests[s][1] /\ 1 \in 1..Len(requests[s])
      BY <2>2 DEF ForwardCommand, CanForward, NextRequest, Held
    <3>2. ~IsShutdown(NextRequest(s))
      BY <3>1 DEF Held
    <3>3. /\ ~shutdownSent'[s] /\ requests'[s] = Tail(requests[s])
          /\ UNCHANGED <<conn, attached, worker, up, remote, failureReported>>
      BY <2>2, <3>1, <3>2 DEF ForwardCommand, workerVars
    <3>4. \A i \in 1..Len(requests'[s]) : ~IsShutdown(requests'[s][i])
      <4> SUFFICES ASSUME NEW i \in 1..Len(Tail(requests[s]))
                   PROVE  ~IsShutdown(Tail(requests[s])[i])
        BY <3>3
      <4>1. i + 1 \in 1..Len(requests[s]) /\ Tail(requests[s])[i] = requests[s][i + 1]
        BY <3>1
      <4> QED BY <4>1 DEF Held
    <3>5. Held(s)'
      BY <3>3, <3>4 DEF Held
    <3>6. Story(s)'
      BY <1>1, <3>3 DEF Story, Unfailed, FailComing, FailReported, FailTold
    <3> QED BY <3>5, <3>6
  <2>3. CASE ForwardFails(s)
    <3>1. requests[s] # <<>> /\ worker[s] = "Exited"
      BY <2>3 DEF ForwardFails, CanForward, Held
    <3>2. NextRequest(s) = requests[s][1] /\ 1 \in 1..Len(requests[s])
      BY <3>1 DEF NextRequest
    <3>3. ~IsShutdown(NextRequest(s))
      BY <3>2 DEF Held
    <3>4. EndConnection(s, failureReported[s])
      BY <2>3, <3>3 DEF ForwardFails, EndConnection
    <3> QED BY <1>1, <3>1, <3>4, EndStory
  <2>4. CASE ReceiveEvent(s)
    BY <1>1, <2>4, ReceiveStory
  <2>5. CASE StreamEnds(s)
    <3>1. EndConnection(s, failureReported[s]) /\ worker[s] = "Exited"
      BY <2>5 DEF StreamEnds, EndConnection, Held
    <3> QED BY <1>1, <3>1, EndStory
  <2>6. CASE DisconnectFires(s)
    BY <2>6 DEF DisconnectFires, Held
  <2> QED BY <1>3, <2>2, <2>3, <2>4, <2>5, <2>6 DEF ParentConnection
<1> QED BY <1>2, <1>3

\* A worker that says nothing and goes on, or exits, keeps the session's story.
LEMMA QuietStory ==
    ASSUME NEW s \in Sessions, Unfailed(s), up'[s] = up[s],
           failureReported'[s] = failureReported[s],
           remote' = remote, announced' = announced,
           worker'[s] \in {"Launched", "Connected", "Starting"} =>
             worker[s] \in {"Launched", "Connected", "Starting"},
           worker'[s] = "Running" => worker[s] = "Running"
    PROVE  Story(s)'
<1>1. Unfailed(s)'
  BY DEF Unfailed
<1> QED BY <1>1 DEF Story

\* A worker that runs and reports something.
LEMMA ReportStory ==
    ASSUME TypeInv, NEW s \in Sessions, Unfailed(s), worker[s] = "Running",
           NEW event \in {"OperationFailed", "PeerStatus"}, up'[s] = Append(up[s], event),
           failureReported' = failureReported, remote' = remote, announced' = announced,
           worker'[s] = "Running"
    PROVE  Story(s)'
<1>1. up[s] \in Seq(WorkerEvent) /\ event \in WorkerEvent
  BY DEF TypeInv, TypeOK, PrivilegedTypeOK, WorkerEvent
<1>2. /\ Len(up'[s]) = Len(up[s]) + 1 /\ up'[s] # <<>>
      /\ up'[s][Len(up[s]) + 1] = event
      /\ \A i \in 1..Len(up[s]) : up'[s][i] = up[s][i]
  BY <1>1
<1>3. \A i \in 1..Len(up'[s]) : up'[s][i] # "StartFailed"
  BY <1>1, <1>2 DEF Unfailed
<1>4. announced = "Starting" /\ Only(remote, s, {}) => up'[s][1] = "Started"
  <2> SUFFICES ASSUME announced = "Starting", Only(remote, s, {}) PROVE up'[s][1] = "Started"
    OBVIOUS
  <2>1. up[s] # <<>>
    BY DEF Unfailed
  <2>2. up[s][1] = "Started" /\ 1 \in 1..Len(up[s])
    BY <1>1, <2>1 DEF Unfailed
  <2> QED BY <1>2, <2>2
<1>5. Unfailed(s)'
  BY <1>2, <1>3, <1>4 DEF Unfailed
<1> QED BY <1>5 DEF Story

\* A worker's own steps.
LEMMA WorkerStepStory ==
    ASSUME TypeInv, NEW t \in Sessions, WorkerStep(t) \/ WorkerTick(t),
           UNCHANGED backendVars, NEW s \in Sessions, StoryOK(s)
    PROVE  StoryOK(s)'
<1> USE DEF TypeInv, TypeOK, PrivilegedTypeOK
<1>1. /\ announced' = announced /\ (Engaged(s)' <=> Engaged(s))
      /\ UNCHANGED linkVars /\ remote' = remote
      /\ \A r \in Sessions \ {t} : worker'[r] = worker[r] /\ up'[r] = up[r]
      /\ conn[t] # "Open" => up' = up
  <2>1. announced' = announced /\ (Engaged(s)' <=> Engaged(s))
    BY DEF backendVars, loopVars, Engaged, TunNode
  <2> QED
    BY <2>1
       DEF WorkerStep, WorkerProgress, WorkerTick, WorkerConnects, AuthorizationDenied,
           WorkerReadsFirst, WorkerStarts, WorkerStartFails, WorkerCapabilityFails,
           WorkerEditsPeers, WorkerRejects, WorkerShutsDown, WorkerReads,
           WorkerLosesGui, WorkerClosed, WorkerDies, GoTo, Emit, linkVars, workerVars
<1> USE DEF linkVars
<1>2. CASE s # t
  <2>1. Untouched(s) /\ Alike(remote, remote', s)
    BY <1>1, <1>2, AlikeSelf DEF Untouched
  <2> QED BY <1>1, <2>1, UntouchedKeeps DEF StoryOK, Untouched
<1>3. CASE s = t
  <2>1. conn'[s] \in {"None", "Listening"} => Blank(s)'
    BY <1>1, <1>3 DEF StoryOK, Blank
  <2> SUFFICES ASSUME Held(s), Story(s) PROVE Held(s)' /\ Story(s)'
    BY <1>1, <2>1 DEF StoryOK
  <2>2. worker[s] # "Exited"
    BY <1>3 DEF WorkerStep, WorkerProgress, WorkerTick, WorkerConnects, AuthorizationDenied,
           WorkerReadsFirst, WorkerStarts, WorkerStartFails, WorkerCapabilityFails,
           WorkerEditsPeers, WorkerRejects, WorkerShutsDown, WorkerReads,
           WorkerLosesGui, WorkerClosed, WorkerDies
  <2>3. Unfailed(s) /\ conn[s] = "Open"
    BY <2>2 DEF Story, Held
  <2>4. Held(s)'
    BY <1>1, <2>3 DEF Held
  <2>5. CASE \/ WorkerConnects(s) \/ AuthorizationDenied(s) \/ WorkerReadsFirst(s)
             \/ WorkerCapabilityFails(s) \/ WorkerEditsPeers(s) \/ WorkerShutsDown(s)
             \/ WorkerClosed(s) \/ WorkerDies(s)
    <3>1. /\ up'[s] = up[s]
          /\ worker'[s] \in {"Launched", "Connected", "Starting"} =>
               worker[s] \in {"Launched", "Connected", "Starting"}
          /\ worker'[s] = "Running" => worker[s] = "Running"
      BY <2>3, <2>5
         DEF WorkerConnects, AuthorizationDenied, WorkerReadsFirst, WorkerCapabilityFails,
             WorkerEditsPeers, WorkerShutsDown, WorkerReads, WorkerClosed, WorkerDies,
             GoTo, workerVars
    <3> QED BY <1>1, <2>3, <2>4, <3>1, QuietStory
  <2>6. CASE WorkerStarts(s)
    <3>1. /\ announced = "Starting" /\ up[s] = <<>> /\ Only(remote, s, {})
          /\ up'[s] = <<"Started">> /\ worker'[s] = "Running"
      BY <2>3, <2>6 DEF WorkerStarts, GoTo, Emit, Unfailed
    <3>2. Unfailed(s)'
      BY <1>1, <2>3, <3>1 DEF Unfailed
    <3> QED BY <2>4, <3>2 DEF Story
  <2>7. CASE WorkerStartFails(s)
    <3>1. /\ announced = "Starting" /\ up[s] = <<>> /\ Only(remote, s, {})
          /\ up'[s] = <<"StartFailed">> /\ worker'[s] = "Exited"
      BY <2>3, <2>7 DEF WorkerStartFails, GoTo, Emit, Unfailed
    <3>2. FailComing(s)'
      BY <1>1, <2>3, <3>1 DEF FailComing, Unfailed
    <3> QED BY <2>4, <3>1, <3>2 DEF Story
  <2>8. CASE WorkerRejects(s)
    <3>1. /\ up'[s] = Append(up[s], "OperationFailed") /\ worker[s] = "Running"
          /\ worker'[s] = "Running"
      BY <2>3, <2>8 DEF WorkerRejects, WorkerReads, Emit
    <3> QED BY <1>1, <2>3, <2>4, <3>1, ReportStory
  <2>9. CASE WorkerTick(s)
    <3>1. /\ up'[s] = Append(up[s], "PeerStatus") /\ worker[s] = "Running"
          /\ worker'[s] = "Running"
      BY <2>3, <2>9 DEF WorkerTick, Emit, workerVars
    <3> QED BY <1>1, <2>3, <2>4, <3>1, ReportStory
  <2>10. ~WorkerLosesGui(s)
    BY <2>3 DEF WorkerLosesGui
  <2> QED BY <1>3, <2>5, <2>6, <2>7, <2>8, <2>9, <2>10 DEF WorkerStep, WorkerProgress
<1> QED BY <1>2, <1>3

(***************************************************************************)
(* Steps of the loop.                                                      *)
(***************************************************************************)

\* Where no session is engaged, only blank ones matter, and they stay blank.
LEMMA NobodyEngaged ==
    ASSUME NEW s \in Sessions, StoryOK(s), ~Engaged(s)',
           conn'[s] \in {"None", "Listening"} =>
             /\ conn[s] \in {"None", "Listening"}
             /\ up'[s] = up[s] /\ requests'[s] = requests[s]
             /\ shutdownSent'[s] = shutdownSent[s]
             /\ failureReported'[s] = failureReported[s]
             /\ remote' = remote
    PROVE  StoryOK(s)'
BY DEF StoryOK, Blank

\* Going on after a close announces what the loop goes on to do.
LEMMA ResumeTold ==
    ASSUME NEW command \in BackendCommand, Resume(command), node' = NoNode
    PROVE  Told' /\ pc' \in {"Select", "Launching", "StartingLocal", "Exiting"}
<1> USE TunNodes DEF Told
<1>1. CASE command.command = "Start"
  BY <1>1 DEF Resume, Send, PhaseAfter, Event
<1>2. CASE command.command = "Stop"
  BY <1>2 DEF Resume, Send, PhaseAfter, Event, Return
<1>3. CASE command.command \notin {"Start", "Stop"}
  BY <1>3 DEF Resume
<1> QED BY <1>1, <1>2, <1>3

\* A request reaches the queue, and nothing else.
LEMMA RequestStory ==
    ASSUME TypeInv, NEW t \in Sessions, NEW command \in WorkerCommand,
           Request(t, command), ~IsShutdown(command),
           NEW s \in Sessions, Held(s), Story(s), announced' = announced
    PROVE  Held(s)' /\ Story(s)'
<1> USE DEF TypeInv, TypeOK, PrivilegedTypeOK
<1>1. UNCHANGED <<conn, attached, shutdownSent, failureReported, worker, up, remote>>
  BY DEF Request, workerVars
<1>2. \A i \in 1..Len(requests'[s]) : ~IsShutdown(requests'[s][i])
  <2>1. CASE requests'[s] = requests[s]
    BY <2>1 DEF Held
  <2>2. CASE requests'[s] = Append(requests[s], command)
    <3>1. /\ requests[s] \in Seq(WorkerCommand) /\ Len(requests'[s]) = Len(requests[s]) + 1
          /\ requests'[s][Len(requests[s]) + 1] = command
          /\ \A i \in 1..Len(requests[s]) : requests'[s][i] = requests[s][i]
      BY <2>2
    <3>2. \A i \in 1..Len(requests'[s]) :
            i = Len(requests[s]) + 1 \/ i \in 1..Len(requests[s])
      BY <3>1
    <3> QED BY <3>1, <3>2 DEF Held
  <2> QED BY <2>1, <2>2 DEF Request
<1>3. Held(s)'
  BY <1>1, <1>2 DEF Held
<1>4. Story(s)'
  BY <1>1 DEF Story, Unfailed, FailComing, FailReported, FailTold
<1> QED BY <1>3, <1>4

\* The commands.
LEMMA CommandStepStory ==
    ASSUME TypeInv, PlaceInv, StoryInv, CommandStep
    PROVE  StoryInv'
<1> USE TunNodes
    DEF TypeInv, TypeOK, PrivilegedTypeOK, BackendTypeOK, PendingStart, PlaceInv, OneOwner
<1>1. CASE HandleLifecycle
  <2>1. pc = "Select" /\ node' = NoNode /\ Head(commands) \in BackendCommand
    BY <1>1 DEF HandleLifecycle, Receive, HandleTypeOK
  <2>2. CASE node = NoNode
    <3>1. Resume(Head(commands)) /\ UNCHANGED privilegedVars
      BY <1>1, <2>2 DEF HandleLifecycle
    <3>2. Told' /\ pc' # "Sending"
      BY <2>1, <3>1, ResumeTold
    <3>3. ASSUME NEW s \in Sessions PROVE StoryOK(s)'
      <4>1. ~Engaged(s)'
        BY <2>1, <3>2 DEF Engaged, TunNode, NoNode
      <4>2. UNCHANGED <<conn, up, requests, shutdownSent, failureReported, remote>>
        BY <3>1 DEF privilegedVars, linkVars
      <4>3. StoryOK(s)
        BY DEF StoryInv
      <4> QED BY <4>1, <4>2, <4>3, NobodyEngaged
    <3> QED BY <3>2, <3>3 DEF StoryInv
  <2>3. CASE node # NoNode
    <3>1. pc' = "Closing"
      BY <1>1, <2>3 DEF HandleLifecycle
    <3>2. /\ UNCHANGED <<conn, up, shutdownSent, failureReported, remote>>
          /\ \A s \in Sessions : conn[s] # "Open" => requests'[s] = requests[s]
      <4>1. CASE node.kind = "Privileged"
        <5>1. Request(node.session, ShutdownCommand)
          BY <1>1, <2>3, <4>1 DEF HandleLifecycle
        <5> QED BY <5>1 DEF Request
      <4>2. CASE node.kind # "Privileged"
        BY <1>1, <2>3, <4>2 DEF HandleLifecycle, privilegedVars, linkVars
      <4> QED BY <4>1, <4>2
    <3>3. ASSUME NEW s \in Sessions PROVE StoryOK(s)'
      <4>1. ~Engaged(s)'
        BY <2>1, <3>1 DEF Engaged, TunNode, NoNode
      <4>2. StoryOK(s)
        BY DEF StoryInv
      <4> QED BY <3>2, <4>1, <4>2, NobodyEngaged
    <3> QED BY <3>1, <3>3 DEF StoryInv, Told
  <2> QED BY <2>2, <2>3
<1>2. CASE HandlePeerEdit
  <2> DEFINE edit == Head(commands)
  <2>1. /\ pc = "Select" /\ UNCHANGED <<pc, node, nextSession>>
        /\ edit \in WorkerCommand /\ ~IsShutdown(edit)
    BY <1>2, CommandTypes DEF HandlePeerEdit, Receive, HandleTypeOK, IsShutdown
  <2> HIDE DEF edit
  <2>2. \A s \in Sessions : Engaged(s)' <=> Engaged(s)
    BY <2>1 DEF Engaged, TunNode
  <2>3. CASE node.kind = "Local"
    <3>1. node = LocalNode /\ announced = "Running"
      BY <2>1, <2>3 DEF ActiveNode, NoNode, LocalNode, TunNode, StoryInv, Told
    <3>2. SendNothing \/ Send(Event("Failed"))
      BY <1>2, <2>3 DEF HandlePeerEdit
    <3>3. announced' = "Running"
      BY <3>1, <3>2 DEF SendNothing, Send, PhaseAfter, Event
    <3>4. ASSUME NEW s \in Sessions PROVE StoryOK(s)'
      <4>1. ~Engaged(s)'
        BY <2>1, <2>2, <3>1 DEF Engaged, TunNode, LocalNode
      <4>2. UNCHANGED <<conn, up, requests, shutdownSent, failureReported, remote>>
        BY <1>2, <2>3 DEF HandlePeerEdit, privilegedVars, linkVars
      <4>3. StoryOK(s)
        BY DEF StoryInv
      <4> QED BY <4>1, <4>2, <4>3, NobodyEngaged
    <3> QED BY <2>1, <3>1, <3>3, <3>4 DEF StoryInv, Told
  <2>4. CASE node.kind = "Privileged"
    <3>1. /\ Request(node.session, edit) /\ announced' = announced
          /\ node.session \in Sessions
      BY <1>2, <2>4 DEF HandlePeerEdit, SendNothing, ActiveNode, NoNode, LocalNode, TunNode, edit
    <3>2. ASSUME NEW s \in Sessions PROVE StoryOK(s)'
      <4>1. Engaged(s) => Held(s)' /\ Story(s)'
        BY <2>1, <3>1, RequestStory DEF StoryInv, StoryOK
      <4>2. /\ UNCHANGED <<conn, up, shutdownSent, failureReported, remote>>
            /\ conn[s] # "Open" => requests'[s] = requests[s]
        BY <3>1 DEF Request
      <4>3. conn'[s] \in {"None", "Listening"} => Blank(s)'
        BY <4>2 DEF StoryInv, StoryOK, Blank
      <4> QED BY <2>2, <4>1, <4>3 DEF StoryOK
    <3> QED BY <2>1, <3>1, <3>2 DEF StoryInv, Told
  <2>5. CASE node.kind \notin {"Local", "Privileged"}
    <3>1. UNCHANGED <<privilegedVars, announced>>
      BY <1>2, <2>5 DEF HandlePeerEdit
    <3>2. ASSUME NEW s \in Sessions PROVE StoryOK(s)'
      <4>1. Untouched(s) /\ Alike(remote, remote', s)
        BY <3>1, AlikeSelf DEF privilegedVars, linkVars, workerVars, Untouched
      <4> QED BY <2>2, <3>1, <4>1, UntouchedKeeps DEF StoryInv, StoryOK, Untouched
    <3> QED BY <2>1, <3>1, <3>2 DEF StoryInv, Told
  <2> QED BY <2>3, <2>4, <2>5
<1>3. CASE HandleDiscover
  <2>1. UNCHANGED <<privilegedVars, pc, node, nextSession, announced>>
    BY <1>3 DEF HandleDiscover
  <2>2. ASSUME NEW s \in Sessions PROVE StoryOK(s)'
    <3>1. Untouched(s) /\ Alike(remote, remote', s) /\ (Engaged(s)' <=> Engaged(s))
      BY <2>1, AlikeSelf
         DEF privilegedVars, linkVars, workerVars, Untouched, Engaged, TunNode
    <3> QED BY <2>1, <3>1, UntouchedKeeps DEF StoryInv, StoryOK, Untouched
  <2> QED BY <2>1, <2>2 DEF StoryInv, Told
<1> QED BY <1>1, <1>2, <1>3 DEF CommandStep

\* The end of a close.
LEMMA CloseStepStory ==
    ASSUME TypeInv, PlaceInv, StoryInv, CloseStep
    PROVE  StoryInv'
<1> USE DEF TypeInv, TypeOK, BackendTypeOK, PlaceInv, OneOwner
<1>1. /\ AfterClose /\ pc = "Closing"
      /\ UNCHANGED <<conn, up, requests, shutdownSent, failureReported, remote>>
  BY DEF CloseStep, CloseLocal, CloseCompletes, CloseTimesOut, DropNode, privilegedVars,
         linkVars
<1>2. node' = NoNode /\ Resume(pending)
  BY <1>1 DEF AfterClose
<1>3. Told' /\ pc' # "Sending"
  BY <1>2, ResumeTold
<1>4. ASSUME NEW s \in Sessions PROVE StoryOK(s)'
  <2>1. ~Engaged(s)'
    BY <1>2, <1>3 DEF Engaged, TunNode, NoNode
  <2> QED BY <1>1, <2>1, NobodyEngaged DEF StoryInv
<1> QED BY <1>3, <1>4 DEF StoryInv

\* A start, failed ones included.
LEMMA StartStepStory ==
    ASSUME TypeInv, PlaceInv, StoryInv, StartStep
    PROVE  StoryInv'
<1> USE TunNodes
    DEF TypeInv, TypeOK, PrivilegedTypeOK, BackendTypeOK, PendingStart, PlaceInv, OneOwner
<1>a. /\ pc \in {"Launching", "Accepting", "Sending", "StartingLocal"}
      /\ node = NoNode /\ announced = "Starting"
  BY DEF StartStep, StartTun, StartTunFails, Accept, LauncherExits, ElevationTimesOut,
         SendStart, SendStartFails, StartLocal, StartLocalFails, StoryInv, Told
<1>b. ASSUME StartNodeFails,
             UNCHANGED <<up, requests, shutdownSent, failureReported, remote>>,
             \A s \in Sessions : conn'[s] = conn[s] \/ conn'[s] = "Ended"
      PROVE  StoryInv'
  <2>1. pc' = "Select" /\ node' = NoNode /\ announced' = "Stopped"
    BY <1>a, <1>b DEF StartNodeFails, Return, Send, PhaseAfter, Event
  <2>2. ASSUME NEW s \in Sessions PROVE StoryOK(s)'
    <3>1. ~Engaged(s)'
      BY <2>1 DEF Engaged, TunNode, NoNode
    <3> QED BY <1>b, <3>1, NobodyEngaged DEF StoryInv
  <2> QED BY <2>1, <2>2 DEF StoryInv, Told
<1>1. CASE StartTun
  <2>1. /\ pc' = "Accepting" /\ node' = NoNode /\ announced' = "Starting"
        /\ nextSession' \in Sessions /\ nextSession' > nextSession
        /\ conn' = [conn EXCEPT ![nextSession'] = "Listening"]
        /\ UNCHANGED <<up, requests, shutdownSent, failureReported, remote>>
    BY <1>1, <1>a, MessagesAssumption DEF StartTun, LaunchWorker, Sessions
  <2>2. conn[nextSession'] = "None"
    BY <2>1 DEF FreshSessions
  <2>3. ASSUME NEW s \in Sessions PROVE StoryOK(s)'
    <3>1. ~Engaged(s)'
      BY <2>1 DEF Engaged, TunNode, NoNode
    <3> QED BY <2>1, <2>2, <3>1, NobodyEngaged DEF StoryInv
  <2> QED BY <2>1, <2>3 DEF StoryInv, Told
<1>2. CASE StartTunFails
  BY <1>2, <1>b DEF StartTunFails, privilegedVars, linkVars
<1>3. CASE Accept
  <2>1. /\ pc' = "Sending" /\ node' = NoNode /\ announced' = "Starting"
        /\ nextSession \in Sessions /\ nextSession' = nextSession
        /\ conn[nextSession] = "Listening" /\ worker[nextSession] = "Connected"
        /\ conn' = [conn EXCEPT ![nextSession] = "Open"]
        /\ attached' = [attached EXCEPT ![nextSession] = TRUE]
        /\ UNCHANGED <<worker, up, requests, shutdownSent, failureReported, remote>>
    BY <1>3, <1>a DEF Accept, AcceptWorker, workerVars
  <2>2. Blank(nextSession)
    BY <2>1 DEF StoryInv, StoryOK
  <2>3. ASSUME NEW s \in Sessions PROVE StoryOK(s)'
    <3>1. CASE s = nextSession
      <4>1. Held(s)'
        BY <2>1, <2>2, <3>1 DEF Held, Blank
      <4>2. Only(remote, s, Plain) /\ OpensWith(remote, s, Opening)
        BY <2>2, <3>1 DEF Blank, Only, OpensWith
      <4>3. Unfailed(s)'
        BY <2>1, <2>2, <3>1, <4>2 DEF Unfailed, Blank
      <4> QED BY <2>1, <3>1, <4>1, <4>3 DEF StoryOK, Story
    <3>2. CASE s # nextSession
      <4>1. ~Engaged(s)'
        BY <2>1, <3>2 DEF Engaged, TunNode, NoNode
      <4> QED BY <2>1, <3>2, <4>1, NobodyEngaged DEF StoryInv
    <3> QED BY <3>1, <3>2
  <2> QED BY <2>1, <2>3 DEF StoryInv, Told
<1>4. CASE LauncherExits \/ ElevationTimesOut
  <2>1. /\ StartNodeFails /\ conn' = [conn EXCEPT ![nextSession] = "Ended"]
        /\ UNCHANGED <<up, requests, shutdownSent, failureReported, remote>>
    BY <1>4 DEF LauncherExits, ElevationTimesOut, StopListening
  <2> QED BY <1>b, <2>1
<1>5. CASE SendStart
  <2>1. /\ pc = "Sending" /\ pc' = "Select" /\ nextSession \in Sessions
        /\ node' = TunNode(nextSession) /\ announced' = announced
        /\ Request(nextSession, pending) /\ pending \in WorkerCommand
        /\ ~IsShutdown(pending)
    BY <1>5, CommandTypes DEF SendStart, Return, IsShutdown
  <2>2. /\ UNCHANGED <<conn, up, shutdownSent, failureReported, remote>>
        /\ \A s \in Sessions : conn[s] # "Open" => requests'[s] = requests[s]
    BY <2>1 DEF Request
  <2>3. ASSUME NEW s \in Sessions PROVE StoryOK(s)'
    <3>1. conn'[s] \in {"None", "Listening"} => Blank(s)'
      BY <2>2 DEF StoryInv, StoryOK, Blank
    <3>2. Engaged(s)' => Engaged(s)
      BY <2>1 DEF Engaged, TunNode
    <3>3. Engaged(s) => Held(s)' /\ Story(s)'
      BY <2>1, RequestStory DEF StoryInv, StoryOK
    <3> QED BY <3>1, <3>2, <3>3 DEF StoryOK
  <2> QED BY <2>1, <2>3 DEF StoryInv, Told
<1>6. CASE SendStartFails
  <2>1. /\ StartNodeFails
        /\ UNCHANGED <<conn, up, requests, shutdownSent, failureReported, remote>>
    BY <1>6 DEF SendStartFails, DropNode
  <2> QED BY <1>b, <2>1
<1>7. CASE StartLocal
  <2>1. /\ pc' = "Select" /\ node' = LocalNode
        /\ announced' = "Running"
    BY <1>7 DEF StartLocal, Return, Send, PhaseAfter
  <2>2. ASSUME NEW s \in Sessions PROVE StoryOK(s)'
    <3>1. ~Engaged(s)'
      BY <2>1 DEF Engaged, TunNode, LocalNode
    <3>2. UNCHANGED <<conn, up, requests, shutdownSent, failureReported, remote>>
      BY <1>7 DEF StartLocal, privilegedVars, linkVars
    <3> QED BY <3>1, <3>2, NobodyEngaged DEF StoryInv
  <2> QED BY <2>1, <2>2 DEF StoryInv, Told
<1>8. CASE StartLocalFails
  BY <1>8, <1>b DEF StartLocalFails, privilegedVars, linkVars
<1> QED
  BY <1>1, <1>2, <1>3, <1>4, <1>5, <1>6, <1>7, <1>8 DEF StartStep

\* What a report of the node's own session may be, and what is known then.
LEMMA OwnReport ==
    ASSUME TypeInv, StoryInv, NEW t \in Sessions, node = TunNode(t), remote # <<>>,
           Head(remote).session = t
    PROVE  \/ announced = "Starting" /\ Head(remote).event = "StartFailed"
                /\ worker[t] = "Exited" /\ FailReported(t) /\ Only(Tail(remote), t, Ends)
           \/ announced = "Stopped" /\ Head(remote).event \in Ends
                /\ worker[t] = "Exited" /\ FailTold(t)
           \/ announced \in {"Starting", "Running"} /\ Unfailed(t)
                /\ Head(remote).event \in Plain
                /\ (announced = "Starting" => Head(remote).event \in Opening)
<1> DEFINE name == Head(remote).event
<1>1. Story(t) /\ remote \in Seq(RemoteEnvelope)
  BY DEF StoryInv, StoryOK, Engaged, TypeInv, TypeOK, PrivilegedTypeOK
<1>2. /\ \A names : Only(remote, t, names) => name \in names
      /\ \A names : OpensWith(remote, t, names) => name \in names
      /\ FailsFirst(remote, t) => name = "StartFailed" /\ Only(Tail(remote), t, Ends)
  BY <1>1, TailOwn
<1> HIDE DEF name
<1>3. CASE Unfailed(t)
  <2>1. /\ Only(remote, t, Plain) /\ announced \in {"Starting", "Running"}
        /\ announced = "Starting" => OpensWith(remote, t, Opening)
    BY <1>3 DEF Unfailed
  <2>2. name \in Plain /\ (announced = "Starting" => name \in Opening)
    BY <1>2, <2>1
  <2> QED BY <1>2, <1>3, <2>1, <2>2 DEF name
<1>4. CASE worker[t] = "Exited" /\ FailComing(t)
  BY <1>2, <1>4 DEF FailComing
<1>5. CASE worker[t] = "Exited" /\ FailReported(t)
  BY <1>2, <1>5 DEF FailReported, name
<1>6. CASE worker[t] = "Exited" /\ FailTold(t)
  BY <1>2, <1>6 DEF FailTold, name
<1> QED BY <1>1, <1>3, <1>4, <1>5, <1>6 DEF Story

\* A report of a worker.
LEMMA HandleRemoteStory ==
    ASSUME TypeInv, PlaceInv, StoryInv, HandleRemote
    PROVE  StoryInv'
<1> USE TunNodes
    DEF TypeInv, TypeOK, PrivilegedTypeOK, BackendTypeOK, PlaceInv, OneOwner
<1> DEFINE name == Head(remote).event
<1>1. Head(remote) \in RemoteEnvelope /\ remote \in Seq(RemoteEnvelope) /\ remote # <<>>
  BY DEF HandleRemote
<1>t. PICK t \in Sessions : t = Head(remote).session
  BY <1>1 DEF RemoteEnvelope
<1>2. /\ t \in Sessions /\ pc = "Select" /\ pc' = "Select" /\ remote' = Tail(remote)
      /\ UNCHANGED <<conn, requests, shutdownSent, failureReported, up, worker, nextSession>>
  BY <1>1 DEF HandleRemote, RemoteEnvelope, workerVars
<1>3. \A s \in Sessions : Only(remote, s, {}) => Only(remote', s, {})
  BY <1>1, <1>2, TailOwn
<1>4. \A s \in Sessions : conn'[s] \in {"None", "Listening"} => Blank(s)'
  BY <1>2, <1>3 DEF StoryInv, StoryOK, Blank
<1>5. IsEndReport(Head(remote)) <=> name \in Ends
  BY DEF IsEndReport, Ends
<1>6. CASE node # TunNode(t)
  <2>1. UNCHANGED <<node, attached, announced>>
    BY <1>t, <1>6 DEF HandleRemote
  <2>2. ASSUME NEW s \in Sessions, Engaged(s)' PROVE Held(s)' /\ Story(s)'
    <3>1. node = TunNode(s) /\ s # t
      BY <1>2, <1>6, <2>1, <2>2 DEF Engaged, TunNode
    <3>2. Alike(remote, remote', s)
      BY <1>t, <1>1, <1>2, <3>1, TailOther
    <3>3. Untouched(s) /\ Engaged(s)
      BY <1>2, <2>1, <3>1 DEF Untouched, Engaged
    <3> QED BY <2>1, <3>2, <3>3, UntouchedKeeps DEF StoryInv, StoryOK
  <2> QED BY <1>2, <1>4, <2>1, <2>2 DEF StoryInv, StoryOK, Told
<1>7. CASE node = TunNode(t) /\ name \in Ends
  <2>1. node' = NoNode
    BY <1>t, <1>5, <1>7 DEF HandleRemote
  <2>2. announced' = "Stopped"
    <3>1. CASE announced = "Stopped"
      BY <1>t, <1>7, <3>1 DEF HandleRemote, Ends, SendNothing
    <3>2. CASE announced # "Stopped"
      <4>1. name = "DisconnectedWithError"
        BY <1>t, <1>1, <1>2, <1>7, <3>2, OwnReport DEF Ends, Plain, WorkerEvent
      <4> QED BY <1>t, <1>7, <4>1 DEF HandleRemote
    <3> QED BY <3>1, <3>2
  <2>3. \A s \in Sessions : ~Engaged(s)'
    BY <1>2, <2>1 DEF Engaged, TunNode, NoNode
  <2> QED BY <1>2, <1>4, <2>1, <2>2, <2>3 DEF StoryInv, StoryOK, Told
<1>8. CASE node = TunNode(t) /\ name \notin Ends
  <2>1. UNCHANGED <<node, attached>>
    BY <1>t, <1>5, <1>8 DEF HandleRemote
  <2>2. \A s \in Sessions : Engaged(s)' => s = t
    BY <1>2, <1>8, <2>1 DEF Engaged, TunNode
  <2>3. Held(t)'
    BY <1>2, <1>8, <2>1 DEF StoryInv, StoryOK, Engaged, Held
  <2>4. CASE announced = "Starting" /\ name = "StartFailed"
             /\ worker[t] = "Exited" /\ FailReported(t) /\ Only(Tail(remote), t, Ends)
    <3>1. announced' = "Stopped"
      BY <1>t, <1>8, <2>4 DEF HandleRemote, Send, PhaseAfter, Event
    <3>2. FailTold(t)'
      BY <1>2, <2>4, <3>1 DEF FailReported, FailTold
    <3>3. Story(t)'
      BY <1>2, <2>4, <3>2 DEF Story
    <3> QED BY <1>2, <1>4, <1>8, <2>1, <2>2, <2>3, <3>3 DEF StoryInv, StoryOK, Told
  <2>5. CASE announced \in {"Starting", "Running"} /\ Unfailed(t)
             /\ name \in Plain /\ (announced = "Starting" => name \in Opening)
    <3>1. announced' = "Running"
      <4>1. name \in {"Started", "OperationFailed", "PeerStatus"}
        BY <1>8, <2>5 DEF Plain, WorkerEvent, Ends
      <4>2. CASE name = "Started"
        BY <1>t, <1>8, <4>2 DEF HandleRemote, Send, PhaseAfter
      <4>3. CASE name \in {"OperationFailed", "PeerStatus"}
        <5>1. announced = "Running"
          BY <2>5, <4>3 DEF Opening
        <5> QED BY <1>t, <1>8, <4>3, <5>1 DEF HandleRemote, Send, PhaseAfter, Event
      <4> QED BY <4>1, <4>2, <4>3
    <3>2. worker[t] \notin {"Launched", "Connected", "Starting"}
      <4>1. ~Only(remote, t, {})
        BY <1>t, <1>1, <1>2, TailOwn
      <4> QED BY <2>5, <4>1 DEF Unfailed
    <3>3. Only(remote', t, Plain)
      BY <1>1, <1>2, <2>5, TailOwn DEF Unfailed
    <3>4. Unfailed(t)'
      BY <1>2, <2>5, <3>1, <3>2, <3>3 DEF Unfailed
    <3>5. Story(t)'
      BY <3>4 DEF Story
    <3> QED BY <1>2, <1>4, <1>8, <2>1, <2>2, <2>3, <3>5 DEF StoryInv, StoryOK, Told
  <2> QED BY <1>t, <1>1, <1>2, <1>8, <2>4, <2>5, OwnReport
<1> QED BY <1>6, <1>7, <1>8

(***************************************************************************)
(* The theorems.                                                           *)
(***************************************************************************)

\* Every step of the network thread keeps StoryInv.
LEMMA NextStory ==
    ASSUME TypeInv, PlaceInv, StoryInv, [Next]_vars
    PROVE  StoryInv'
<1>1. CASE LoopStep
  <2>1. CASE Exit
    <3>1. /\ pc = "Exiting" /\ LoopGone' /\ UNCHANGED node
          /\ \A s \in Sessions : Blank(s)'
      BY <2>1 DEF Exit, LoopGone, DropAllLinks, Blank, Only
    <3>2. \A s \in Sessions : ~Engaged(s)'
      BY <3>1, TunNodes DEF Engaged, PlaceInv, OneOwner, TunNode, LoopGone
    <3> QED BY <3>1, <3>2 DEF StoryInv, StoryOK, Told, LoopGone
  <2>2. CASE ThreadEnds
    <3>1. /\ pc = "Joining" /\ pc' = "Done"
          /\ UNCHANGED <<privilegedVars, node, nextSession, announced>>
      BY <2>2 DEF ThreadEnds
    <3>2. ASSUME NEW s \in Sessions PROVE StoryOK(s)'
      <4>1. Untouched(s) /\ Alike(remote, remote', s) /\ (Engaged(s)' <=> Engaged(s))
        BY <3>1, AlikeSelf DEF privilegedVars, linkVars, workerVars, Untouched, Engaged, TunNode
      <4> QED BY <3>1, <4>1, UntouchedKeeps DEF StoryInv, StoryOK, Untouched
    <3> QED BY <3>1, <3>2 DEF StoryInv, Told
  <2> QED BY <1>1, <2>1, <2>2, CommandStepStory, CloseStepStory, StartStepStory, HandleRemoteStory
          DEF LoopStep
<1>2. CASE GuiCrash
  <2>1. pc' = "Done" /\ node' = NoNode /\ \A s \in Sessions : Blank(s)'
    BY <1>2 DEF GuiCrash, DropAllLinks, Blank, Only
  <2>2. \A s \in Sessions : ~Engaged(s)'
    BY <2>1 DEF Engaged, TunNode, NoNode
  <2> QED BY <2>1, <2>2 DEF StoryInv, StoryOK, Told
<1>3. ASSUME NEW t \in Sessions, WorkerOrLinkStep(t) PROVE StoryInv'
  <2>1. UNCHANGED backendVars
    BY <1>3 DEF WorkerOrLinkStep
  <2>2. ASSUME NEW s \in Sessions PROVE StoryOK(s)'
    BY <1>3, <2>1, LinkStepStory, WorkerStepStory
       DEF WorkerOrLinkStep, PrivilegedStep, StoryInv
  <2> QED BY <2>1, <2>2 DEF StoryInv, Told, backendVars, loopVars
<1>4. ASSUME UNCHANGED <<privilegedVars, pc, node, nextSession, announced>>
      PROVE  StoryInv'
  <2>1. ASSUME NEW s \in Sessions PROVE StoryOK(s)'
    <3>1. Untouched(s) /\ Alike(remote, remote', s) /\ (Engaged(s)' <=> Engaged(s))
      BY <1>4, AlikeSelf DEF privilegedVars, linkVars, workerVars, Untouched, Engaged, TunNode
    <3> QED BY <1>4, <3>1, UntouchedKeeps DEF StoryInv, StoryOK, Untouched
  <2> QED BY <1>4, <2>1 DEF StoryInv, Told
<1>5. CASE \/ StatusTick \/ TakeEvent \/ OtherInput \/ UNCHANGED vars
           \/ \E id \in Searches : DiscoveryFinishes(id)
           \/ \E command \in BackendCommand : SubmitCommand(command)
  BY <1>4, <1>5
     DEF StatusTick, TakeEvent, OtherInput, DiscoveryFinishes, SubmitCommand, Send, PhaseAfter, Event,
         vars, backendVars, loopVars
<1> QED BY <1>1, <1>2, <1>3, <1>5 DEF Next, SystemStep

\* StoryInv holds in every state, whatever fails.
LEMMA StoryHolds == Spec => []StoryInv
<1>1. Init => StoryInv
  <2> SUFFICES ASSUME Init PROVE StoryInv
    OBVIOUS
  <2>1. Told
    BY TunNodes DEF Init, Told
  <2>2. ASSUME NEW s \in Sessions PROVE Blank(s) /\ ~Engaged(s)
    BY DEF Init, PrivilegedInit, Blank, Only, Engaged, TunNode, NoNode
  <2> QED BY <2>1, <2>2 DEF StoryInv, StoryOK
<1> QED BY <1>1, NextStory, TypeCorrect, PlacesHold, PTL DEF Spec

\* Whenever the loop waits for work, what the window was told last is true of the
\* node it holds (backend.rs:282-309).
THEOREM AnnouncementTruthfulHolds == Spec => []AnnouncementTruthful
<1>1. StoryInv => AnnouncementTruthful
  BY DEF StoryInv, Told, AnnouncementTruthful
<1> QED BY <1>1, StoryHolds, PTL

\* An event that is not a status is not the last to come, where the last is one.
LEMMA SendsNoStatus ==
    ASSUME TypeInv, NEW event \in BackendEvent, event.event # "PeerStatus", Send(event)
    PROVE  events'[Len(events')] # Event("PeerStatus")
<1>1. events \in Seq(BackendEvent) /\ events' = Append(events, event)
  BY DEF TypeInv, TypeOK, HandleTypeOK, Send
<1>2. events'[Len(events')] = event
  BY <1>1
<1> QED BY <1>2 DEF Event

\* Going on after a close sends no peer status.
LEMMA ResumeSendsNoStatus ==
    ASSUME TypeInv, NEW command, Resume(command), Len(events') > Len(events)
    PROVE  events'[Len(events')] # Event("PeerStatus")
<1>1. events \in Seq(BackendEvent)
  BY DEF TypeInv, TypeOK, HandleTypeOK
<1>2. CASE command.command = "Start"
  BY <1>2, SendsNoStatus, EventTypes DEF Resume, Event
<1>3. CASE command.command = "Stop"
  BY <1>3, SendsNoStatus, EventTypes DEF Resume, Event
<1>4. CASE command.command \notin {"Start", "Stop"}
  BY <1>1, <1>4 DEF Resume, SendNothing
<1> QED BY <1>2, <1>3, <1>4

\* A step that sends a peer status is the report of a node announced as running.
LEMMA StatusStep ==
    ASSUME TypeInv, StoryInv, Next, Len(events') > Len(events),
           events'[Len(events')] = Event("PeerStatus")
    PROVE  announced = "Running"
<1>1. events \in Seq(BackendEvent)
  BY DEF TypeInv, TypeOK, HandleTypeOK
<1>2. events' # events
  BY <1>1
<1>3. CASE HandleLifecycle \/ CloseStep
  BY <1>2, <1>3, ResumeSendsNoStatus
     DEF HandleLifecycle, CloseStep, CloseLocal, CloseCompletes, CloseTimesOut, AfterClose,
         SendNothing
<1>4. CASE HandlePeerEdit
  BY <1>2, <1>4, SendsNoStatus, EventTypes DEF HandlePeerEdit, SendNothing, Event
<1>5. CASE StartStep
  <2>1. CASE StartNodeFails
    BY <2>1, SendsNoStatus, EventTypes DEF StartNodeFails, Event
  <2>2. CASE StartLocal
    <3>1. pending.config.mode \in NodeMode
      BY <2>2, CommandTypes
         DEF StartLocal, TypeInv, TypeOK, BackendTypeOK, PendingStart
    <3>2. [event |-> "Started", mode |-> pending.config.mode] \in BackendEvent
      BY <3>1, EventTypes
    <3> QED BY <2>2, <3>2, SendsNoStatus DEF StartLocal
  <2> QED BY <1>2, <1>5, <2>1, <2>2
          DEF StartStep, StartTun, StartTunFails, Accept, LauncherExits, ElevationTimesOut,
              SendStart, SendStartFails, StartLocalFails
<1>6. CASE HandleRemote
  <2>1. Head(remote) \in RemoteEnvelope /\ remote # <<>>
    BY <1>6 DEF HandleRemote, TypeInv, TypeOK, PrivilegedTypeOK
  <2>2. PICK t \in Sessions : t = Head(remote).session
    BY <2>1 DEF RemoteEnvelope
  <2>3. node = TunNode(t)
    BY <1>2, <1>6, <2>2 DEF HandleRemote
  <2>4. CASE Head(remote).event = "Started"
    BY <1>6, <2>2, <2>3, <2>4, SendsNoStatus, EventTypes DEF HandleRemote, NodeMode
  <2>5. CASE Head(remote).event \in {"StartFailed", "OperationFailed"}
    BY <1>6, <2>2, <2>3, <2>5, SendsNoStatus, EventTypes DEF HandleRemote, Event
  <2>6. CASE Head(remote).event = "PeerStatus"
    BY <2>1, <2>2, <2>3, <2>6, OwnReport DEF Ends, Opening
  <2>7. CASE Head(remote).event = "DisconnectedWithError"
    <3>1. events' = events \o <<Event("Stopped"), Event("Failed")>>
      BY <1>6, <2>2, <2>3, <2>7 DEF HandleRemote
    <3>2. events'[Len(events')] = Event("Failed")
      BY <1>1, <3>1, EventTypes
    <3> QED BY <3>2 DEF Event
  <2>8. CASE Head(remote).event = "Disconnected"
    BY <1>2, <1>6, <2>2, <2>3, <2>8 DEF HandleRemote, SendNothing
  <2> QED BY <2>1, <2>4, <2>5, <2>6, <2>7, <2>8 DEF RemoteEnvelope, WorkerEvent
<1>7. CASE StatusTick
  BY <1>7 DEF StatusTick, StoryInv, Told
<1>8. ASSUME NEW id \in Searches, DiscoveryFinishes(id)
      PROVE  FALSE
  BY <1>8, SendsNoStatus, EventTypes DEF DiscoveryFinishes
<1>9. CASE TakeEvent \/ OtherInput
  BY <1>1, <1>9 DEF TakeEvent, OtherInput
<1>10. CASE \/ HandleDiscover \/ Exit \/ ThreadEnds \/ GuiCrash
            \/ \E s \in Sessions : WorkerOrLinkStep(s)
            \/ \E command \in BackendCommand : SubmitCommand(command)
  BY <1>2, <1>10
     DEF HandleDiscover, Exit, ThreadEnds, GuiCrash, WorkerOrLinkStep, SubmitCommand, backendVars,
         handleVars
<1> QED BY <1>3, <1>4, <1>5, <1>6, <1>7, <1>8, <1>9, <1>10
        DEF Next, SystemStep, LoopStep, CommandStep

\* Peer status is sent only of a node that was announced as running, so late
\* reports of an older session never repaint the peer list (backend.rs:280-294).
THEOREM StatusOnlyWhileRunningHolds == Spec => StatusOnlyWhileRunning
<1> DEFINE Step == Len(events') > Len(events) /\ events'[Len(events')] = Event("PeerStatus")
                     => announced = "Running"
<1>1. TypeInv /\ StoryInv /\ [Next]_vars => [Step]_vars
  BY StatusStep
<1> QED BY <1>1, TypeCorrect, StoryHolds, PTL DEF Spec, StatusOnlyWhileRunning

\* What a step may announce.
MayTell ==
    \/ announced' \in {announced, "Starting", "Stopped"}
    \/ announced = "Starting" /\ announced' = "Running"
    \/ announced = "Running" /\ announced' = "Running"

\* Going on after a close tells the window one of NodeLifecycle's steps.
LEMMA ResumeTells ==
    ASSUME NEW command, Resume(command) PROVE MayTell
BY DEF Resume, Send, SendNothing, PhaseAfter, Event, MayTell

\* Every step announces what NodeLifecycle allows, or nothing.
LEMMA NextTells ==
    ASSUME TypeInv, PlaceInv, StoryInv, Next
    PROVE  MayTell /\ (LoopGone => LoopGone' /\ announced' = announced)
           /\ (~LoopGone /\ LoopGone' => announced' = announced)
<1> USE DEF MayTell, LoopGone
<1>1. CASE HandleLifecycle
  BY <1>1, ResumeTells DEF HandleLifecycle, Receive, SendNothing, Resume, Return
<1>2. CASE CloseStep
  BY <1>2, ResumeTells
     DEF CloseStep, CloseLocal, CloseCompletes, CloseTimesOut, AfterClose, Resume, Return
<1>3. CASE HandlePeerEdit
  BY <1>3 DEF HandlePeerEdit, Receive, SendNothing, Send, PhaseAfter, Event
<1>4. CASE StartStep
  <2>1. announced = "Starting" /\ ~LoopGone /\ ~LoopGone'
    BY <1>4 DEF StartStep, StartTun, StartTunFails, Accept, LauncherExits,
                ElevationTimesOut, SendStart, SendStartFails, StartLocal, StartLocalFails,
                StartNodeFails, Return, StoryInv, Told
  <2>2. announced' \in {"Stopped", "Starting", "Running"}
    BY <1>4, StartStepTypes DEF TypeInv, TypeOK, BackendTypeOK
  <2> QED BY <2>1, <2>2
<1>5. CASE HandleRemote
  <2>1. Head(remote) \in RemoteEnvelope /\ remote # <<>> /\ pc = "Select" /\ pc' = "Select"
    BY <1>5 DEF HandleRemote, TypeInv, TypeOK, PrivilegedTypeOK
  <2>2. PICK t \in Sessions : t = Head(remote).session
    BY <2>1 DEF RemoteEnvelope
  <2>3. CASE node # TunNode(t)
    BY <1>5, <2>1, <2>2, <2>3 DEF HandleRemote
  <2>4. CASE node = TunNode(t)
    <3>1. announced = "Stopped" => Head(remote).event \in Ends
      BY <2>1, <2>2, <2>4, OwnReport
    <3>2. Head(remote).event \in Ends => announced' \in {announced, "Stopped"}
      BY <1>5, <2>2, <2>4 DEF HandleRemote, Ends, SendNothing
    <3>3. announced' \in {"Stopped", "Starting", "Running"} /\ announced \in {"Stopped", "Starting", "Running"}
      BY <1>5, OtherStepTypes DEF TypeInv, TypeOK, BackendTypeOK
    <3> QED BY <2>1, <3>1, <3>2, <3>3
  <2> QED BY <2>3, <2>4
<1>6. CASE \/ HandleDiscover \/ Exit \/ ThreadEnds \/ GuiCrash \/ StatusTick \/ TakeEvent \/ OtherInput
           \/ \E id \in Searches : DiscoveryFinishes(id)
           \/ \E s \in Sessions : WorkerOrLinkStep(s)
           \/ \E command \in BackendCommand : SubmitCommand(command)
  <2>1. announced' = announced
    BY <1>6 DEF HandleDiscover, Exit, ThreadEnds, GuiCrash, StatusTick, TakeEvent, OtherInput, DiscoveryFinishes,
                WorkerOrLinkStep, SubmitCommand, Send, PhaseAfter, Event, backendVars, loopVars
  <2>2. LoopGone => LoopGone'
    BY <1>6 DEF HandleDiscover, Receive, Exit, ThreadEnds, GuiCrash, StatusTick, TakeEvent, OtherInput,
                DiscoveryFinishes, WorkerOrLinkStep, SubmitCommand, backendVars, loopVars
  <2> QED BY <2>1, <2>2
<1> QED BY <1>1, <1>2, <1>3, <1>4, <1>5, <1>6 DEF Next, SystemStep, LoopStep, CommandStep

\* The network thread keeps what NodeLifecycle promises the window: the initial
\* state maps to its initial state and every step to a step of it or none.
THEOREM LifecycleSafeHolds == Spec => LifecycleSafe
<1>1. Init => Lifecycle!Init
  BY DEF Init, LoopGone, Lifecycle!Init
<1>2. TypeInv /\ PlaceInv /\ StoryInv /\ [Next]_vars
        => [Lifecycle!Next]_(Lifecycle!lifecycleVars)
  <2> SUFFICES ASSUME TypeInv, PlaceInv, StoryInv, [Next]_vars
               PROVE  [Lifecycle!Next]_(Lifecycle!lifecycleVars)
    OBVIOUS
  <2> USE DEF Lifecycle!Next, Lifecycle!lifecycleVars, Lifecycle!Begin, Lifecycle!Succeed,
              Lifecycle!Fail, Lifecycle!End, Lifecycle!Quit, Lifecycle!Tell
  <2>1. CASE UNCHANGED vars
    BY <2>1 DEF vars, backendVars, loopVars, LoopGone
  <2>2. CASE Next
    <3>1. /\ MayTell
          /\ LoopGone => LoopGone' /\ announced' = announced
          /\ ~LoopGone /\ LoopGone' => announced' = announced
      BY <2>2, NextTells
    <3>2. announced \in {"Stopped", "Starting", "Running"}
      BY DEF TypeInv, TypeOK, BackendTypeOK
    <3> QED BY <3>1, <3>2 DEF MayTell, LoopGone
  <2> QED BY <2>1, <2>2
<1> QED BY <1>1, <1>2, TypeCorrect, PlacesHold, StoryHolds, PTL
        DEF Spec, LifecycleSafe, Lifecycle!Safe
=============================================================================
