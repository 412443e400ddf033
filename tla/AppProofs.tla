------------------------------ MODULE AppProofs ------------------------------
(***************************************************************************)
(* Proofs about the whole application, for every value of the constants:   *)
(* it implements the network thread's specification, so that what is       *)
(* proved of the thread holds in it, and the window ends in agreement with *)
(* the thread and the node, whatever fails.                                *)
(***************************************************************************)
EXTENDS Drosophila, StoryProofs

(***************************************************************************)
(* The application is a system of the network thread and some window.      *)
(***************************************************************************)

\* The window's variables, and that a window is open only beside a thread.
WindowOK ==
    /\ {open, running, transitioning, switchOn, cardSensitive, modeSensitive,
        deleteSensitive} \subseteq BOOLEAN
    /\ config \in Config
    /\ missed \subseteq {"edit", "ending"}
    /\ open => ~LoopGone

\* An edit of the peer list leaves a configuration.
LEMMA EditTypes ==
    ASSUME config \in Config, NEW edit \in PeerEdit
    PROVE  [config EXCEPT !.peers = EditPeers(@, edit)] \in Config
BY DEF Config, PeerEdit, EditPeers

\* What the user does, keeps the window's types.
LEMMA UserWindow ==
    ASSUME WindowOK, User
    PROVE  WindowOK'
<1> USE DEF WindowOK, LoopGone
<1>1. pc' = pc /\ missed' \subseteq {"edit", "ending"}
  BY DEF User, loopVars, TrackEdits
<1>2. CASE FlipSwitch
  BY <1>1, <1>2 DEF FlipSwitch, SetControlsSensitive
<1>3. ASSUME NEW mode \in Modes, SelectMode(mode)
      PROVE  WindowOK'
  BY <1>1, <1>3 DEF SelectMode, Config
<1>4. ASSUME NEW peer \in Peers, AddPeer(peer) \/ RemovePeer(peer)
      PROVE  WindowOK'
  <2>1. PICK edit \in PeerEdit : EditPeerList(edit) /\ open' = open
    BY <1>4 DEF AddPeer, RemovePeer, PeerEdit, EditPeerList
  <2> QED BY <1>1, <2>1, EditTypes DEF EditPeerList
<1>5. CASE CloseWindow
  BY <1>1, <1>5 DEF CloseWindow
<1> QED BY <1>2, <1>3, <1>4, <1>5 DEF User, UserStep

\* So does an event.
LEMMA PumpWindow ==
    ASSUME WindowOK, Pump
    PROVE  WindowOK'
<1> USE DEF LoopGone
<1>1. /\ UNCHANGED <<open, config, pc>>
      /\ missed' \subseteq {"edit", "ending"}
  BY DEF Pump, HandleEvent, loopVars, WindowOK
<1>2. CASE ShowStarting
  BY <1>1, <1>2 DEF WindowOK, ShowStarting, SetControlsSensitive
<1>3. CASE ShowStarted
  BY <1>1, <1>3 DEF WindowOK, ShowStarted, SetControlsSensitive
<1>4. CASE ShowStopped
  BY <1>1, <1>4 DEF WindowOK, ShowStopped, SetControlsSensitive
<1>5. CASE ShowNothing
  BY <1>1, <1>5 DEF WindowOK, ShowNothing
<1> QED BY <1>2, <1>3, <1>4, <1>5 DEF Pump, HandleEvent

\* The window is well formed in every state.
LEMMA WindowHolds == AppSpec => []WindowOK
<1>1. AppInit => WindowOK
  BY WindowAssumption DEF AppInit, WindowInit, Init, WindowOK, LoopGone
<1>2. WindowOK /\ [AppNext]_allVars => WindowOK'
  <2> SUFFICES ASSUME WindowOK, [AppNext]_allVars PROVE WindowOK'
    OBVIOUS
  <2>1. CASE System
    BY <2>1 DEF System, WindowOK, HandleEvent
  <2>2. CASE UNCHANGED allVars
    BY <2>2 DEF allVars, appVars, windowVars, vars, backendVars, loopVars, WindowOK, LoopGone
  <2> QED BY <2>1, <2>2, UserWindow, PumpWindow DEF AppNext
<1> QED BY <1>1, <1>2, PTL DEF AppSpec

\* A click sends one command or none.
LEMMA UserIsInput ==
    ASSUME WindowOK, User
    PROVE  \/ OtherInput
           \/ \E command \in BackendCommand : SubmitCommand(command)
<1> SUFFICES ASSUME ~OtherInput
             PROVE  \E command \in BackendCommand : SubmitCommand(command)
  OBVIOUS
<1>1. open /\ ~LoopGone
  BY DEF WindowOK, User, UserStep, FlipSwitch, SelectMode, AddPeer, RemovePeer, CloseWindow
<1>2. ASSUME NEW command \in BackendCommand, Post(command), UNCHANGED events
      PROVE  SubmitCommand(command)
  BY <1>1, <1>2 DEF SubmitCommand, User
<1>3. CASE FlipSwitch
  <2>1. commands' # commands
    BY <1>3 DEF FlipSwitch, User, OtherInput
  <2>2. [command |-> "Start", config |-> config] \in BackendCommand
        /\ [command |-> "Stop"] \in BackendCommand
    BY DEF WindowOK, BackendCommand
  <2> QED BY <1>2, <1>3, <2>1, <2>2 DEF FlipSwitch
<1>4. ASSUME NEW mode \in Modes, SelectMode(mode) PROVE FALSE
  BY <1>4 DEF SelectMode, User, OtherInput
<1>5. ASSUME NEW peer \in Peers, AddPeer(peer) \/ RemovePeer(peer)
      PROVE  \E command \in BackendCommand : SubmitCommand(command)
  <2>1. PICK edit \in PeerEdit : EditPeerList(edit)
    BY <1>5 DEF AddPeer, RemovePeer, PeerEdit
  <2>2. edit \in BackendCommand
    BY DEF BackendCommand
  <2> QED BY <1>2, <2>1, <2>2 DEF EditPeerList, User, OtherInput
<1>6. CASE CloseWindow
  <2>1. ShutdownCommand \in BackendCommand
    BY DEF ShutdownCommand, BackendCommand
  <2> QED BY <1>2, <1>6, <2>1 DEF CloseWindow
<1> QED BY <1>3, <1>4, <1>5, <1>6 DEF User, UserStep

\* The whole application implements the network thread's specification: the
\* window is one of those that Backend allows.
THEOREM ApplicationIsBackend == AppSpec => Spec
<1>1. AppInit => Init
  BY DEF AppInit
<1>2. WindowOK /\ [AppNext]_allVars => [Next]_vars
  <2> SUFFICES ASSUME WindowOK, AppNext PROVE [Next]_vars
    BY DEF allVars
  <2>1. CASE Pump
    BY <2>1 DEF Pump, HandleEvent, Next, TakeEvent
  <2> QED BY <2>1, UserIsInput DEF AppNext, System, Next
<1> QED BY <1>1, <1>2, WindowHolds, PTL DEF AppSpec, Spec

\* Hence, in the whole application too, one tunnel exists at a time and none
\* after a stop, as long as no close() gives up; the end of a session is always
\* reported, a session that was given up ends, and what is announced is true.
THEOREM ThreadInvariants ==
    AppSpec => [](/\ SessionInv /\ OneTunnel /\ StoppedMeansDown
                  /\ EndIsReported /\ AbandonedLinksEnd /\ AnnouncementTruthful)
BY ApplicationIsBackend, SessionsOwned, OneTunnelHolds, StoppedMeansDownHolds,
   EndIsReportedHolds, AbandonedLinksEndHolds, AnnouncementTruthfulHolds, PTL

\* ... and the events that reach the window follow the node lifecycle.
THEOREM EventsFollowLifecycle == AppSpec => LifecycleSafe /\ StatusOnlyWhileRunning
BY ApplicationIsBackend, LifecycleSafeHolds, StatusOnlyWhileRunningHolds

\* What is known of the thread, for the proofs below.
ThreadInv == TypeInv /\ PlaceInv /\ StoryInv

\* It holds of the thread in the application, too.
LEMMA ThreadHolds == AppSpec => []ThreadInv
BY ApplicationIsBackend, TypeCorrect, PlacesHold, StoryHolds, PTL DEF ThreadInv

(***************************************************************************)
(* The switch and the controls.                                            *)
(***************************************************************************)

\* Clicks and events keep the switch truthful.
LEMMA SwitchStep ==
    ASSUME WindowOK, SwitchTruthful, AppNext
    PROVE  SwitchTruthful'
<1> USE DEF WindowOK, SwitchTruthful
<1>1. CASE FlipSwitch
  BY <1>1 DEF FlipSwitch, SetControlsSensitive
<1>2. ASSUME UNCHANGED <<running, transitioning, switchOn, cardSensitive, modeSensitive>>,
             open' => open
      PROVE  SwitchTruthful'
  BY <1>2
<1>3. CASE \/ \E mode \in Modes : SelectMode(mode)
           \/ \E peer \in Peers : AddPeer(peer) \/ RemovePeer(peer)
           \/ CloseWindow
  <2>1. /\ UNCHANGED <<running, transitioning, switchOn, cardSensitive, modeSensitive>>
        /\ open' => open
    BY <1>3 DEF SelectMode, AddPeer, RemovePeer, EditPeerList, CloseWindow
  <2> QED BY <1>2, <2>1
<1>4. CASE System
  BY <1>4 DEF System
<1>5. CASE Pump
  <2>1. CASE ShowStarting
    BY <2>1 DEF ShowStarting
  <2>2. CASE ShowStarted
    BY <2>2 DEF ShowStarted, SetControlsSensitive
  <2>3. CASE ShowStopped
    BY <2>3 DEF ShowStopped, SetControlsSensitive
  <2>4. CASE ShowNothing
    BY <1>5, <2>4 DEF ShowNothing, Pump, HandleEvent
  <2> QED BY <1>5, <2>1, <2>2, <2>3, <2>4 DEF Pump, HandleEvent
<1> QED BY <1>1, <1>3, <1>4, <1>5 DEF AppNext, User, UserStep

\* Whenever no start or stop is under way, the switch shows whether a node runs,
\* and the controls accept what they should (app.rs:420-470).
THEOREM SwitchTruthfulHolds == AppSpec => []SwitchTruthful
<1>1. AppInit => SwitchTruthful
  BY DEF AppInit, WindowInit, SwitchTruthful
<1>2. WindowOK /\ SwitchTruthful /\ [AppNext]_allVars => SwitchTruthful'
  <2>1. UNCHANGED allVars /\ SwitchTruthful => SwitchTruthful'
    BY DEF allVars, appVars, windowVars, SwitchTruthful
  <2> QED BY <2>1, SwitchStep
<1> QED BY <1>1, <1>2, WindowHolds, PTL DEF AppSpec

(***************************************************************************)
(* The window and the thread agree when nothing is on its way.             *)
(***************************************************************************)

WindowPhase ==
    IF transitioning THEN "Starting" ELSE IF running THEN "Running" ELSE "Stopped"

\* An event that says where the node is, whatever the window believed.
Definite(event) == event.event \in {"Starting", "Started", "Stopped"}

\* A window in the given phase that reads these events will be in phase `told`:
\* the last definite event decides, and a Failed that follows a start.
From(phase, waiting, k) == IF k = 0 THEN phase ELSE PhaseAfter(phase, waiting[k].event)

Decides(waiting, k) ==
    /\ k # 0 => Definite(waiting[k])
    /\ \A i \in 1..Len(waiting) : i > k => ~Definite(waiting[i])

FailsAfter(waiting, k) == \E i \in 1..Len(waiting) : i > k /\ waiting[i].event = "Failed"

Foretells(phase, waiting, told) ==
    \E k \in 0..Len(waiting) :
        /\ Decides(waiting, k)
        /\ told = IF From(phase, waiting, k) = "Starting" /\ FailsAfter(waiting, k)
                  THEN "Stopped" ELSE From(phase, waiting, k)

\* Start, Stop and Shutdown: what they are answered with decides anew.
LifecycleCommand(command) == command.command \in {"Start", "Stop", "Shutdown"}

Unanswered ==
    \/ \E i \in 1..Len(commands) : LifecycleCommand(commands[i])
    \/ pc \in {"Closing", "Exiting", "Joining", "Done"}

AgreeInv == open => Unanswered \/ Foretells(WindowPhase, events, announced)

\* More of a sequence, and less.
LEMMA SeqFacts ==
    ASSUME NEW T, NEW q \in Seq(T), NEW e \in T
    PROVE  /\ Append(q, e) \in Seq(T)
           /\ Len(Append(q, e)) = Len(q) + 1
           /\ \A i \in 1..Len(q) : Append(q, e)[i] = q[i]
           /\ Append(q, e)[Len(q) + 1] = e
           /\ q # <<>> =>
                /\ Head(q) \in T /\ Tail(q) \in Seq(T)
                /\ Len(q) \in Nat \ {0} /\ Len(Tail(q)) = Len(q) - 1
                /\ Head(q) = q[1]
                /\ \A i \in 1..Len(Tail(q)) : Tail(q)[i] = q[i + 1]
OBVIOUS

\* One more event, told after what was told, is foretold as well.
LEMMA ForetellsSent ==
    ASSUME NEW waiting \in Seq(BackendEvent), NEW event \in BackendEvent, NEW phase,
           NEW told, Foretells(phase, waiting, told) \/ Definite(event)
    PROVE  Foretells(phase, Append(waiting, event), PhaseAfter(told, event.event))
<1> DEFINE q == Append(waiting, event)
           after == PhaseAfter(told, event.event)
<1>0. /\ Len(q) = Len(waiting) + 1 /\ Len(waiting) \in Nat
      /\ \A i \in 1..Len(waiting) : q[i] = waiting[i]
      /\ q[Len(waiting) + 1] = event
  BY SeqFacts
<1>1. CASE Definite(event)
  <2>1. after = PhaseAfter(phase, event.event)
    BY <1>1 DEF Definite, PhaseAfter
  <2> HIDE DEF q, after
  <2>2. Len(q) \in 0..Len(q) /\ Len(q) # 0
    BY <1>0
  <2>3. Decides(q, Len(q)) /\ ~FailsAfter(q, Len(q))
    BY <1>0, <1>1 DEF Decides, FailsAfter
  <2>4. From(phase, q, Len(q)) = after
    BY <1>0, <2>1, <2>2 DEF From
  <2> QED BY <2>2, <2>3, <2>4 DEF Foretells, q, after
<1>2. CASE ~Definite(event)
  <2>1. PICK k \in 0..Len(waiting) :
          /\ Decides(waiting, k)
          /\ told = IF From(phase, waiting, k) = "Starting" /\ FailsAfter(waiting, k)
                    THEN "Stopped" ELSE From(phase, waiting, k)
    BY <1>2 DEF Foretells
  <2>2. after = IF told = "Starting" /\ event.event = "Failed" THEN "Stopped" ELSE told
    BY <1>2 DEF Definite, PhaseAfter
  <2> HIDE DEF q, after
  <2>3. k \in 0..Len(q) /\ From(phase, q, k) = From(phase, waiting, k)
    BY <1>0 DEF From
  <2>4. Decides(q, k)
    BY <1>0, <1>2, <2>1 DEF Decides
  <2>5. FailsAfter(q, k) <=> FailsAfter(waiting, k) \/ event.event = "Failed"
    BY <1>0 DEF FailsAfter
  <2>6. after = IF From(phase, q, k) = "Starting" /\ FailsAfter(q, k)
                THEN "Stopped" ELSE From(phase, q, k)
    BY <2>1, <2>2, <2>3, <2>5
  <2> QED BY <2>3, <2>4, <2>6 DEF Foretells, q, after
<1> QED BY <1>1, <1>2

\* Reading an event leaves a window that is told the same by the rest.
LEMMA ForetellsRead ==
    ASSUME NEW waiting \in Seq(BackendEvent), waiting # <<>>, NEW phase, NEW told,
           Foretells(phase, waiting, told)
    PROVE  Foretells(PhaseAfter(phase, Head(waiting).event), Tail(waiting), told)
<1> DEFINE q == Tail(waiting)
           next == PhaseAfter(phase, Head(waiting).event)
<1>0. /\ Len(waiting) \in Nat \ {0} /\ Len(q) = Len(waiting) - 1
      /\ Head(waiting) = waiting[1]
      /\ \A i \in 1..Len(q) : q[i] = waiting[i + 1]
  BY SeqFacts
<1>1. PICK k \in 0..Len(waiting) :
        /\ Decides(waiting, k)
        /\ told = IF From(phase, waiting, k) = "Starting" /\ FailsAfter(waiting, k)
                  THEN "Stopped" ELSE From(phase, waiting, k)
  BY DEF Foretells
<1> HIDE DEF q
<1>2. \A i \in 2..Len(waiting) : i - 1 \in 1..Len(q) /\ q[i - 1] = waiting[i]
  BY <1>0
<1>3. CASE k # 0
  <2> DEFINE j == k - 1
  <2>1. j \in 0..Len(q) /\ k = j + 1
    BY <1>0, <1>3
  <2> HIDE DEF j
  <2>2. Definite(waiting[k])
    BY <1>1, <1>3 DEF Decides
  <2>3. j # 0 => q[j] = waiting[k]
    BY <1>0, <2>1
  <2>4. Decides(q, j)
    BY <1>0, <1>1, <2>1, <2>2, <2>3 DEF Decides
  <2>5. FailsAfter(q, j) <=> FailsAfter(waiting, k)
    <3>1. ASSUME NEW i \in 1..Len(q), i > j, q[i].event = "Failed"
          PROVE  FailsAfter(waiting, k)
      <4>1. i + 1 \in 1..Len(waiting) /\ i + 1 > k /\ waiting[i + 1].event = "Failed"
        BY <1>0, <2>1, <3>1
      <4> QED BY <4>1 DEF FailsAfter
    <3>2. ASSUME NEW i \in 1..Len(waiting), i > k, waiting[i].event = "Failed"
          PROVE  FailsAfter(q, j)
      <4>1. i - 1 \in 1..Len(q) /\ i - 1 > j /\ q[i - 1].event = "Failed"
        BY <1>0, <1>2, <2>1, <3>2
      <4> QED BY <4>1 DEF FailsAfter
    <3> QED BY <3>1, <3>2 DEF FailsAfter
  <2>6. From(next, q, j) = From(phase, waiting, k)
    BY <1>0, <1>3, <2>1, <2>2, <2>3 DEF From, Definite, PhaseAfter
  <2> HIDE DEF next
  <2>7. told = IF From(next, q, j) = "Starting" /\ FailsAfter(q, j)
               THEN "Stopped" ELSE From(next, q, j)
    BY <1>1, <2>5, <2>6
  <2> QED BY <2>1, <2>4, <2>7 DEF Foretells, next, q
<1>4. CASE k = 0
  <2>1. ~Definite(waiting[1]) /\ Decides(q, 0)
    BY <1>0, <1>1, <1>4 DEF Decides
  <2>2. next = IF phase = "Starting" /\ waiting[1].event = "Failed" THEN "Stopped"
               ELSE phase
    BY <1>0, <2>1 DEF Definite, PhaseAfter
  <2>3. FailsAfter(waiting, 0) <=> waiting[1].event = "Failed" \/ FailsAfter(q, 0)
    BY <1>0, <1>2 DEF FailsAfter
  <2> HIDE DEF next
  <2>4. told = IF From(next, q, 0) = "Starting" /\ FailsAfter(q, 0)
               THEN "Stopped" ELSE From(next, q, 0)
    BY <1>1, <1>4, <2>2, <2>3 DEF From
  <2>5. 0 \in 0..Len(q)
    BY <1>0
  <2> QED BY <2>1, <2>4, <2>5 DEF Foretells, next, q
<1> QED BY <1>3, <1>4

\* An event moves the window as PhaseAfter says, and nothing else of it matters.
LEMMA ReadPhase ==
    ASSUME WindowOK, events \in Seq(BackendEvent), HandleEvent
    PROVE  WindowPhase' = PhaseAfter(WindowPhase, Head(events).event)
<1> DEFINE event == Head(events).event
<1>1. event \in {"Starting", "Started", "Stopped", "Failed", "PeerStatus",
                 "DiscoveryFinished"}
  BY SeqFacts DEF HandleEvent, BackendEvent
<1>2. CASE event = "Starting"
  BY <1>2 DEF HandleEvent, ShowStarting, WindowPhase, PhaseAfter
<1>3. CASE event = "Started"
  BY <1>3 DEF HandleEvent, ShowStarted, WindowPhase, PhaseAfter
<1>4. CASE event = "Stopped"
  BY <1>4 DEF HandleEvent, ShowStopped, WindowPhase, PhaseAfter
<1>5. CASE event = "Failed"
  BY <1>5 DEF HandleEvent, ShowStopped, ShowNothing, WindowPhase, PhaseAfter
<1>6. CASE event \in {"PeerStatus", "DiscoveryFinished"}
  BY <1>6 DEF HandleEvent, ShowNothing, WindowPhase, PhaseAfter
<1> QED BY <1>1, <1>2, <1>3, <1>4, <1>5, <1>6

\* What the thread sends in one step: nothing, one event, or the pair that ends a
\* node with an error.  What it announces follows.
Sends ==
    \/ UNCHANGED <<events, announced>>
    \/ \E event \in BackendEvent : Send(event)
    \/ /\ events' = events \o <<Event("Stopped"), Event("Failed")>>
       /\ announced' = "Stopped"

\* Going on after a close sends what the command is answered with.
LEMMA ResumeSends ==
    ASSUME NEW command \in BackendCommand, Resume(command)
    PROVE  /\ Sends
           /\ command.command = "Start" => Send(Event("Starting"))
           /\ command.command = "Stop" => Send(Event("Stopped"))
           /\ command.command \notin {"Start", "Stop"} =>
                pc' = "Exiting" /\ UNCHANGED <<events, announced>>
BY EventTypes DEF Resume, Sends, SendNothing

\* Every step of the thread, its connections and its workers does.
LEMMA SystemSends ==
    ASSUME TypeInv, SystemStep
    PROVE  Sends
<1>0. pending \in BackendCommand
  BY DEF TypeInv, TypeOK, BackendTypeOK
<1>1. CASE CommandStep
  <2>1. commands # <<>> => Head(commands) \in BackendCommand
    BY DEF TypeInv, TypeOK, HandleTypeOK
  <2>2. CASE HandleLifecycle
    BY <2>1, <2>2, ResumeSends DEF HandleLifecycle, Receive, Sends, SendNothing
  <2>3. CASE HandlePeerEdit \/ HandleDiscover
    BY <2>3, EventTypes DEF HandlePeerEdit, HandleDiscover, Sends, SendNothing
  <2> QED BY <1>1, <2>2, <2>3 DEF CommandStep
<1>2. CASE CloseStep
  BY <1>0, <1>2, ResumeSends
     DEF CloseStep, CloseLocal, CloseCompletes, CloseTimesOut, AfterClose
<1>3. CASE StartStep
  <2>1. CASE StartLocal
    <3>1. pending.config.mode \in NodeMode
      BY <2>1, CommandTypes DEF StartLocal, TypeInv, TypeOK, BackendTypeOK, PendingStart
    <3> QED BY <2>1, <3>1, EventTypes DEF StartLocal, Sends
  <2>2. CASE StartNodeFails
    BY <2>2, EventTypes DEF StartNodeFails, Sends
  <2> QED BY <1>3, <2>1, <2>2
          DEF StartStep, StartTun, StartTunFails, Accept, LauncherExits, ElevationTimesOut,
              SendStart, SendStartFails, StartLocalFails, Sends
<1>4. CASE HandleRemote
  <2>1. "Tun" \in NodeMode
    BY DEF NodeMode
  <2> QED BY <1>4, <2>1, EventTypes DEF HandleRemote, Sends, SendNothing
<1>5. CASE StatusTick
  BY <1>5, EventTypes DEF StatusTick, Sends
<1>6. ASSUME NEW id \in Searches, DiscoveryFinishes(id)
      PROVE  Sends
  BY <1>6, EventTypes DEF DiscoveryFinishes, Sends
<1>7. CASE Exit \/ ThreadEnds \/ GuiCrash \/ \E s \in Sessions : WorkerOrLinkStep(s)
  BY <1>7 DEF Exit, ThreadEnds, GuiCrash, WorkerOrLinkStep, backendVars, handleVars,
              loopVars, Sends
<1> QED BY <1>1, <1>2, <1>3, <1>4, <1>5, <1>6, <1>7 DEF SystemStep, LoopStep

\* What was foretold before the thread sent something, is so after.
LEMMA ForetellsSystem ==
    ASSUME TypeInv, Sends, Foretells(WindowPhase, events, announced),
           UNCHANGED <<running, transitioning>>
    PROVE  Foretells(WindowPhase, events, announced)'
<1>0. events \in Seq(BackendEvent)
  BY DEF TypeInv, TypeOK, HandleTypeOK
<1>1. WindowPhase' = WindowPhase
  BY DEF WindowPhase
<1>2. CASE UNCHANGED <<events, announced>>
  BY <1>1, <1>2
<1>3. ASSUME NEW event \in BackendEvent, Send(event)
      PROVE  Foretells(WindowPhase, events, announced)'
  BY <1>0, <1>1, <1>3, ForetellsSent DEF Send
<1>4. CASE /\ events' = events \o <<Event("Stopped"), Event("Failed")>>
           /\ announced' = "Stopped"
  <2> DEFINE first == Append(events, Event("Stopped"))
  <2>1. Event("Stopped") \in BackendEvent /\ Event("Failed") \in BackendEvent
    BY EventTypes
  <2>2. events' = Append(first, Event("Failed")) /\ first \in Seq(BackendEvent)
    BY <1>0, <1>4, <2>1
  <2>3. PhaseAfter(announced, "Stopped") = "Stopped" /\ PhaseAfter("Stopped", "Failed") = "Stopped"
    BY DEF PhaseAfter
  <2>4. Foretells(WindowPhase, first, "Stopped")
    BY <1>0, <2>1, <2>3, ForetellsSent DEF Event
  <2> HIDE DEF first
  <2>5. Foretells(WindowPhase, Append(first, Event("Failed")), "Stopped")
    BY <2>1, <2>2, <2>3, <2>4, ForetellsSent DEF Event
  <2> QED BY <1>1, <1>4, <2>2, <2>5
<1> QED BY <1>2, <1>3, <1>4 DEF Sends

\* Only the step that handles a start, a stop or a shutdown, or goes on with it
\* after a close, answers it.
LEMMA StaysUnanswered ==
    ASSUME TypeInv, SystemStep, Unanswered, ~HandleLifecycle, ~CloseStep
    PROVE  Unanswered'
<1>0. commands \in Seq(BackendCommand)
  BY DEF TypeInv, TypeOK, HandleTypeOK
<1>1. CASE HandlePeerEdit \/ HandleDiscover
  <2>1. /\ pc = "Select" /\ commands # <<>> /\ commands' = Tail(commands)
        /\ ~LifecycleCommand(Head(commands))
    BY <1>1 DEF HandlePeerEdit, HandleDiscover, Receive, LifecycleCommand
  <2>2. PICK i \in 1..Len(commands) : LifecycleCommand(commands[i])
    BY <2>1 DEF Unanswered
  <2>3. /\ i - 1 \in 1..Len(commands')
        /\ commands'[i - 1] = commands[i]
    BY <1>0, <2>1, <2>2, SeqFacts
  <2> QED BY <2>2, <2>3 DEF Unanswered
<1>2. CASE StartStep
  <2>1. pc \notin {"Closing", "Exiting", "Joining", "Done"} /\ commands' = commands
    BY <1>2 DEF StartStep, StartTun, StartTunFails, Accept, LauncherExits,
                ElevationTimesOut, SendStart, SendStartFails, StartLocal, StartLocalFails,
                StartNodeFails
  <2> QED BY <2>1 DEF Unanswered
<1>3. CASE Exit \/ ThreadEnds \/ GuiCrash
  BY <1>3 DEF Exit, ThreadEnds, LoopGone, GuiCrash, Unanswered
<1>4. CASE \/ HandleRemote \/ StatusTick
           \/ \E id \in Searches : DiscoveryFinishes(id)
           \/ \E s \in Sessions : WorkerOrLinkStep(s)
  <2>1. UNCHANGED <<pc, commands>>
    BY <1>4 DEF HandleRemote, StatusTick, DiscoveryFinishes, WorkerOrLinkStep,
                backendVars, handleVars, loopVars
  <2> QED BY <2>1 DEF Unanswered
<1> QED BY <1>1, <1>2, <1>3, <1>4 DEF SystemStep, LoopStep, CommandStep

\* What answers it says where the node is, or ends the loop.
LEMMA Answered ==
    ASSUME TypeInv, HandleLifecycle \/ CloseStep, UNCHANGED <<running, transitioning>>
    PROVE  (Unanswered \/ Foretells(WindowPhase, events, announced))'
<1>0. events \in Seq(BackendEvent) /\ pending \in BackendCommand
  BY DEF TypeInv, TypeOK, HandleTypeOK, BackendTypeOK
<1>1. ASSUME NEW command \in BackendCommand, Resume(command)
      PROVE  (Unanswered \/ Foretells(WindowPhase, events, announced))'
  <2>1. WindowPhase' = WindowPhase
    BY DEF WindowPhase
  <2>2. ASSUME NEW event \in BackendEvent, Definite(event), Send(event)
        PROVE  Foretells(WindowPhase, events, announced)'
    BY <1>0, <2>1, <2>2, ForetellsSent DEF Send
  <2>3. CASE command.command = "Start"
    <3>1. Event("Starting") \in BackendEvent /\ Definite(Event("Starting"))
      BY EventTypes DEF Definite, Event
    <3> QED BY <1>1, <2>2, <2>3, <3>1, ResumeSends
  <2>4. CASE command.command = "Stop"
    <3>1. Event("Stopped") \in BackendEvent /\ Definite(Event("Stopped"))
      BY EventTypes DEF Definite, Event
    <3> QED BY <1>1, <2>2, <2>4, <3>1, ResumeSends
  <2>5. CASE command.command \notin {"Start", "Stop"}
    BY <1>1, <2>5, ResumeSends DEF Unanswered
  <2> QED BY <2>3, <2>4, <2>5
<1>2. CASE HandleLifecycle
  <2>1. Head(commands) \in BackendCommand
    BY <1>2, SeqFacts DEF HandleLifecycle, Receive, TypeInv, TypeOK, HandleTypeOK
  <2> QED BY <1>1, <1>2, <2>1 DEF HandleLifecycle, Unanswered
<1>3. CASE CloseStep
  BY <1>0, <1>1, <1>3 DEF CloseStep, CloseLocal, CloseCompletes, CloseTimesOut, AfterClose
<1> QED BY <1>2, <1>3

\* A command that the user sends waits at the end of the queue.
LEMMA PostKeeps ==
    ASSUME TypeInv, NEW command \in BackendCommand, Post(command)
    PROVE  /\ Len(commands') = Len(commands) + 1 /\ Len(commands) \in Nat
           /\ \A i \in 1..Len(commands) : commands'[i] = commands[i]
           /\ commands'[Len(commands) + 1] = command
<1>1. commands \in Seq(BackendCommand)
  BY DEF TypeInv, TypeOK, HandleTypeOK
<1> QED BY <1>1, SeqFacts DEF Post

\* What the user can do: flip the switch to start or stop, edit the peers, or
\* something the thread is not told of.
LEMMA UserCases ==
    ASSUME WindowOK, User, open'
    PROVE  \/ /\ ~transitioning /\ transitioning' /\ UNCHANGED <<running, config>>
              /\ \E command \in BackendCommand :
                   /\ Post(command)
                   /\ \/ command = [command |-> "Start", config |-> config] /\ ~running
                      \/ command.command = "Stop" /\ running
              /\ modeSensitive' = FALSE
           \/ \E edit \in PeerEdit :
                /\ config' = [config EXCEPT !.peers = EditPeers(@, edit)]
                /\ IF running THEN Post(edit) ELSE UNCHANGED commands
                /\ UNCHANGED <<running, transitioning, modeSensitive>>
           \/ \E mode \in Modes :
                /\ modeSensitive
                /\ config' = [config EXCEPT !.mode = mode]
                /\ UNCHANGED <<running, transitioning, modeSensitive, commands>>
           \/ UNCHANGED <<running, transitioning, modeSensitive, config, commands>>
<1> USE DEF WindowOK
<1>1. CASE FlipSwitch
  <2>0. /\ switchOn \in BOOLEAN /\ running \in BOOLEAN
        /\ ((~switchOn) = running) <=> (switchOn # running)
    OBVIOUS
  <2>1. CASE transitioning \/ switchOn # running
    <3>1. transitioning \/ (~switchOn) = running
      BY <2>0, <2>1
    <3> QED BY <1>1, <3>1 DEF FlipSwitch
  <2>2. CASE ~transitioning /\ switchOn = running
    <3>0. ~(transitioning \/ (~switchOn) = running)
      BY <2>0, <2>2
    <3>1. /\ transitioning' = TRUE /\ UNCHANGED <<running, config>>
          /\ SetControlsSensitive(FALSE)
          /\ Post(IF ~switchOn THEN [command |-> "Start", config |-> config]
                  ELSE [command |-> "Stop"])
      BY <1>1, <3>0 DEF FlipSwitch
    <3>2. modeSensitive' = FALSE
      BY <3>1 DEF SetControlsSensitive
    <3>3. /\ [command |-> "Start", config |-> config] \in BackendCommand
          /\ [command |-> "Stop"] \in BackendCommand
      BY DEF BackendCommand
    <3>4. CASE switchOn
      BY <2>2, <3>1, <3>2, <3>3, <3>4
    <3>5. CASE ~switchOn
      BY <2>2, <3>1, <3>2, <3>3, <3>5
    <3> QED BY <3>4, <3>5
  <2> QED BY <2>1, <2>2
<1>2. ASSUME NEW mode \in Modes, SelectMode(mode)
      PROVE  \E m \in Modes :
               /\ modeSensitive
               /\ config' = [config EXCEPT !.mode = m]
               /\ UNCHANGED <<running, transitioning, modeSensitive, commands>>
  BY <1>2 DEF SelectMode
<1>3. ASSUME NEW peer \in Peers, AddPeer(peer) \/ RemovePeer(peer)
      PROVE  \E edit \in PeerEdit :
               /\ config' = [config EXCEPT !.peers = EditPeers(@, edit)]
               /\ IF running THEN Post(edit) ELSE UNCHANGED commands
               /\ UNCHANGED <<running, transitioning, modeSensitive>>
  <2>1. PICK edit \in PeerEdit : EditPeerList(edit)
    BY <1>3 DEF AddPeer, RemovePeer, PeerEdit
  <2> QED BY <2>1 DEF EditPeerList
<1>4. CASE CloseWindow
  BY <1>4 DEF CloseWindow
<1> QED BY <1>1, <1>2, <1>3, <1>4 DEF User, UserStep

\* The user neither takes a command back nor changes what is told.
LEMMA UserAgrees ==
    ASSUME TypeInv, WindowOK, AgreeInv, User
    PROVE  AgreeInv'
<1> SUFFICES ASSUME open' PROVE (Unanswered \/ Foretells(WindowPhase, events, announced))'
  BY DEF AgreeInv
<1>1. UNCHANGED <<events, announced, pc>>
  <2>1. UNCHANGED <<announced, pc>>
    BY DEF User, loopVars
  <2>2. UNCHANGED events
    BY DEF User, UserStep, FlipSwitch, SelectMode, AddPeer, RemovePeer, EditPeerList,
           CloseWindow
  <2> QED BY <2>1, <2>2
<1>2. open
  BY DEF User, UserStep, FlipSwitch, SelectMode, AddPeer, RemovePeer, EditPeerList,
         CloseWindow
<1>3. ASSUME NEW command \in BackendCommand, Post(command), LifecycleCommand(command)
      PROVE  Unanswered'
  <2>1. Len(commands) + 1 \in 1..Len(commands')
        /\ LifecycleCommand(commands'[Len(commands) + 1])
    BY <1>3, PostKeeps
  <2> QED BY <2>1 DEF Unanswered
<1>4. ASSUME \/ UNCHANGED commands
             \/ \E command \in BackendCommand : Post(command)
      PROVE  Unanswered => Unanswered'
  <2>1. CASE UNCHANGED commands
    BY <1>1, <2>1 DEF Unanswered
  <2>2. ASSUME NEW command \in BackendCommand, Post(command)
        PROVE  Unanswered => Unanswered'
    <3>1. ASSUME NEW i \in 1..Len(commands), LifecycleCommand(commands[i])
          PROVE  Unanswered'
      <4>1. i \in 1..Len(commands') /\ commands'[i] = commands[i]
        BY <2>2, PostKeeps
      <4> QED BY <3>1, <4>1 DEF Unanswered
    <3> QED BY <1>1, <3>1 DEF Unanswered
  <2> QED BY <1>4, <2>1, <2>2
<1>5. ASSUME UNCHANGED <<running, transitioning>>,
             UNCHANGED commands \/ \E command \in BackendCommand : Post(command)
      PROVE  (Unanswered \/ Foretells(WindowPhase, events, announced))'
  <2>1. WindowPhase' = WindowPhase
    BY <1>5 DEF WindowPhase
  <2>2. Unanswered => Unanswered'
    BY <1>4, <1>5
  <2>3. Foretells(WindowPhase, events, announced)
          => Foretells(WindowPhase', events', announced')
    BY <1>1, <2>1
  <2> QED BY <1>2, <2>2, <2>3 DEF AgreeInv
<1>6. ASSUME NEW command \in BackendCommand, Post(command),
             \/ command = [command |-> "Start", config |-> config]
             \/ command.command = "Stop"
      PROVE  Unanswered'
  BY <1>3, <1>6 DEF LifecycleCommand
<1>7. ASSUME NEW edit \in PeerEdit,
             IF running THEN Post(edit) ELSE UNCHANGED commands
      PROVE  UNCHANGED commands \/ \E command \in BackendCommand : Post(command)
  <2>1. edit \in BackendCommand
    BY DEF BackendCommand
  <2> QED BY <1>7, <2>1
<1> QED BY <1>5, <1>6, <1>7, UserCases

\* Reading an event leaves the rest to tell the same.
LEMMA PumpAgrees ==
    ASSUME TypeInv, WindowOK, AgreeInv, Pump
    PROVE  AgreeInv'
<1> SUFFICES ASSUME open' PROVE (Unanswered \/ Foretells(WindowPhase, events, announced))'
  BY DEF AgreeInv
<1>1. /\ open /\ events # <<>> /\ events' = Tail(events)
      /\ UNCHANGED <<commands, announced, pc>>
  BY DEF Pump, HandleEvent, loopVars
<1>2. Unanswered => Unanswered'
  BY <1>1 DEF Unanswered
<1>3. ASSUME Foretells(WindowPhase, events, announced)
      PROVE  Foretells(WindowPhase, events, announced)'
  <2>1. events \in Seq(BackendEvent)
    BY DEF TypeInv, TypeOK, HandleTypeOK
  <2>2. WindowPhase' = PhaseAfter(WindowPhase, Head(events).event)
    BY <2>1, ReadPhase DEF Pump
  <2>3. Foretells(PhaseAfter(WindowPhase, Head(events).event), Tail(events), announced)
    BY <1>1, <1>3, <2>1, ForetellsRead
  <2> QED BY <1>1, <2>2, <2>3
<1> QED BY <1>1, <1>2, <1>3 DEF AgreeInv

\* The events on their way always tell the window where the node is, unless a
\* start, a stop or a shutdown is still to be answered.
LEMMA AgreeHolds == AppSpec => []AgreeInv
<1>1. AppInit => AgreeInv
  <2> SUFFICES ASSUME AppInit PROVE Foretells(WindowPhase, events, announced)
    BY DEF AgreeInv
  <2>1. events = <<>> /\ announced = "Stopped" /\ WindowPhase = "Stopped"
    BY DEF AppInit, Init, HandleInit, WindowInit, WindowPhase
  <2>2. Decides(events, 0) /\ 0 \in 0..Len(events) /\ From("Stopped", events, 0) = "Stopped"
    BY <2>1 DEF Decides, From
  <2> QED BY <2>1, <2>2 DEF Foretells
<1>2. TypeInv /\ WindowOK /\ AgreeInv /\ [AppNext]_allVars => AgreeInv'
  <2> SUFFICES ASSUME TypeInv, WindowOK, AgreeInv, [AppNext]_allVars PROVE AgreeInv'
    OBVIOUS
  <2>1. CASE System
    <3>1. /\ SystemStep /\ (open' => open)
          /\ UNCHANGED <<running, transitioning>>
      BY <2>1 DEF System
    <3>2. CASE HandleLifecycle \/ CloseStep
      BY <3>1, <3>2, Answered DEF AgreeInv
    <3>3. CASE ~HandleLifecycle /\ ~CloseStep
      BY <3>1, <3>3, StaysUnanswered, SystemSends, ForetellsSystem DEF AgreeInv
    <3> QED BY <3>2, <3>3
  <2>2. CASE UNCHANGED allVars
    <3>1. UNCHANGED <<open, running, transitioning, events, announced, commands, pc>>
      BY <2>2 DEF allVars, appVars, windowVars, vars, backendVars, handleVars, loopVars
    <3>2. WindowPhase' = WindowPhase /\ (Unanswered => Unanswered')
      BY <3>1 DEF WindowPhase, Unanswered
    <3> QED BY <3>1, <3>2 DEF AgreeInv
  <2> QED BY <2>1, <2>2, UserAgrees, PumpAgrees DEF AppNext
<1>3. AppSpec => []TypeInv
  BY ThreadHolds, PTL DEF ThreadInv
<1> QED BY <1>1, <1>2, <1>3, WindowHolds, PTL DEF AppSpec

\* A window that is told nothing stays as it is.
LEMMA NothingTold ==
    ASSUME NEW phase, NEW told, Foretells(phase, <<>>, told)
    PROVE  phase = told
<1>1. PICK k \in 0..0 :
        told = IF From(phase, <<>>, k) = "Starting" /\ FailsAfter(<<>>, k)
               THEN "Stopped" ELSE From(phase, <<>>, k)
  BY DEF Foretells
<1>2. k = 0 /\ ~FailsAfter(<<>>, k)
  BY <1>1 DEF FailsAfter
<1> QED BY <1>1, <1>2 DEF From

\* With nothing on its way, the window is in the phase that was announced.
LEMMA SettledPhase ==
    ASSUME AgreeInv, open, Settled
    PROVE  WindowPhase = announced
BY NothingTold DEF AgreeInv, Settled, Unanswered

\* When nothing is on its way the window shows what it was told last, although
\* a Failed means what the window takes it for and clicks cross events
\* (app.rs:456-461).
THEOREM WindowAgreesHolds == AppSpec => []WindowAgrees
<1>1. WindowOK /\ AgreeInv => WindowAgrees
  BY SettledPhase DEF WindowAgrees, WindowPhase, WindowOK
<1> QED BY <1>1, WindowHolds, AgreeHolds, PTL

(***************************************************************************)
(* The node has the peers that the window lists.                           *)
(***************************************************************************)

\* What a command does to the peers of whom it reaches.
Concerns(command, peer) ==
    \/ command.command = "Start"
    \/ command.command \in {"AddPeer", "RemovePeer"} /\ command.peer = peer

Grants(command, peer) ==
    \/ command.command = "Start" /\ peer \in command.config.peers
    \/ command.command = "AddPeer" /\ command.peer = peer

\* The peers after one command, and after those that wait: for each peer the
\* last command that concerns it decides.
Effect(peers, command) ==
    {p \in Peers : Grants(command, p) \/ (p \in peers /\ ~Concerns(command, p))}

After(queue, peers) ==
    {p \in Peers :
        \/ \E i \in 1..Len(queue) :
             /\ Grants(queue[i], p)
             /\ \A j \in (i + 1)..Len(queue) : ~Concerns(queue[j], p)
        \/ /\ p \in peers
           /\ \A j \in 1..Len(queue) : ~Concerns(queue[j], p)}

IsStart(command) == command.command = "Start"

StartWaits == \E i \in 1..Len(commands) : IsStart(commands[i])

\* What is on its way to session s, then what waits for the loop.
TunPeers(s) == After(requests[s], After(down[s], livePeers[s]))

\* A worker that was accepted and may still serve.
Serving(s) == worker[s] \in {"Connected", "Starting", "Running"}

\* Whoever will be the node has the window's peers when it has read all that is
\* on its way: the start that waits, the start in progress, or the node.
PeersArrive ==
    /\ StartWaits => After(commands, {}) = config.peers
    /\ IsStart(pending) => After(commands, pending.config.peers) = config.peers
    /\ node = LocalNode => After(commands, localPeers) = config.peers
    /\ \A s \in Sessions :
         node = TunNode(s) /\ Serving(s) => After(commands, TunPeers(s)) = config.peers

PeersInv == open /\ "edit" \notin missed => PeersArrive

\* No start is in progress where the loop waits, or is about to end.
PendingDone == pc \in {"Select", "Exiting", "Joining", "Done"} => ~IsStart(pending)

\* One more command at the end has its effect last.
LEMMA AfterAppend ==
    ASSUME NEW T, NEW queue \in Seq(T), NEW command \in T, NEW peers
    PROVE  After(Append(queue, command), peers) = Effect(After(queue, peers), command)
<1> DEFINE q == Append(queue, command)
<1>1. /\ Len(queue) \in Nat /\ Len(q) = Len(queue) + 1
      /\ \A i \in 1..Len(queue) : q[i] = queue[i]
      /\ q[Len(queue) + 1] = command
  BY SeqFacts
<1> HIDE DEF q
<1>2. ASSUME NEW p \in Peers
      PROVE  p \in After(q, peers) <=>
               Grants(command, p) \/ (p \in After(queue, peers) /\ ~Concerns(command, p))
  <2>1. ASSUME NEW i \in 1..Len(queue)
        PROVE  (\A j \in (i + 1)..Len(q) : ~Concerns(q[j], p)) <=>
                 (\A j \in (i + 1)..Len(queue) : ~Concerns(queue[j], p)) /\ ~Concerns(command, p)
    BY <1>1
  <2>2. (\A j \in 1..Len(q) : ~Concerns(q[j], p)) <=>
          (\A j \in 1..Len(queue) : ~Concerns(queue[j], p)) /\ ~Concerns(command, p)
    BY <1>1
  <2>3. (\A j \in ((Len(queue) + 1) + 1)..Len(q) : ~Concerns(q[j], p))
    BY <1>1
  <2>4. (\E i \in 1..Len(q) : Grants(q[i], p) /\ \A j \in (i + 1)..Len(q) : ~Concerns(q[j], p))
          <=> \/ Grants(command, p)
              \/ \E i \in 1..Len(queue) :
                   /\ Grants(queue[i], p)
                   /\ \A j \in (i + 1)..Len(q) : ~Concerns(q[j], p)
    <3>1. \A i \in 1..Len(q) : i \in 1..Len(queue) \/ i = Len(queue) + 1
      BY <1>1
    <3>2. Len(queue) + 1 \in 1..Len(q) /\ \A i \in 1..Len(queue) : i \in 1..Len(q)
      BY <1>1
    <3> QED BY <1>1, <2>3, <3>1, <3>2, Zenon
  <2> QED BY <2>1, <2>2, <2>4 DEF After
<1> QED BY <1>2 DEF After, Effect, q

\* The first command may as well have had its effect.
LEMMA AfterTail ==
    ASSUME NEW T, NEW queue \in Seq(T), queue # <<>>, NEW peers
    PROVE  After(queue, peers) = After(Tail(queue), Effect(peers, Head(queue)))
<1> DEFINE q == Tail(queue)
           first == Head(queue)
<1>1. /\ Len(queue) \in Nat \ {0} /\ Len(q) = Len(queue) - 1
      /\ first = queue[1]
      /\ \A i \in 1..Len(q) : q[i] = queue[i + 1]
  BY SeqFacts
<1> HIDE DEF q, first
<1>2. \A i \in 2..Len(queue) : i - 1 \in 1..Len(q) /\ q[i - 1] = queue[i]
  BY <1>1
<1>3. ASSUME NEW p \in Peers
      PROVE  p \in After(queue, peers) <=> p \in After(q, Effect(peers, first))
  <2>1. ASSUME NEW i \in 1..Len(q)
        PROVE  (\A j \in (i + 1)..Len(q) : ~Concerns(q[j], p)) <=>
                 \A j \in (i + 2)..Len(queue) : ~Concerns(queue[j], p)
    BY <1>1, <1>2
  <2>2. (\A j \in 1..Len(q) : ~Concerns(q[j], p)) <=>
          \A j \in 2..Len(queue) : ~Concerns(queue[j], p)
    BY <1>1, <1>2
  <2>3. (\A j \in 1..Len(queue) : ~Concerns(queue[j], p)) <=>
          ~Concerns(first, p) /\ \A j \in 2..Len(queue) : ~Concerns(queue[j], p)
    BY <1>1
  <2>4. (\E i \in 1..Len(queue) :
           Grants(queue[i], p) /\ \A j \in (i + 1)..Len(queue) : ~Concerns(queue[j], p))
          <=> \/ Grants(first, p) /\ \A j \in 2..Len(queue) : ~Concerns(queue[j], p)
              \/ \E i \in 1..Len(q) :
                   /\ Grants(q[i], p)
                   /\ \A j \in (i + 2)..Len(queue) : ~Concerns(queue[j], p)
    <3>1. ASSUME NEW i \in 1..Len(queue), Grants(queue[i], p),
                 \A j \in (i + 1)..Len(queue) : ~Concerns(queue[j], p), i # 1
          PROVE  \E k \in 1..Len(q) :
                   /\ Grants(q[k], p)
                   /\ \A j \in (k + 2)..Len(queue) : ~Concerns(queue[j], p)
      <4>1. i - 1 \in 1..Len(q) /\ q[i - 1] = queue[i] /\ (i - 1) + 2 = i + 1
        BY <1>2, <3>1
      <4> QED BY <3>1, <4>1
    <3>2. ASSUME NEW k \in 1..Len(q), Grants(q[k], p),
                 \A j \in (k + 2)..Len(queue) : ~Concerns(queue[j], p)
          PROVE  \E i \in 1..Len(queue) :
                   Grants(queue[i], p) /\ \A j \in (i + 1)..Len(queue) : ~Concerns(queue[j], p)
      <4>1. k + 1 \in 1..Len(queue) /\ queue[k + 1] = q[k] /\ (k + 1) + 1 = k + 2
        BY <1>1
      <4> QED BY <3>2, <4>1
    <3>3. 1 \in 1..Len(queue) /\ 1 + 1 = 2
      BY <1>1
    <3> QED BY <1>1, <3>1, <3>2, <3>3
  <2>5. p \in Effect(peers, first) <=> Grants(first, p) \/ (p \in peers /\ ~Concerns(first, p))
    BY DEF Effect
  <2> QED BY <2>1, <2>2, <2>3, <2>4, <2>5 DEF After
<1> QED BY <1>3 DEF After, q, first

\* Nothing, an edit, a start and the other commands.
LEMMA Effects ==
    /\ \A peers \in SUBSET Peers : After(<<>>, peers) = peers
    /\ \A queue, peers : After(queue, peers) \subseteq Peers
    /\ \A peers \in SUBSET Peers, edit \in PeerEdit :
         Effect(peers, edit) = EditPeers(peers, edit)
    /\ \A peers, command :
         IsStart(command) /\ command.config.peers \subseteq Peers =>
           Effect(peers, command) = command.config.peers
    /\ \A peers \in SUBSET Peers : \A command :
         command.command \notin {"Start", "AddPeer", "RemovePeer"} =>
           Effect(peers, command) = peers
BY DEF After, Effect, Grants, Concerns, PeerEdit, EditPeers, IsStart

\* After a start it does not matter what was before.
LEMMA AfterStart ==
    ASSUME NEW queue, \E i \in 1..Len(queue) : IsStart(queue[i]), NEW peers, NEW others
    PROVE  After(queue, peers) = After(queue, others)
<1>1. \A p : ~\A j \in 1..Len(queue) : ~Concerns(queue[j], p)
  BY DEF Concerns, IsStart
<1> QED BY <1>1 DEF After

\* A start in progress is forgotten when the loop selects again.
LEMMA PendingDoneHolds == Spec => []PendingDone
<1> USE DEF PendingDone, IsStart, Idle
<1>1. Init => PendingDone
  BY DEF Init
<1>2. TypeInv /\ PendingDone /\ [Next]_vars => PendingDone'
  <2> SUFFICES ASSUME TypeInv, PendingDone, [Next]_vars PROVE PendingDone'
    OBVIOUS
  <2>1. ASSUME NEW command, Resume(command) PROVE PendingDone'
    BY <2>1 DEF Resume, Return
  <2>2. CASE CommandStep
    BY <2>1, <2>2 DEF CommandStep, HandleLifecycle, HandlePeerEdit, HandleDiscover, Receive
  <2>3. CASE CloseStep
    BY <2>1, <2>3 DEF CloseStep, CloseLocal, CloseCompletes, CloseTimesOut, AfterClose
  <2>4. CASE StartStep
    BY <2>4 DEF StartStep, StartTun, StartTunFails, Accept, LauncherExits, ElevationTimesOut,
                SendStart, SendStartFails, StartLocal, StartLocalFails, StartNodeFails, Return
  <2>5. CASE HandleRemote \/ StatusTick \/ \E id \in Searches : DiscoveryFinishes(id)
    BY <2>5 DEF HandleRemote, StatusTick, DiscoveryFinishes
  <2>6. CASE Exit \/ ThreadEnds \/ GuiCrash
    BY <2>6 DEF Exit, ThreadEnds, LoopGone, GuiCrash
  <2>7. CASE \/ \E s \in Sessions : WorkerOrLinkStep(s)
             \/ \E command \in BackendCommand : SubmitCommand(command)
             \/ OtherInput \/ TakeEvent \/ UNCHANGED vars
    BY <2>7 DEF WorkerOrLinkStep, SubmitCommand, OtherInput, TakeEvent, vars, backendVars,
                loopVars
  <2> QED BY <2>2, <2>3, <2>4, <2>5, <2>6, <2>7 DEF Next, SystemStep, LoopStep
<1> QED BY <1>1, <1>2, TypeCorrect, PTL DEF Spec

\* A start that waits takes its own copy of the list.
LEMMA StartDecides ==
    ASSUME commands \in Seq(BackendCommand), PeersArrive, StartWaits, NEW peers
    PROVE  After(commands, peers) = config.peers
BY AfterStart DEF PeersArrive, StartWaits

\* What the user does leaves the right peers to arrive.
LEMMA UserPeers ==
    ASSUME TypeInv, WindowOK, PeersInv, User
    PROVE  PeersInv'
<1> SUFFICES ASSUME open', "edit" \notin missed' PROVE PeersArrive'
  BY DEF PeersInv
<1>0. /\ commands \in Seq(BackendCommand) /\ config.peers \subseteq Peers
      /\ localPeers \in SUBSET Peers /\ pending \in BackendCommand
  BY DEF TypeInv, TypeOK, HandleTypeOK, BackendTypeOK, WindowOK, Config
<1>1. /\ UNCHANGED <<pending, node, localPeers, requests, down, livePeers, worker>>
      /\ TrackEdits /\ open
  <2>1. open
    BY DEF User, UserStep, FlipSwitch, SelectMode, AddPeer, RemovePeer, EditPeerList,
           CloseWindow
  <2> QED BY <2>1 DEF User, privilegedVars, linkVars, workerVars, loopVars
<1>2. (\A s \in Sessions : TunPeers(s)' = TunPeers(s)) /\ (\A s \in Sessions : Serving(s)' <=> Serving(s))
  BY <1>1 DEF TunPeers, Serving
<1>3. \A command : Post(command) =>
        /\ commands' = Append(commands, command)
        /\ command \in BackendCommand =>
             \A peers : After(commands', peers) = Effect(After(commands, peers), command)
  BY <1>0, AfterAppend DEF Post
<1>4. ASSUME NEW command \in BackendCommand, Post(command),
             \/ command = [command |-> "Start", config |-> config]
             \/ command.command = "Stop",
             UNCHANGED config
      PROVE  PeersArrive'
  <2>1. /\ Len(commands') = Len(commands) + 1 /\ Len(commands) \in Nat
        /\ \A i \in 1..Len(commands) : commands'[i] = commands[i]
        /\ commands'[Len(commands) + 1] = command
    BY <1>4, PostKeeps
  <2>2. CASE command = [command |-> "Start", config |-> config]
    <3>1. IsStart(command) /\ command.config.peers = config.peers
      BY <2>2 DEF IsStart
    <3>2. \A peers : After(commands', peers) = config'.peers
      BY <1>0, <1>3, <1>4, <3>1, Effects
    <3> QED BY <3>2 DEF PeersArrive
  <2>3. CASE command.command = "Stop"
    <3>1. missed' = missed
      BY <1>1, <1>4, <2>1, <2>3 DEF TrackEdits, Asked
    <3>2. \A peers : After(commands', peers) = After(commands, peers)
      <4>1. \A peers : Effect(After(commands, peers), command) = After(commands, peers)
        BY <2>3, Effects
      <4> QED BY <1>3, <1>4, <4>1
    <3>3. StartWaits' => StartWaits
      BY <2>1, <2>3 DEF StartWaits, IsStart
    <3>4. PeersArrive
      BY <1>1, <3>1 DEF PeersInv
    <3> QED BY <1>1, <1>2, <1>4, <3>2, <3>3, <3>4 DEF PeersArrive
  <2> QED BY <1>4, <2>2, <2>3
<1>5. ASSUME UNCHANGED commands, config'.peers = config.peers
      PROVE  PeersArrive'
  <2>1. missed' = missed
    BY <1>0, <1>1, <1>5 DEF TrackEdits, Asked
  <2> QED BY <1>1, <1>2, <1>5, <2>1 DEF PeersInv, PeersArrive, StartWaits
<1>6. ASSUME NEW edit \in PeerEdit,
             config' = [config EXCEPT !.peers = EditPeers(@, edit)],
             IF running THEN Post(edit) ELSE UNCHANGED commands
      PROVE  PeersArrive'
  <2>1. config'.peers = EditPeers(config.peers, edit)
    BY <1>6 DEF WindowOK, Config
  <2>2. CASE ~running
    <3>1. ~Asked("Start") /\ UNCHANGED commands
      BY <1>0, <1>6, <2>2 DEF Asked
    <3>2. config'.peers = config.peers
      BY <1>1, <2>2, <3>1 DEF TrackEdits
    <3> QED BY <1>5, <3>1, <3>2
  <2>3. CASE running
    <3>0. edit \in BackendCommand /\ edit.command \in {"AddPeer", "RemovePeer"}
      BY DEF BackendCommand, PeerEdit
    <3>1. /\ Len(commands') = Len(commands) + 1 /\ Len(commands) \in Nat
          /\ \A i \in 1..Len(commands) : commands'[i] = commands[i]
          /\ commands'[Len(commands) + 1] = edit
      BY <1>6, <2>3, <3>0, PostKeeps
    <3>2. missed' = missed
      BY <1>1, <2>3, <3>0, <3>1 DEF TrackEdits, Asked
    <3>3. \A peers : After(commands', peers) = EditPeers(After(commands, peers), edit)
      BY <1>3, <1>6, <2>3, <3>0, Effects
    <3>4. StartWaits' => StartWaits
      BY <3>0, <3>1 DEF StartWaits, IsStart
    <3>5. PeersArrive
      BY <1>1, <3>2 DEF PeersInv
    <3> QED BY <1>1, <1>2, <2>1, <3>3, <3>4, <3>5 DEF PeersArrive
  <2> QED BY <2>2, <2>3 DEF WindowOK
<1>7. ASSUME NEW mode, config' = [config EXCEPT !.mode = mode]
      PROVE  config'.peers = config.peers
  BY <1>7 DEF WindowOK, Config
<1> QED BY <1>4, <1>5, <1>6, <1>7, UserCases

\* What the thread does with the next command, the window's list being as it was.
LEMMA CommandPeers ==
    ASSUME TypeInv, StoryInv, PendingDone, PeersArrive, CommandStep, UNCHANGED config,
           ~EditRejected
    PROVE  PeersArrive'
<1>0. /\ commands \in Seq(BackendCommand) /\ localPeers \in SUBSET Peers
      /\ pending \in BackendCommand /\ node \in ActiveNode
      /\ requests \in [Sessions -> Seq(WorkerCommand)]
      /\ conn \in [Sessions -> ConnState]
      /\ events \in Seq(BackendEvent)
  BY DEF TypeInv, TypeOK, HandleTypeOK, BackendTypeOK, PrivilegedTypeOK
<1>1. /\ pc = "Select" /\ commands # <<>> /\ commands' = Tail(commands)
      /\ UNCHANGED <<down, livePeers, worker, config>>
  BY DEF CommandStep, HandleLifecycle, HandlePeerEdit, HandleDiscover, Receive, Request,
         privilegedVars, workerVars
<1> DEFINE first == Head(commands)
<1>2. first \in BackendCommand
      /\ \A peers : After(commands, peers) = After(commands', Effect(peers, first))
  BY <1>0, <1>1, AfterTail, SeqFacts
<1>3. StartWaits' => \A peers : After(commands', peers) = config'.peers
  <2>1. StartWaits' => StartWaits
    <3>1. ASSUME NEW i \in 1..Len(commands'), IsStart(commands'[i])
          PROVE  StartWaits
      <4>1. i + 1 \in 1..Len(commands) /\ commands[i + 1] = commands'[i]
        BY <1>0, <1>1, SeqFacts
      <4> QED BY <3>1, <4>1 DEF StartWaits
    <3> QED BY <3>1 DEF StartWaits
  <2>2. StartWaits' => \A peers, others : After(commands', peers) = After(commands', others)
    BY AfterStart DEF StartWaits
  <2>3. StartWaits => After(commands', Effect({}, first)) = config.peers
    BY <1>2 DEF PeersArrive
  <2>4. ASSUME StartWaits', NEW peers PROVE After(commands', peers) = config'.peers
    <3>1. After(commands', peers) = After(commands', Effect({}, first))
      BY <2>2, <2>4
    <3> QED BY <1>1, <2>1, <2>3, <2>4, <3>1
  <2> QED BY <2>4
<1>4. ~IsStart(pending)
  BY <1>1 DEF PendingDone
<1> HIDE DEF first
<1>5. CASE HandleLifecycle
  <2>1. node' = NoNode /\ pending' \in {first, Idle}
    BY <1>5 DEF HandleLifecycle, Resume, Return, first
  <2>2. IsStart(pending') => pending' = first /\ IsStart(first)
    BY <2>1 DEF IsStart, Idle
  <2>3. ASSUME IsStart(first) PROVE After(commands', first.config.peers) = config.peers
    <3>1. first.config.peers \subseteq Peers
      BY <1>2, <2>3 DEF BackendCommand, IsStart, Config, PeerEdit
    <3>2. Effect({}, first) = first.config.peers
      BY <2>3, <3>1, Effects
    <3>3. StartWaits
      <4>1. 1 \in 1..Len(commands) /\ commands[1] = first
        BY <1>0, <1>1, SeqFacts DEF first
      <4> QED BY <2>3, <4>1 DEF StartWaits
    <3> QED BY <1>2, <3>2, <3>3 DEF PeersArrive
  <2> QED BY <1>1, <1>3, <2>1, <2>2, <2>3, TunNodes DEF PeersArrive
<1>6. CASE HandleDiscover
  <2>1. first.command = "Discover" /\ UNCHANGED <<pending, node, localPeers, requests>>
    BY <1>6 DEF HandleDiscover, Receive, first, privilegedVars, linkVars
  <2>2. \A peers \in SUBSET Peers : After(commands', peers) = After(commands, peers)
    BY <1>2, <2>1, Effects
  <2>3. \A s \in Sessions : TunPeers(s)' = TunPeers(s) /\ (Serving(s)' <=> Serving(s))
    BY <1>1, <2>1 DEF TunPeers, Serving
  <2>4. \A s \in Sessions : TunPeers(s) \in SUBSET Peers
    BY Effects DEF TunPeers
  <2> QED BY <1>0, <1>1, <1>3, <1>4, <2>1, <2>2, <2>3, <2>4 DEF PeersArrive
<1>7. CASE HandlePeerEdit
  <2>1. first \in PeerEdit /\ UNCHANGED <<pending, node>>
    BY <1>2, <1>7 DEF HandlePeerEdit, Receive, first, BackendCommand
  <2>2. \A peers \in SUBSET Peers : After(commands', EditPeers(peers, first)) = After(commands, peers)
    BY <1>2, <2>1, Effects
  <2>3. CASE node = NoNode
    BY <1>3, <1>4, <2>1, <2>3, TunNodes DEF PeersArrive
  <2>4. CASE node = LocalNode
    <3>1. localPeers' = EditPeers(localPeers, first)
      <4>1. node.kind = "Local"
        BY <2>4 DEF LocalNode
      <4>2. ~Send(Event("Failed"))
        <5>1. events' = events
          BY <1>7, <2>4 DEF EditRejected
        <5>2. Event("Failed") \in BackendEvent
          BY EventTypes
        <5>3. Append(events, Event("Failed")) # events
          BY <1>0, <5>2, SeqFacts
        <5> QED BY <5>1, <5>3 DEF Send
      <4> QED BY <1>7, <4>1, <4>2 DEF HandlePeerEdit, first
    <3> QED BY <1>0, <1>1, <1>3, <1>4, <2>1, <2>2, <2>4, <3>1, TunNodes DEF PeersArrive
  <2>5. ASSUME NEW s \in Sessions, node = TunNode(s) PROVE PeersArrive'
    <3>1. Request(s, first)
      <4>1. node.kind = "Privileged" /\ node.session = s
        BY <2>5 DEF TunNode
      <4> QED BY <1>7, <4>1 DEF HandlePeerEdit, first
    <3>2. ASSUME Serving(s)' PROVE After(commands', TunPeers(s)') = config'.peers
      <4>1. Serving(s) /\ worker[s] # "Exited"
        BY <1>1, <3>2 DEF Serving
      <4>2. conn[s] = "Open"
        BY <2>5, <4>1 DEF StoryInv, StoryOK, Engaged, Held
      <4>3. requests'[s] = Append(requests[s], first)
        BY <1>0, <3>1, <4>2 DEF Request
      <4>4. first \in WorkerCommand
        BY <2>1 DEF WorkerCommand
      <4>5. TunPeers(s)' = Effect(TunPeers(s), first)
        BY <1>0, <1>1, <4>3, <4>4, AfterAppend DEF TunPeers
      <4>6. TunPeers(s) \in SUBSET Peers
        BY Effects DEF TunPeers
      <4>7. After(commands, TunPeers(s)) = config.peers
        BY <2>5, <4>1 DEF PeersArrive
      <4> QED BY <1>1, <1>2, <4>5, <4>6, <4>7
    <3>3. \A t \in Sessions : node' = TunNode(t) => t = s
      BY <2>1, <2>5, TunNodes
    <3> QED BY <1>3, <1>4, <2>1, <2>5, <3>2, <3>3, TunNodes DEF PeersArrive
  <2> QED BY <1>0, <2>3, <2>4, <2>5 DEF ActiveNode
<1> QED BY <1>5, <1>6, <1>7 DEF CommandStep

\* A close that is over leaves at most the start it was for; a start in progress
\* becomes the node, or nothing.
LEMMA CloseStartPeers ==
    ASSUME TypeInv, PlaceInv, PeersArrive, CloseStep \/ StartStep, UNCHANGED config
    PROVE  PeersArrive'
<1>0. /\ pending \in BackendCommand
      /\ requests \in [Sessions -> Seq(WorkerCommand)]
      /\ pc # "Select" /\ node = NoNode
  <2>1. pc # "Select"
    BY DEF CloseStep, StartStep, CloseLocal, CloseCompletes, CloseTimesOut, StartTun,
           StartTunFails, Accept, LauncherExits, ElevationTimesOut, SendStart,
           SendStartFails, StartLocal, StartLocalFails
  <2> QED BY <2>1 DEF TypeInv, TypeOK, BackendTypeOK, PrivilegedTypeOK, PlaceInv, OneOwner
<1>1. commands' = commands
  BY DEF CloseStep, StartStep, CloseLocal, CloseCompletes, CloseTimesOut, AfterClose, StartTun,
         StartTunFails, Accept, LauncherExits, ElevationTimesOut, SendStart,
         SendStartFails, StartLocal, StartLocalFails, StartNodeFails
<1>2. StartWaits' => After(commands', {}) = config'.peers
  BY <1>1 DEF PeersArrive, StartWaits
<1>3. ASSUME node' = node, pending' \in {pending, Idle}
      PROVE  PeersArrive'
  <2>1. IsStart(pending') => pending' = pending
    BY <1>3 DEF IsStart, Idle
  <2> QED BY <1>0, <1>1, <1>2, <1>3, <2>1, TunNodes DEF PeersArrive
<1>4. CASE CloseStep
  <2>1. node' = node /\ Resume(pending)
    BY <1>4 DEF CloseStep, CloseLocal, CloseCompletes, CloseTimesOut, AfterClose
  <2> QED BY <1>3, <2>1 DEF Resume, Return
<1>5. CASE SendStart
  <2>1. /\ IsStart(pending) /\ nextSession \in Sessions
        /\ conn[nextSession] = "Open" /\ Request(nextSession, pending)
        /\ node' = TunNode(nextSession) /\ pending' = Idle
        /\ nextSession' = nextSession
    BY <1>5 DEF SendStart, TypeInv, PendingStart, IsStart, Return
  <2>2. pending \in WorkerCommand /\ pending.config.peers \subseteq Peers
    BY <1>0, <2>1, CommandTypes DEF IsStart
  <2>3. /\ requests'[nextSession] = Append(requests[nextSession], pending)
        /\ UNCHANGED <<down, livePeers>>
    BY <1>0, <2>1 DEF Request, workerVars
  <2>4. TunPeers(nextSession)' = Effect(TunPeers(nextSession), pending)
    BY <1>0, <2>1, <2>2, <2>3, AfterAppend DEF TunPeers
  <2>5. TunPeers(nextSession)' = pending.config.peers
    BY <2>1, <2>2, <2>4, Effects
  <2>6. ~IsStart(pending')
    BY <2>1 DEF IsStart, Idle
  <2> QED BY <1>1, <1>2, <2>1, <2>5, <2>6, TunNodes DEF PeersArrive
<1>6. CASE StartLocal
  <2>1. /\ IsStart(pending) /\ pending' = Idle
        /\ node' = LocalNode /\ localPeers' = pending.config.peers
    BY <1>6 DEF StartLocal, TypeInv, PendingStart, IsStart, Return
  <2>2. ~IsStart(pending')
    BY <2>1 DEF IsStart, Idle
  <2> QED BY <1>1, <1>2, <2>1, <2>2, TunNodes DEF PeersArrive
<1>7. CASE StartStep /\ ~SendStart /\ ~StartLocal
  <2>1. node' = node /\ pending' \in {pending, Idle}
    BY <1>7 DEF StartStep, StartTun, StartTunFails, Accept, LauncherExits, ElevationTimesOut,
                SendStartFails, StartLocalFails, StartNodeFails, Return
  <2> QED BY <1>3, <2>1
<1> QED BY <1>4, <1>5, <1>6, <1>7

\* What goes from the thread to the worker, and what the worker reads, adds up to
\* the same; edits it was told to make and did not are counted as missed.
LEMMA CarriedPeers ==
    ASSUME TypeInv, NEW s \in Sessions, Held(s), WorkerOrLinkStep(s), ~WorkerRejects(s),
           Serving(s)'
    PROVE  Serving(s) /\ TunPeers(s)' = TunPeers(s)
<1>0. /\ requests[s] \in Seq(WorkerCommand) /\ down[s] \in Seq(WorkerCommand)
      /\ livePeers[s] \in SUBSET Peers /\ worker[s] \in WorkerState
      /\ requests \in [Sessions -> Seq(WorkerCommand)]
      /\ down \in [Sessions -> Seq(WorkerCommand)]
      /\ livePeers \in [Sessions -> SUBSET Peers] /\ worker \in [Sessions -> WorkerState]
  BY DEF TypeInv, TypeOK, PrivilegedTypeOK
<1>1. worker'[s] \in {"Connected", "Starting", "Running"}
  BY DEF Serving
<1>2. ASSUME Serving(s), UNCHANGED <<requests, down, livePeers>>
      PROVE  Serving(s) /\ TunPeers(s)' = TunPeers(s)
  BY <1>2 DEF TunPeers
<1>3. ASSUME worker[s] = "Exited" \/ worker'[s] \in {"Closing", "Exited"}
      PROVE  worker[s] = "Exited" /\ worker'[s] # "Exited"
  BY <1>1, <1>3
<1>4. CASE ParentConnection(s)
  <2>1. worker' = worker /\ Serving(s)
    BY <1>1, <1>4 DEF ParentConnection, ForwardCommand, ForwardFails, ReceiveEvent, StreamEnds,
                 DisconnectFires, EndConnection, workerVars, Serving
  <2>2. worker[s] # "Exited"
    BY <2>1 DEF Serving
  <2>3. CASE ForwardCommand(s)
    <3>1. requests[s] # <<>>
      BY <2>3 DEF ForwardCommand, CanForward, Held
    <3>2. /\ requests'[s] = Tail(requests[s])
          /\ down'[s] = Append(down[s], Head(requests[s]))
          /\ livePeers' = livePeers
      BY <1>0, <2>3, <3>1 DEF ForwardCommand, NextRequest, workerVars
    <3>3. Head(requests[s]) \in WorkerCommand
      BY <1>0, <3>1
    <3>4. After(down'[s], livePeers[s]) = Effect(After(down[s], livePeers[s]), Head(requests[s]))
      BY <1>0, <3>2, <3>3, AfterAppend
    <3> QED BY <1>0, <2>1, <3>1, <3>2, <3>4, AfterTail DEF TunPeers
  <2>4. CASE ReceiveEvent(s)
    BY <1>2, <2>1, <2>4 DEF ReceiveEvent, workerVars
  <2>5. CASE ForwardFails(s) \/ StreamEnds(s) \/ DisconnectFires(s)
    BY <2>2, <2>5 DEF ForwardFails, StreamEnds, DisconnectFires, Held
  <2> QED BY <1>4, <2>3, <2>4, <2>5 DEF ParentConnection
<1>5. CASE WorkerTick(s)
  BY <1>2, <1>5 DEF WorkerTick, Serving, linkVars, workerVars
<1>6. CASE WorkerConnects(s)
  BY <1>0, <1>1, <1>6 DEF WorkerConnects, GoTo, Held
<1>7. CASE AuthorizationDenied(s) \/ WorkerStartFails(s) \/ WorkerDies(s) \/ WorkerClosed(s)
           \/ WorkerCapabilityFails(s) \/ WorkerShutsDown(s) \/ WorkerLosesGui(s)
  <2>1. worker'[s] \in {"Closing", "Exited"}
    BY <1>0, <1>7 DEF AuthorizationDenied, WorkerStartFails, WorkerDies, WorkerClosed,
                      WorkerCapabilityFails, WorkerShutsDown, WorkerLosesGui, GoTo
  <2> QED BY <1>1, <2>1
<1>8. CASE WorkerReadsFirst(s)
  <2> DEFINE first == Head(down[s])
  <2>1. /\ worker[s] = "Connected" /\ down[s] # <<>> /\ down'[s] = Tail(down[s])
        /\ requests' = requests
    BY <1>0, <1>8 DEF WorkerReadsFirst, linkVars
  <2>2. first.command = "Start" /\ livePeers'[s] = first.config.peers
    BY <1>0, <1>1, <1>8 DEF WorkerReadsFirst, GoTo
  <2>3. first \in WorkerCommand
    BY <1>0, <2>1
  <2>4. first.config.peers \subseteq Peers
    BY <2>2, <2>3 DEF WorkerCommand, Config, PeerEdit
  <2>5. Effect(livePeers[s], first) = livePeers'[s]
    BY <2>2, <2>4, Effects DEF IsStart
  <2>6. After(down[s], livePeers[s]) = After(down'[s], livePeers'[s])
    BY <1>0, <2>1, <2>5, AfterTail
  <2> QED BY <2>1, <2>6 DEF TunPeers, Serving
<1>9. CASE WorkerStarts(s)
  BY <1>2, <1>9 DEF WorkerStarts, Serving, linkVars
<1>10. CASE WorkerEditsPeers(s)
  <2> DEFINE edit == Head(down[s])
  <2>1. /\ worker[s] = "Running" /\ down[s] # <<>> /\ down'[s] = Tail(down[s])
        /\ edit.command \in {"AddPeer", "RemovePeer"}
        /\ livePeers'[s] = EditPeers(livePeers[s], edit)
        /\ requests' = requests
    BY <1>0, <1>10 DEF WorkerEditsPeers, WorkerReads, linkVars
  <2>2. edit \in WorkerCommand
    BY <1>0, <2>1
  <2>3. edit \in PeerEdit
    BY <2>1, <2>2 DEF WorkerCommand
  <2>4. Effect(livePeers[s], edit) = livePeers'[s]
    BY <1>0, <2>1, <2>3, Effects
  <2>5. After(down[s], livePeers[s]) = After(down'[s], livePeers'[s])
    BY <1>0, <2>1, <2>4, AfterTail
  <2> QED BY <2>1, <2>5 DEF TunPeers, Serving
<1> QED BY <1>4, <1>5, <1>6, <1>7, <1>8, <1>9, <1>10
        DEF WorkerOrLinkStep, PrivilegedStep, WorkerStep, WorkerProgress

\* A session's steps touch no other.
LEMMA OtherSessions ==
    ASSUME TypeInv, NEW s \in Sessions, WorkerOrLinkStep(s), NEW t \in Sessions, t # s
    PROVE  /\ requests'[t] = requests[t] /\ down'[t] = down[t] /\ up'[t] = up[t]
           /\ livePeers'[t] = livePeers[t] /\ worker'[t] = worker[t] /\ conn'[t] = conn[t]
<1> USE DEF TypeInv, TypeOK, PrivilegedTypeOK, linkVars, workerVars, GoTo, Emit
<1>1. CASE ParentConnection(s)
  BY <1>1 DEF ParentConnection, ForwardCommand, ForwardFails, ReceiveEvent, StreamEnds,
              DisconnectFires, EndConnection
<1>2. CASE WorkerTick(s)
  BY <1>2 DEF WorkerTick
<1>3. CASE \/ WorkerConnects(s) \/ AuthorizationDenied(s) \/ WorkerDies(s)
           \/ WorkerReadsFirst(s) \/ WorkerStarts(s) \/ WorkerStartFails(s)
           \/ WorkerCapabilityFails(s)
  BY <1>3 DEF WorkerConnects, AuthorizationDenied, WorkerDies, WorkerReadsFirst, WorkerStarts,
              WorkerStartFails, WorkerCapabilityFails
<1>4. CASE WorkerEditsPeers(s) \/ WorkerRejects(s) \/ WorkerShutsDown(s) \/ WorkerClosed(s)
  BY <1>4 DEF WorkerEditsPeers, WorkerRejects, WorkerShutsDown, WorkerReads, WorkerClosed
<1>5. CASE WorkerLosesGui(s)
  BY <1>5 DEF WorkerLosesGui
<1> QED BY <1>1, <1>2, <1>3, <1>4, <1>5
        DEF WorkerOrLinkStep, PrivilegedStep, WorkerStep, WorkerProgress

\* The thread, its connections and its workers leave the right peers to arrive.
LEMMA SystemPeers ==
    ASSUME TypeInv, PlaceInv, StoryInv, PendingDone, PeersInv, System
    PROVE  PeersInv'
<1> SUFFICES ASSUME open', "edit" \notin missed' PROVE PeersArrive'
  BY DEF PeersInv
<1>1. /\ PeersArrive /\ ~EditRejected /\ UNCHANGED config /\ SystemStep /\ ~LoopGone'
  BY DEF System, PeersInv
<1>2. ASSUME UNCHANGED <<commands, pending, localPeers, requests, down, livePeers, worker>>,
             node' \in {node, NoNode}
      PROVE  PeersArrive'
  <2>1. \A s \in Sessions : TunPeers(s)' = TunPeers(s) /\ (Serving(s)' <=> Serving(s))
    BY <1>2 DEF TunPeers, Serving
  <2> QED BY <1>1, <1>2, <2>1, TunNodes DEF PeersArrive, StartWaits
<1>3. CASE CommandStep
  BY <1>1, <1>3, CommandPeers
<1>4. CASE CloseStep \/ StartStep
  BY <1>1, <1>4, CloseStartPeers
<1>5. CASE HandleRemote \/ StatusTick \/ \E id \in Searches : DiscoveryFinishes(id)
  BY <1>2, <1>5 DEF HandleRemote, StatusTick, DiscoveryFinishes, privilegedVars, linkVars,
                    workerVars
<1>6. CASE Exit \/ ThreadEnds \/ GuiCrash
  BY <1>1, <1>6 DEF Exit, ThreadEnds, LoopGone, GuiCrash
<1>7. ASSUME NEW s \in Sessions, WorkerOrLinkStep(s) PROVE PeersArrive'
  <2>1. UNCHANGED <<commands, pending, localPeers, node>>
    BY <1>7 DEF WorkerOrLinkStep, backendVars, handleVars, loopVars
  <2>2. ASSUME NEW t \in Sessions, node = TunNode(t), Serving(t)'
        PROVE  Serving(t) /\ TunPeers(t)' = TunPeers(t)
    <3>1. CASE t = s
      <4>1. Held(s) /\ ~WorkerRejects(s)
        BY <1>1, <2>2, <3>1 DEF StoryInv, StoryOK, Engaged, EditRejected
      <4> QED BY <1>7, <2>2, <3>1, <4>1, CarriedPeers
    <3>2. CASE t # s
      BY <1>7, <2>2, <3>2, OtherSessions DEF TunPeers, Serving
    <3> QED BY <3>1, <3>2
  <2> QED BY <1>1, <2>1, <2>2 DEF PeersArrive, StartWaits
<1> QED BY <1>1, <1>3, <1>4, <1>5, <1>6, <1>7 DEF SystemStep, LoopStep

\* Whoever is to be the node will have the window's peers.
LEMMA PeersHold == AppSpec => []PeersInv
<1>1. AppInit => PeersInv
  BY TunNodes DEF AppInit, Init, HandleInit, PeersInv, PeersArrive, StartWaits, IsStart, Idle
<1>2. ThreadInv /\ PendingDone /\ WindowOK /\ PeersInv /\ [AppNext]_allVars => PeersInv'
  <2> SUFFICES ASSUME ThreadInv, PendingDone, WindowOK, PeersInv, [AppNext]_allVars
               PROVE  PeersInv'
    OBVIOUS
  <2>1. CASE Pump
    <3>1. /\ UNCHANGED <<open, config, commands, pending, node, localPeers, requests, down,
                         livePeers, worker>>
          /\ "edit" \in missed => "edit" \in missed'
      BY <2>1 DEF Pump, HandleEvent, privilegedVars, linkVars, workerVars, loopVars
    <3>2. \A s \in Sessions : TunPeers(s)' = TunPeers(s) /\ (Serving(s)' <=> Serving(s))
      BY <3>1 DEF TunPeers, Serving
    <3> QED BY <3>1, <3>2 DEF PeersInv, PeersArrive, StartWaits
  <2>2. CASE UNCHANGED allVars
    <3>1. UNCHANGED <<open, config, missed, commands, pending, node, localPeers, requests,
                      down, livePeers, worker>>
      BY <2>2 DEF allVars, appVars, windowVars, vars, backendVars, handleVars, privilegedVars,
                  linkVars, workerVars, loopVars
    <3>2. \A s \in Sessions : TunPeers(s)' = TunPeers(s) /\ (Serving(s)' <=> Serving(s))
      BY <3>1 DEF TunPeers, Serving
    <3> QED BY <3>1, <3>2 DEF PeersInv, PeersArrive, StartWaits
  <2> QED BY <2>1, <2>2, UserPeers, SystemPeers DEF AppNext, ThreadInv
<1>3. AppSpec => []PendingDone
  BY ApplicationIsBackend, PendingDoneHolds, PTL
<1> QED BY <1>1, <1>2, <1>3, ThreadHolds, WindowHolds, PTL DEF AppSpec

\* When every command reached the node, the node has the peers the window lists,
\* unless an edit was made while a start was under way or was rejected by the
\* core (app.rs:611-632).
THEOREM PeersAgreeHolds == AppSpec => []PeersAgree
<1>1. TypeInv /\ PeersInv => PeersAgree
  <2> SUFFICES ASSUME TypeInv, PeersInv, Delivered, "edit" \notin missed, node # NoNode
               PROVE  NodePeers = config.peers
    BY DEF PeersAgree
  <2>1. PeersArrive /\ commands = <<>> /\ localPeers \in SUBSET Peers
    BY DEF Delivered, Settled, PeersInv, TypeInv, TypeOK, BackendTypeOK
  <2>2. CASE node = LocalNode
    BY <2>1, <2>2, Effects DEF PeersArrive, NodePeers, LocalNode
  <2>3. ASSUME NEW s \in Sessions, node = TunNode(s) PROVE NodePeers = config.peers
    <3>1. Serving(s) /\ requests[s] = <<>> /\ down[s] = <<>> /\ livePeers[s] \in SUBSET Peers
      BY <2>3 DEF Delivered, Serving, TypeInv, TypeOK, PrivilegedTypeOK
    <3>2. After(commands, TunPeers(s)) = livePeers[s]
      BY <2>1, <3>1, Effects DEF TunPeers
    <3> QED BY <2>1, <2>3, <3>1, <3>2 DEF PeersArrive, NodePeers, TunNode
  <2> QED BY <2>2, <2>3 DEF TypeInv, TypeOK, BackendTypeOK, ActiveNode
<1>2. AppSpec => []TypeInv
  BY ThreadHolds, PTL DEF ThreadInv
<1> QED BY <1>1, <1>2, PeersHold, PTL

(***************************************************************************)
(* A running node has the mode that the window shows.                      *)
(***************************************************************************)

\* A start is where its mode belongs.
StartsInPlace ==
    /\ pc \in {"Launching", "Accepting", "Sending"} => pending.config.mode = "Tun"
    /\ pc = "StartingLocal" => pending.config.mode # "Tun"

\* The worker says once that it started, before anything else of its session.
Says(report, s) == report.session = s /\ report.event = "Started"

SaysFirst(r, s) ==
    \A i \in 1..Len(r) : Says(r[i], s) => \A j \in 1..(i - 1) : r[j].session # s

NoStarted(s) ==
    /\ \A i \in 1..Len(remote) : ~Says(remote[i], s)
    /\ \A i \in 1..Len(up[s]) : up[s][i] # "Started"

StartedFirst(s) ==
    /\ SaysFirst(remote, s)
    /\ \A i \in 1..Len(up[s]) : up[s][i] = "Started" => i = 1 /\ Only(remote, s, {})
    /\ conn[s] # "Ended" /\ worker[s] \in {"None", "Launched", "Connected", "Starting"} =>
         up[s] = <<>> /\ Only(remote, s, {})
    /\ node = TunNode(s) /\ announced # "Starting" => NoStarted(s)

StartedOnce == \A s \in Sessions : StartedFirst(s)

\* While the window is open nothing was asked to shut down.
NoShutdown ==
    open =>
        /\ pc # "Exiting"
        /\ pending.command \in {"Start", "Stop"}
        /\ \A i \in 1..Len(commands) : ~IsShutdown(commands[i])

\* The mode row is for a window that is stopped.
ModeRow == modeSensitive => ~running /\ ~transitioning

\* Commands and events that turn the window's phase.
Turning(command) == command.command \in {"Start", "Stop"}
NoneWaits == \A i \in 1..Len(commands) : ~Turning(commands[i])

Turn(event) == event.event \in {"Starting", "Started"}
NoTurn(waiting) == \A i \in 1..Len(waiting) : ~Turn(waiting[i])
Unstarted(waiting) == \A i \in 1..Len(waiting) : waiting[i].event # "Started"
StartedLast(waiting) ==
    \A i \in 1..Len(waiting) :
        waiting[i].event = "Started" => \A j \in (i + 1)..Len(waiting) : ~Turn(waiting[j])

Busy == pc # "Select" \/ announced = "Starting"

\* Window and thread go in step: at most one start or stop is under way, in the
\* queue, in the loop's hands or in the events, and the window knows.
InStep ==
    /\ \A i, j \in 1..Len(commands) : Turning(commands[i]) /\ Turning(commands[j]) => i = j
    /\ ~NoneWaits => transitioning /\ ~Busy /\ NoTurn(events)
    /\ Busy => transitioning /\ Unstarted(events)
    /\ ~transitioning => NoTurn(events)
    /\ StartedLast(events)

\* Every start under way, and every node that may be in use, has the mode shown.
SameMode ==
    /\ \A i \in 1..Len(commands) :
         IsStart(commands[i]) => commands[i].config.mode = config.mode
    /\ IsStart(pending) => pending.config.mode = config.mode
    /\ node = LocalNode => config.mode # "Tun"
    /\ \A s \in Sessions :
         node = TunNode(s) /\ worker[s] # "Exited" => config.mode = "Tun"

ModeInv == open /\ "ending" \notin missed => InStep /\ SameMode

\* Going on after a close picks the place by the mode, and nothing else does.
LEMMA PlacesStart == Spec => []StartsInPlace
<1> USE DEF StartsInPlace
<1>1. Init => StartsInPlace
  BY DEF Init
<1>2. StartsInPlace /\ [Next]_vars => StartsInPlace'
  <2> SUFFICES ASSUME StartsInPlace, [Next]_vars PROVE StartsInPlace'
    OBVIOUS
  <2>1. ASSUME NEW command, Resume(command) PROVE StartsInPlace'
    BY <2>1 DEF Resume, Return
  <2>2. CASE CommandStep
    BY <2>1, <2>2 DEF CommandStep, HandleLifecycle, HandlePeerEdit, HandleDiscover, Receive
  <2>3. CASE CloseStep
    BY <2>1, <2>3 DEF CloseStep, CloseLocal, CloseCompletes, CloseTimesOut, AfterClose
  <2>4. CASE StartStep
    BY <2>4 DEF StartStep, StartTun, StartTunFails, Accept, LauncherExits, ElevationTimesOut,
                SendStart, SendStartFails, StartLocal, StartLocalFails, StartNodeFails, Return
  <2>5. CASE HandleRemote \/ StatusTick \/ \E id \in Searches : DiscoveryFinishes(id)
    BY <2>5 DEF HandleRemote, StatusTick, DiscoveryFinishes
  <2>6. CASE Exit \/ ThreadEnds \/ GuiCrash
    BY <2>6 DEF Exit, ThreadEnds, LoopGone, GuiCrash
  <2>7. CASE \/ \E s \in Sessions : WorkerOrLinkStep(s)
             \/ \E command \in BackendCommand : SubmitCommand(command)
             \/ OtherInput \/ TakeEvent \/ UNCHANGED vars
    BY <2>7 DEF WorkerOrLinkStep, SubmitCommand, OtherInput, TakeEvent, vars, backendVars,
                loopVars
  <2> QED BY <2>2, <2>3, <2>4, <2>5, <2>6, <2>7 DEF Next, SystemStep, LoopStep
<1> QED BY <1>1, <1>2, PTL DEF Spec

\* A report more, and a report less.
LEMMA SaysAppend ==
    ASSUME NEW r \in Seq(RemoteEnvelope), NEW e \in RemoteEnvelope, NEW s
    PROVE  /\ SaysFirst(r, s) /\ (Says(e, s) => Only(r, s, {})) => SaysFirst(Append(r, e), s)
           /\ Only(r, s, {}) /\ e.session # s => Only(Append(r, e), s, {})
           /\ (\A i \in 1..Len(r) : ~Says(r[i], s)) /\ ~Says(e, s) =>
                \A i \in 1..Len(Append(r, e)) : ~Says(Append(r, e)[i], s)
<1> DEFINE q == Append(r, e)
<1>1. /\ Len(r) \in Nat /\ Len(q) = Len(r) + 1
      /\ \A i \in 1..Len(r) : q[i] = r[i]
      /\ q[Len(r) + 1] = e
      /\ \A i \in 1..Len(q) : i \in 1..Len(r) \/ i = Len(r) + 1
  BY SeqFacts
<1> HIDE DEF q
<1>2. SaysFirst(r, s) /\ (Says(e, s) => Only(r, s, {})) => SaysFirst(q, s)
  BY <1>1 DEF SaysFirst, Only
<1>3. Only(r, s, {}) /\ e.session # s => Only(q, s, {})
  BY <1>1 DEF Only
<1>4. (\A i \in 1..Len(r) : ~Says(r[i], s)) /\ ~Says(e, s) => \A i \in 1..Len(q) : ~Says(q[i], s)
  BY <1>1
<1> QED BY <1>2, <1>3, <1>4 DEF q

\* Reading the first report of a session leaves none of its start.
LEMMA SaysTail ==
    ASSUME NEW r \in Seq(RemoteEnvelope), r # <<>>, NEW s
    PROVE  /\ SaysFirst(r, s) => SaysFirst(Tail(r), s)
           /\ Only(r, s, {}) => Only(Tail(r), s, {})
           /\ (\A i \in 1..Len(r) : ~Says(r[i], s)) =>
                \A i \in 1..Len(Tail(r)) : ~Says(Tail(r)[i], s)
           /\ SaysFirst(r, s) /\ Head(r).session = s =>
                \A i \in 1..Len(Tail(r)) : ~Says(Tail(r)[i], s)
           /\ Head(r).session = s => ~Only(r, s, {})
<1> DEFINE q == Tail(r)
<1>1. /\ Len(r) \in Nat \ {0} /\ Len(q) = Len(r) - 1
      /\ Head(r) = r[1]
      /\ \A i \in 1..Len(q) : q[i] = r[i + 1] /\ i + 1 \in 1..Len(r)
  BY SeqFacts
<1> HIDE DEF q
<1>2. SaysFirst(r, s) => SaysFirst(q, s)
  BY <1>1 DEF SaysFirst
<1>3. Only(r, s, {}) => Only(q, s, {})
  BY <1>1 DEF Only
<1>4. (\A i \in 1..Len(r) : ~Says(r[i], s)) => \A i \in 1..Len(q) : ~Says(q[i], s)
  BY <1>1
<1>5. ASSUME SaysFirst(r, s), Head(r).session = s, NEW i \in 1..Len(q), Says(q[i], s)
      PROVE  FALSE
  <2>1. Says(r[i + 1], s) /\ i + 1 \in 1..Len(r) /\ 1 \in 1..((i + 1) - 1)
    BY <1>1, <1>5
  <2> QED BY <1>1, <1>5, <2>1 DEF SaysFirst
<1>6. Head(r).session = s => ~Only(r, s, {})
  BY <1>1 DEF Only
<1> QED BY <1>2, <1>3, <1>4, <1>5, <1>6 DEF q

\* What a session's own steps say of it.
LEMMA OwnStepStarted ==
    ASSUME TypeInv, StoryInv, NEW s \in Sessions, StartedFirst(s), WorkerOrLinkStep(s)
    PROVE  StartedFirst(s)'
<1>0. /\ remote \in Seq(RemoteEnvelope) /\ up[s] \in Seq(WorkerEvent)
      /\ up \in [Sessions -> Seq(WorkerEvent)] /\ worker[s] \in WorkerState
      /\ worker \in [Sessions -> WorkerState] /\ conn \in [Sessions -> ConnState]
      /\ UNCHANGED <<node, announced>>
  BY DEF TypeInv, TypeOK, PrivilegedTypeOK, WorkerOrLinkStep, backendVars, loopVars
<1> DEFINE Early(state) == state \in {"None", "Launched", "Connected", "Starting"}
<1>1. ASSUME remote' = remote, up'[s] = up[s], conn'[s] # "Ended" => conn[s] # "Ended",
             Early(worker'[s]) => Early(worker[s])
      PROVE  StartedFirst(s)'
  BY <1>0, <1>1 DEF StartedFirst, NoStarted
<1>2. ASSUME NEW event \in WorkerEvent \ {"Started"}, Emit(s, event), remote' = remote,
             conn' = conn, ~Early(worker'[s])
      PROVE  StartedFirst(s)'
  <2>1. CASE up'[s] = up[s]
    BY <1>1, <1>2, <2>1
  <2>2. CASE up'[s] = Append(up[s], event)
    <3>1. /\ Len(up[s]) \in Nat /\ Len(up'[s]) = Len(up[s]) + 1
          /\ \A i \in 1..Len(up[s]) : up'[s][i] = up[s][i]
          /\ up'[s][Len(up[s]) + 1] = event
      BY <1>0, <1>2, <2>2, SeqFacts
    <3>2. \A i \in 1..Len(up'[s]) : up'[s][i] = "Started" =>
            i \in 1..Len(up[s]) /\ up[s][i] = "Started"
      BY <1>2, <3>1
    <3> QED BY <1>0, <1>2, <3>2 DEF StartedFirst, NoStarted
  <2> QED BY <1>0, <1>2, <2>1, <2>2 DEF Emit
<1>3. ASSUME NEW quiet \in BOOLEAN, EndConnection(s, quiet)
      PROVE  StartedFirst(s)'
  <2> DEFINE e == [session |-> s,
                   event |-> IF quiet THEN "Disconnected" ELSE "DisconnectedWithError"]
  <2>1. e \in RemoteEnvelope /\ ~Says(e, s)
    BY DEF RemoteEnvelope, Says
  <2>2. /\ remote' = Append(remote, e) /\ up'[s] = <<>> /\ conn'[s] = "Ended"
    BY <1>0, <1>3 DEF EndConnection
  <2> HIDE DEF e
  <2>3. SaysFirst(remote', s)
        /\ (NoStarted(s) => \A i \in 1..Len(remote') : ~Says(remote'[i], s))
    BY <1>0, <2>1, <2>2, SaysAppend DEF StartedFirst, NoStarted
  <2>4. \A i \in 1..Len(up'[s]) : up'[s][i] # "Started"
    BY <2>2
  <2>5. node' = TunNode(s) /\ announced' # "Starting" => NoStarted(s)'
    BY <1>0, <2>3, <2>4 DEF StartedFirst, NoStarted
  <2> QED BY <2>2, <2>3, <2>4, <2>5 DEF StartedFirst
<1>4. CASE ReceiveEvent(s)
  <2> DEFINE e == [session |-> s, event |-> Head(up[s])]
  <2>1. /\ up[s] # <<>> /\ up'[s] = Tail(up[s]) /\ remote' = Append(remote, e)
        /\ UNCHANGED <<conn, worker>> /\ conn[s] = "Open"
    BY <1>0, <1>4 DEF ReceiveEvent, workerVars
  <2>2. /\ Head(up[s]) \in WorkerEvent /\ Head(up[s]) = up[s][1]
        /\ Len(up[s]) \in Nat \ {0} /\ Len(up'[s]) = Len(up[s]) - 1
        /\ \A i \in 1..Len(up'[s]) : up'[s][i] = up[s][i + 1]
    BY <1>0, <2>1, SeqFacts
  <2>3. e \in RemoteEnvelope /\ (Says(e, s) <=> up[s][1] = "Started")
    BY <2>2 DEF RemoteEnvelope, Says
  <2> HIDE DEF e
  <2>4. \A i \in 1..Len(up'[s]) : up'[s][i] # "Started"
    BY <2>2 DEF StartedFirst
  <2>5. 1 \in 1..Len(up[s])
    BY <2>2
  <2>6. Says(e, s) => Only(remote, s, {})
    BY <2>3, <2>5 DEF StartedFirst
  <2>7. SaysFirst(remote', s)
    BY <1>0, <2>1, <2>3, <2>6, SaysAppend DEF StartedFirst
  <2>8. NoStarted(s) => \A i \in 1..Len(remote') : ~Says(remote'[i], s)
    BY <1>0, <2>1, <2>3, <2>5, SaysAppend DEF NoStarted
  <2>9. ~Early(worker[s])
    BY <2>1 DEF StartedFirst
  <2> QED BY <1>0, <2>1, <2>4, <2>7, <2>8, <2>9 DEF StartedFirst, NoStarted
<1>5. CASE ForwardCommand(s)
  BY <1>1, <1>5 DEF ForwardCommand, workerVars
<1>6. CASE ForwardFails(s) \/ StreamEnds(s) \/ DisconnectFires(s)
  <2>1. \E quiet \in BOOLEAN : EndConnection(s, quiet)
    BY <1>6 DEF ForwardFails, StreamEnds, DisconnectFires, IsShutdown, TypeInv, TypeOK,
                PrivilegedTypeOK
  <2> QED BY <1>3, <2>1
<1>7. CASE WorkerTick(s)
  BY <1>0, <1>2, <1>7 DEF WorkerTick, WorkerEvent, linkVars, workerVars
<1>8. CASE WorkerRejects(s) \/ WorkerStartFails(s)
  <2>1. PICK event \in WorkerEvent \ {"Started"} : Emit(s, event)
    BY <1>8 DEF WorkerRejects, WorkerStartFails, WorkerEvent
  <2> QED BY <1>0, <1>2, <1>8, <2>1 DEF WorkerRejects, WorkerReads, WorkerStartFails, GoTo, linkVars
<1>9. CASE WorkerStarts(s)
  <2>1. /\ worker[s] = "Starting" /\ worker'[s] = "Running" /\ Emit(s, "Started")
        /\ UNCHANGED <<conn, remote>>
    BY <1>0, <1>9 DEF WorkerStarts, GoTo, linkVars
  <2>2. ~(node = TunNode(s) /\ announced # "Starting")
    BY <2>1 DEF StoryInv, StoryOK, Engaged, Story, Unfailed
  <2>3. CASE conn[s] = "Open"
    <3>1. up[s] = <<>> /\ Only(remote, s, {})
      BY <2>1, <2>3 DEF StartedFirst
    <3>2. up'[s] = <<"Started">>
      BY <1>0, <2>1, <2>3, <3>1 DEF Emit
    <3> QED BY <1>0, <2>1, <2>2, <3>1, <3>2 DEF StartedFirst
  <2>4. CASE conn[s] # "Open"
    BY <1>1, <2>1, <2>4 DEF Emit
  <2> QED BY <2>3, <2>4
<1>10. CASE \/ WorkerConnects(s) \/ AuthorizationDenied(s) \/ WorkerReadsFirst(s)
            \/ WorkerCapabilityFails(s) \/ WorkerEditsPeers(s) \/ WorkerShutsDown(s)
            \/ WorkerLosesGui(s) \/ WorkerClosed(s) \/ WorkerDies(s)
  <2>1. UNCHANGED <<remote, up, conn>>
    BY <1>10 DEF WorkerConnects, AuthorizationDenied, WorkerReadsFirst, WorkerCapabilityFails,
                 WorkerEditsPeers, WorkerShutsDown, WorkerReads, WorkerLosesGui, WorkerClosed,
                 WorkerDies, linkVars
  <2>2. Early(worker'[s]) => Early(worker[s])
    BY <1>0, <1>10
       DEF WorkerConnects, AuthorizationDenied, WorkerReadsFirst, WorkerCapabilityFails,
           WorkerEditsPeers, WorkerShutsDown, WorkerReads, WorkerLosesGui, WorkerClosed,
           WorkerDies, GoTo
  <2> QED BY <1>1, <2>1, <2>2
<1> QED BY <1>4, <1>5, <1>6, <1>7, <1>8, <1>9, <1>10
        DEF WorkerOrLinkStep, PrivilegedStep, ParentConnection, WorkerStep, WorkerProgress

\* What a session reports to the loop, it reports of itself.
LEMMA SessionReports ==
    ASSUME TypeInv, NEW s \in Sessions, WorkerOrLinkStep(s)
    PROVE  \/ remote' = remote
           \/ \E e \in RemoteEnvelope : e.session = s /\ remote' = Append(remote, e)
<1> USE DEF TypeInv, TypeOK, PrivilegedTypeOK
<1>1. ASSUME NEW name \in WorkerEvent \cup Ends,
             remote' = Append(remote, [session |-> s, event |-> name])
      PROVE  \E e \in RemoteEnvelope : e.session = s /\ remote' = Append(remote, e)
  <2>1. [session |-> s, event |-> name] \in RemoteEnvelope
    BY DEF RemoteEnvelope, Ends
  <2> QED BY <1>1, <2>1
<1>2. ASSUME NEW quiet \in BOOLEAN, EndConnection(s, quiet)
      PROVE  \E e \in RemoteEnvelope : e.session = s /\ remote' = Append(remote, e)
  BY <1>1, <1>2 DEF EndConnection, Ends
<1>3. CASE ForwardCommand(s)
  BY <1>3 DEF ForwardCommand
<1>4. CASE ForwardFails(s) \/ StreamEnds(s) \/ DisconnectFires(s)
  <2>1. \E quiet \in BOOLEAN : EndConnection(s, quiet)
    BY <1>4 DEF ForwardFails, StreamEnds, DisconnectFires, IsShutdown
  <2> QED BY <1>2, <2>1
<1>5. CASE ReceiveEvent(s)
  <2>1. Head(up[s]) \in WorkerEvent /\ remote' = Append(remote, [session |-> s, event |-> Head(up[s])])
    BY <1>5 DEF ReceiveEvent
  <2> QED BY <1>1, <2>1
<1>6. CASE WorkerStep(s) \/ WorkerTick(s)
  BY <1>6 DEF WorkerStep, WorkerProgress, WorkerTick, WorkerConnects, AuthorizationDenied,
              WorkerReadsFirst, WorkerStarts, WorkerStartFails, WorkerCapabilityFails,
              WorkerEditsPeers, WorkerRejects, WorkerShutsDown, WorkerReads, WorkerLosesGui,
              WorkerClosed, WorkerDies
<1> QED BY <1>3, <1>4, <1>5, <1>6 DEF WorkerOrLinkStep, PrivilegedStep, ParentConnection

\* The loop's steps put no report of a worker's start anywhere.
LEMMA LoopStepStarted ==
    ASSUME TypeInv, PlaceInv, StoryInv, StartedOnce, SystemStep,
           ~\E s \in Sessions : WorkerOrLinkStep(s)
    PROVE  StartedOnce'
<1> SUFFICES ASSUME NEW s \in Sessions PROVE StartedFirst(s)'
  BY DEF StartedOnce
<1>0. /\ remote \in Seq(RemoteEnvelope) /\ up \in [Sessions -> Seq(WorkerEvent)]
      /\ worker \in [Sessions -> WorkerState] /\ conn \in [Sessions -> ConnState]
      /\ StartedFirst(s)
  BY DEF TypeInv, TypeOK, PrivilegedTypeOK, StartedOnce
<1>1. ASSUME UNCHANGED <<remote, up, worker>>, conn'[s] # "Ended" => conn[s] # "Ended",
             node' = TunNode(s) /\ announced' # "Starting"
               => node = TunNode(s) /\ announced # "Starting"
      PROVE  StartedFirst(s)'
  BY <1>0, <1>1 DEF StartedFirst, NoStarted
<1>2. CASE HandleLifecycle \/ CloseStep
  <2>1. /\ UNCHANGED <<remote, up, worker, conn>> /\ node' = NoNode
    BY <1>2 DEF HandleLifecycle, CloseStep, CloseLocal, CloseCompletes, CloseTimesOut, AfterClose,
                Request, DropNode, privilegedVars, linkVars, workerVars, PlaceInv, OneOwner
  <2> QED BY <1>1, <2>1, TunNodes
<1>3. CASE HandlePeerEdit \/ HandleDiscover
  <2>1. /\ UNCHANGED <<remote, up, worker, conn, node>>
    BY <1>3 DEF HandlePeerEdit, HandleDiscover, Request, privilegedVars, linkVars, workerVars
  <2>2. node = TunNode(s) => announced' = announced
    BY <1>3 DEF HandlePeerEdit, HandleDiscover, TunNode, SendNothing
  <2> QED BY <1>1, <2>1, <2>2
<1>4. CASE StartStep
  <2>1. node = NoNode /\ pc # "Select"
    <3>1. pc # "Select"
      BY <1>4 DEF StartStep, StartTun, StartTunFails, Accept, LauncherExits, ElevationTimesOut,
                  SendStart, SendStartFails, StartLocal, StartLocalFails
    <3> QED BY <3>1 DEF PlaceInv, OneOwner
  <2>2. node' = TunNode(s) => announced' = "Starting"
    <3>1. CASE SendStart
      BY <3>1 DEF SendStart, StoryInv, Told
    <3>2. CASE StartStep /\ ~SendStart
      <4>1. node' \in {node, LocalNode}
        BY <3>2 DEF StartStep, StartTun, StartTunFails, Accept, LauncherExits,
                    ElevationTimesOut, SendStartFails, StartLocal, StartLocalFails, StartNodeFails
      <4> QED BY <2>1, <4>1, TunNodes
    <3> QED BY <1>4, <3>1, <3>2
  <2>3. CASE StartTun
    <3>1. /\ nextSession' \in Sessions /\ nextSession' = nextSession + 1 /\ nextSession \in Nat
          /\ UNCHANGED <<remote, up>>
          /\ conn' = [conn EXCEPT ![nextSession'] = "Listening"]
          /\ worker' = [worker EXCEPT ![nextSession'] = "Launched"]
      BY <2>3, MessagesAssumption
         DEF StartTun, LaunchWorker, Sessions, TypeInv, TypeOK, BackendTypeOK
    <3>2. CASE s = nextSession'
      <4>1. conn[s] = "None"
        BY <3>1, <3>2 DEF PlaceInv, FreshSessions, Sessions
      <4>2. up[s] = <<>> /\ Only(remote, s, {})
        BY <4>1 DEF StoryInv, StoryOK, Blank
      <4>3. up'[s] = <<>> /\ Only(remote', s, {}) /\ SaysFirst(remote', s)
        BY <1>0, <3>1, <4>2 DEF StartedFirst
      <4> QED BY <2>2, <4>3 DEF StartedFirst
    <3>3. CASE s # nextSession'
      <4>1. conn'[s] = conn[s] /\ worker'[s] = worker[s]
        BY <1>0, <3>1, <3>3
      <4> QED BY <1>0, <2>2, <3>1, <4>1 DEF StartedFirst
    <3> QED BY <3>2, <3>3
  <2>4. CASE StartStep /\ ~StartTun
    <3>1. UNCHANGED <<remote, up, worker>>
      BY <2>4 DEF StartStep, StartTunFails, Accept, AcceptWorker, LauncherExits,
                  ElevationTimesOut, StopListening, SendStart, Request, SendStartFails, DropNode,
                  StartLocal, StartLocalFails, privilegedVars, workerVars
    <3>2. conn'[s] # "Ended" => conn[s] # "Ended"
      BY <1>0, <2>4
         DEF StartStep, StartTunFails, Accept, AcceptWorker, LauncherExits,
             ElevationTimesOut, StopListening, SendStart, Request, SendStartFails, DropNode,
             StartLocal, StartLocalFails, privilegedVars, linkVars
    <3> QED BY <1>1, <2>2, <3>1, <3>2
  <2> QED BY <1>4, <2>3, <2>4
<1>5. CASE HandleRemote
  <2>1. /\ remote # <<>> /\ remote' = Tail(remote)
        /\ UNCHANGED <<up, worker, conn>>
        /\ node' \in {node, NoNode}
        /\ node # TunNode(Head(remote).session) => UNCHANGED announced
    BY <1>5 DEF HandleRemote, workerVars
  <2>2. /\ SaysFirst(remote', s)
        /\ Only(remote, s, {}) => Only(remote', s, {})
        /\ NoStarted(s) => NoStarted(s)'
        /\ Head(remote).session = s =>
             ~Only(remote, s, {}) /\ \A i \in 1..Len(remote') : ~Says(remote'[i], s)
    BY <1>0, <2>1, SaysTail DEF StartedFirst, NoStarted
  <2>3. CASE Head(remote).session = s
    <3>1. \A i \in 1..Len(up'[s]) : up'[s][i] # "Started"
      BY <1>0, <2>1, <2>2, <2>3 DEF StartedFirst
    <3>2. NoStarted(s)'
      BY <2>2, <2>3, <3>1 DEF NoStarted
    <3> QED BY <1>0, <2>1, <2>2, <3>2 DEF StartedFirst
  <2>4. CASE Head(remote).session # s
    <3>1. node' = TunNode(s) => node = TunNode(s) /\ announced' = announced
      <4>1. Head(remote).session \in Sessions
        <5>1. Head(remote) \in RemoteEnvelope
          BY <1>0, <2>1
        <5> QED BY <5>1 DEF RemoteEnvelope
      <4>2. TunNode(Head(remote).session) # TunNode(s) /\ TunNode(s) # NoNode
        BY <2>4, <4>1, TunNodes
      <4> QED BY <2>1, <4>2
    <3> QED BY <1>0, <2>1, <2>2, <3>1 DEF StartedFirst
  <2> QED BY <2>3, <2>4
<1>6. CASE StatusTick \/ \E id \in Searches : DiscoveryFinishes(id)
  <2>1. announced' = announced
    BY <1>6 DEF StatusTick, DiscoveryFinishes, Send, PhaseAfter, Event
  <2> QED BY <1>1, <1>6, <2>1 DEF StatusTick, DiscoveryFinishes, privilegedVars, linkVars, workerVars
<1>7. CASE Exit \/ GuiCrash
  <2>1. remote' = <<>> /\ up'[s] = <<>>
    BY <1>7 DEF Exit, GuiCrash, DropAllLinks
  <2>2. SaysFirst(remote', s) /\ Only(remote', s, {}) /\ NoStarted(s)'
    BY <2>1 DEF SaysFirst, Only, NoStarted
  <2>3. \A i \in 1..Len(up'[s]) : up'[s][i] # "Started"
    BY <2>1
  <2> QED BY <2>1, <2>2, <2>3 DEF StartedFirst
<1>8. CASE ThreadEnds
  BY <1>1, <1>8 DEF ThreadEnds, privilegedVars, linkVars, workerVars
<1> QED BY <1>2, <1>3, <1>4, <1>5, <1>6, <1>7, <1>8 DEF SystemStep, LoopStep, CommandStep

\* A start is reported once, and told to a window that waits for it.
LEMMA StartedHolds == Spec => []StartedOnce
<1>1. Init => StartedOnce
  BY TunNodes DEF Init, PrivilegedInit, StartedOnce, StartedFirst, SaysFirst, Only
<1>2. TypeInv /\ PlaceInv /\ StoryInv /\ StartedOnce /\ [Next]_vars => StartedOnce'
  <2> SUFFICES ASSUME TypeInv, PlaceInv, StoryInv, StartedOnce, [Next]_vars PROVE StartedOnce'
    OBVIOUS
  <2>1. ASSUME NEW s \in Sessions, WorkerOrLinkStep(s) PROVE StartedOnce'
    <3> SUFFICES ASSUME NEW t \in Sessions PROVE StartedFirst(t)'
      BY DEF StartedOnce
    <3>1. CASE t = s
      BY <2>1, <3>1, OwnStepStarted DEF StartedOnce
    <3>2. CASE t # s
      <4>1. up'[t] = up[t] /\ worker'[t] = worker[t] /\ conn'[t] = conn[t]
            /\ UNCHANGED <<node, announced>>
        BY <2>1, <3>2, OtherSessions DEF WorkerOrLinkStep, backendVars, loopVars
      <4>2. \/ remote' = remote
            \/ \E e \in RemoteEnvelope : e.session = s /\ remote' = Append(remote, e)
        BY <2>1, SessionReports
      <4>3. CASE remote' = remote
        BY <4>1, <4>3 DEF StartedOnce, StartedFirst, NoStarted
      <4>4. ASSUME NEW e \in RemoteEnvelope, e.session = s, remote' = Append(remote, e)
            PROVE  StartedFirst(t)'
        <5>1. ~Says(e, t) /\ remote \in Seq(RemoteEnvelope) /\ e.session # t
          BY <3>2, <4>4 DEF Says, TypeInv, TypeOK, PrivilegedTypeOK
        <5>2. /\ SaysFirst(remote', t) \/ ~SaysFirst(remote, t)
              /\ Only(remote, t, {}) => Only(remote', t, {})
              /\ (\A i \in 1..Len(remote) : ~Says(remote[i], t)) =>
                    \A i \in 1..Len(remote') : ~Says(remote'[i], t)
          BY <4>4, <5>1, SaysAppend
        <5> QED BY <4>1, <5>2 DEF StartedOnce, StartedFirst, NoStarted
      <4> QED BY <4>2, <4>3, <4>4
    <3> QED BY <3>1, <3>2
  <2>2. CASE SystemStep /\ ~\E s \in Sessions : WorkerOrLinkStep(s)
    BY <2>2, LoopStepStarted
  <2>3. CASE \/ \E command \in BackendCommand : SubmitCommand(command)
             \/ OtherInput \/ TakeEvent \/ UNCHANGED vars
    <3>1. UNCHANGED <<remote, up, worker, conn, node, announced>>
      BY <2>3 DEF SubmitCommand, OtherInput, TakeEvent, vars, backendVars, loopVars,
                  privilegedVars, linkVars, workerVars
    <3> QED BY <3>1 DEF StartedOnce, StartedFirst, NoStarted
  <2> QED BY <2>1, <2>2, <2>3 DEF Next
<1> QED BY <1>1, <1>2, TypeCorrect, PlacesHold, StoryHolds, PTL DEF Spec

\* One more command waits.
LEMMA WaitsPosted ==
    ASSUME TypeInv, NEW command \in BackendCommand, Post(command)
    PROVE  /\ \A i \in 1..Len(commands') :
                \/ i \in 1..Len(commands) /\ commands'[i] = commands[i]
                \/ i = Len(commands) + 1 /\ commands'[i] = command
           /\ Len(commands) + 1 \in 1..Len(commands')
           /\ commands'[Len(commands) + 1] = command /\ Len(commands') > Len(commands)
           /\ commands'[Len(commands')] = command
BY PostKeeps

\* While the window is open, nothing it sends is a shutdown.
LEMMA NoShutdownHolds == AppSpec => []NoShutdown
<1>1. AppInit => NoShutdown
  BY DEF AppInit, Init, HandleInit, NoShutdown, Idle
<1>2. TypeInv /\ WindowOK /\ NoShutdown /\ [AppNext]_allVars => NoShutdown'
  <2> SUFFICES ASSUME TypeInv, WindowOK, NoShutdown, [AppNext]_allVars, open'
               PROVE  (/\ pc # "Exiting"
                       /\ pending.command \in {"Start", "Stop"}
                       /\ \A i \in 1..Len(commands) : ~IsShutdown(commands[i]))'
    BY DEF NoShutdown
  <2>0. commands \in Seq(BackendCommand) /\ pending \in BackendCommand
    BY DEF TypeInv, TypeOK, HandleTypeOK, BackendTypeOK
  <2>1. open /\ pc # "Exiting" /\ pending.command \in {"Start", "Stop"}
        /\ \A i \in 1..Len(commands) : ~IsShutdown(commands[i])
    <3>1. open
      BY DEF AppNext, User, UserStep, FlipSwitch, SelectMode, AddPeer, RemovePeer,
             EditPeerList, CloseWindow, Pump, HandleEvent, System, allVars, appVars, windowVars
    <3> QED BY <3>1 DEF NoShutdown
  <2>2. ASSUME UNCHANGED <<pc, pending>>,
               \/ UNCHANGED commands
               \/ \E command \in BackendCommand : Post(command) /\ ~IsShutdown(command)
        PROVE  (/\ pc # "Exiting"
                /\ pending.command \in {"Start", "Stop"}
                /\ \A i \in 1..Len(commands) : ~IsShutdown(commands[i]))'
    BY <2>1, <2>2, WaitsPosted
  <2>3. CASE User
    <3>1. UNCHANGED <<pc, pending>>
      BY <2>3 DEF User, loopVars
    <3>2. \A edit \in PeerEdit : edit \in BackendCommand /\ ~IsShutdown(edit)
      BY DEF BackendCommand, PeerEdit, IsShutdown
    <3>3. \A command : command.command = "Stop"
              \/ command = [command |-> "Start", config |-> config] => ~IsShutdown(command)
      BY DEF IsShutdown
    <3>4. UNCHANGED commands
          \/ \E command \in BackendCommand : Post(command) /\ ~IsShutdown(command)
      BY <2>3, <3>2, <3>3, UserCases
    <3> QED BY <2>2, <3>1, <3>4
  <2>4. CASE Pump
    BY <2>2, <2>4 DEF Pump, HandleEvent, loopVars
  <2>5. CASE UNCHANGED allVars
    BY <2>2, <2>5 DEF allVars, vars, backendVars, handleVars, loopVars
  <2>6. CASE System
    <3>0. SystemStep /\ ~LoopGone'
      BY <2>6 DEF System
    <3>1. commands # <<>> /\ commands' = Tail(commands) =>
            /\ \A i \in 1..Len(commands') : ~IsShutdown(commands'[i])
            /\ ~IsShutdown(Head(commands)) /\ Head(commands) \in BackendCommand
      <4>1. commands # <<>> /\ commands' = Tail(commands) =>
              /\ 1 \in 1..Len(commands) /\ Head(commands) = commands[1]
              /\ \A i \in 1..Len(commands') :
                   i + 1 \in 1..Len(commands) /\ commands'[i] = commands[i + 1]
              /\ Head(commands) \in BackendCommand
        BY <2>0, SeqFacts
      <4> QED BY <2>1, <4>1
    <3>2. ASSUME NEW command, Resume(command), command.command \in {"Start", "Stop"}
          PROVE  pc' # "Exiting" /\ pending'.command \in {"Start", "Stop"}
      BY <3>2 DEF Resume, Return, Idle
    <3>3. CASE HandleLifecycle
      <4>1. /\ commands # <<>> /\ commands' = Tail(commands)
            /\ Head(commands).command \in {"Start", "Stop", "Shutdown"}
        BY <3>3 DEF HandleLifecycle, Receive
      <4>2. Head(commands).command \in {"Start", "Stop"}
        BY <3>1, <4>1 DEF IsShutdown
      <4>3. CASE node = NoNode
        <5>1. Resume(Head(commands))
          BY <3>3, <4>3 DEF HandleLifecycle
        <5> QED BY <3>1, <3>2, <4>1, <4>2, <5>1
      <4>4. CASE node # NoNode
        <5>1. pc' = "Closing" /\ pending' = Head(commands)
          BY <3>3, <4>4 DEF HandleLifecycle
        <5> QED BY <3>1, <4>1, <4>2, <5>1
      <4> QED BY <4>3, <4>4
    <3>4. CASE HandlePeerEdit \/ HandleDiscover
      <4>1. /\ commands # <<>> /\ commands' = Tail(commands) /\ UNCHANGED <<pc, pending>>
        BY <3>4 DEF HandlePeerEdit, HandleDiscover, Receive
      <4> QED BY <2>1, <3>1, <4>1
    <3>5. CASE CloseStep
      <4>1. Resume(pending) /\ commands' = commands
        BY <3>5 DEF CloseStep, CloseLocal, CloseCompletes, CloseTimesOut, AfterClose
      <4> QED BY <2>1, <3>2, <4>1
    <3>6. CASE StartStep
      <4>1. commands' = commands /\ pending' \in {pending, Idle} /\ pc' # "Exiting"
        BY <3>6 DEF StartStep, StartTun, StartTunFails, Accept, LauncherExits,
                    ElevationTimesOut, SendStart, SendStartFails, StartLocal,
                    StartLocalFails, StartNodeFails, Return
      <4> QED BY <2>1, <4>1 DEF Idle
    <3>7. CASE Exit \/ ThreadEnds \/ GuiCrash
      BY <3>0, <3>7 DEF Exit, ThreadEnds, LoopGone, GuiCrash
    <3>8. CASE \/ HandleRemote \/ StatusTick \/ \E id \in Searches : DiscoveryFinishes(id)
               \/ \E s \in Sessions : WorkerOrLinkStep(s)
      <4>1. UNCHANGED <<pc, pending, commands>>
        BY <3>8 DEF HandleRemote, StatusTick, DiscoveryFinishes, WorkerOrLinkStep, backendVars,
                    handleVars, loopVars
      <4> QED BY <2>2, <4>1
    <3> QED BY <3>0, <3>3, <3>4, <3>5, <3>6, <3>7, <3>8 DEF SystemStep, LoopStep, CommandStep
  <2> QED BY <2>3, <2>4, <2>5, <2>6 DEF AppNext
<1>3. AppSpec => []TypeInv
  BY ThreadHolds, PTL DEF ThreadInv
<1> QED BY <1>1, <1>2, <1>3, WindowHolds, PTL DEF AppSpec

\* The mode row accepts input only in a window that shows no node.
LEMMA ModeRowHolds == AppSpec => []ModeRow
<1>1. AppInit => ModeRow
  BY DEF AppInit, WindowInit, ModeRow
<1>2. WindowOK /\ ModeRow /\ [AppNext]_allVars => ModeRow'
  <2> SUFFICES ASSUME WindowOK, ModeRow, [AppNext]_allVars PROVE ModeRow'
    OBVIOUS
  <2> USE DEF WindowOK, ModeRow
  <2>1. ASSUME UNCHANGED <<modeSensitive, running, transitioning>> PROVE ModeRow'
    BY <2>1
  <2>2. CASE User
    BY <2>2 DEF User, UserStep, FlipSwitch, SetControlsSensitive, SelectMode, AddPeer, RemovePeer,
                EditPeerList, CloseWindow
  <2>3. CASE Pump
    BY <2>3 DEF Pump, HandleEvent, ShowStarting, ShowStarted, ShowStopped, ShowNothing,
                SetControlsSensitive
  <2>4. CASE System \/ UNCHANGED allVars
    BY <2>1, <2>4 DEF System, allVars, appVars, windowVars
  <2> QED BY <2>2, <2>3, <2>4 DEF AppNext
<1> QED BY <1>1, <1>2, WindowHolds, PTL DEF AppSpec

\* An event more, and an event less.
LEMMA TurnsSent ==
    ASSUME NEW q \in Seq(BackendEvent), NEW e \in BackendEvent
    PROVE  /\ NoTurn(Append(q, e)) <=> NoTurn(q) /\ ~Turn(e)
           /\ Unstarted(Append(q, e)) <=> Unstarted(q) /\ e.event # "Started"
           /\ StartedLast(q) /\ ~Turn(e) => StartedLast(Append(q, e))
           /\ Unstarted(q) => StartedLast(Append(q, e))
           /\ NoTurn(q) => Unstarted(q)
           /\ Append(q, e) \in Seq(BackendEvent)
<1> DEFINE r == Append(q, e)
<1>1. /\ Len(q) \in Nat /\ Len(r) = Len(q) + 1
      /\ \A i \in 1..Len(q) : r[i] = q[i] /\ i \in 1..Len(r)
      /\ r[Len(q) + 1] = e /\ Len(q) + 1 \in 1..Len(r)
      /\ \A i \in 1..Len(r) : i \in 1..Len(q) \/ i = Len(q) + 1
  BY SeqFacts
<1>2. r \in Seq(BackendEvent)
  BY SeqFacts
<1> HIDE DEF r
<1>3. NoTurn(r) <=> NoTurn(q) /\ ~Turn(e)
  BY <1>1 DEF NoTurn
<1>4. Unstarted(r) <=> Unstarted(q) /\ e.event # "Started"
  BY <1>1 DEF Unstarted
<1>5. StartedLast(q) /\ ~Turn(e) => StartedLast(r)
  BY <1>1 DEF StartedLast, Turn
<1>6. Unstarted(q) => StartedLast(r)
  BY <1>1 DEF Unstarted, StartedLast
<1>7. NoTurn(q) => Unstarted(q)
  BY DEF NoTurn, Unstarted, Turn
<1> QED BY <1>2, <1>3, <1>4, <1>5, <1>6, <1>7 DEF r

\* When the window reads Started, nothing that turns its phase again follows.
LEMMA TurnsRead ==
    ASSUME NEW q \in Seq(BackendEvent), q # <<>>
    PROVE  /\ NoTurn(q) => NoTurn(Tail(q)) /\ ~Turn(Head(q))
           /\ Unstarted(q) => Unstarted(Tail(q)) /\ Head(q).event # "Started"
           /\ StartedLast(q) => StartedLast(Tail(q))
           /\ StartedLast(q) /\ Head(q).event = "Started" => NoTurn(Tail(q))
<1> DEFINE r == Tail(q)
<1>1. /\ Len(q) \in Nat \ {0} /\ Len(r) = Len(q) - 1 /\ 1 \in 1..Len(q) /\ Head(q) = q[1]
      /\ \A i \in 1..Len(r) : i + 1 \in 1..Len(q) /\ r[i] = q[i + 1] /\ i + 1 \in (1 + 1)..Len(q)
  BY SeqFacts
<1> HIDE DEF r
<1>2. NoTurn(q) => NoTurn(r) /\ ~Turn(Head(q))
  BY <1>1 DEF NoTurn
<1>3. Unstarted(q) => Unstarted(r) /\ Head(q).event # "Started"
  BY <1>1 DEF Unstarted
<1>4. StartedLast(q) => StartedLast(r)
  BY <1>1 DEF StartedLast
<1>5. StartedLast(q) /\ Head(q).event = "Started" => NoTurn(r)
  BY <1>1 DEF StartedLast, NoTurn
<1> QED BY <1>2, <1>3, <1>4, <1>5 DEF r

\* Whatever was announced to be stopped is down.
LEMMA StoppedNode ==
    ASSUME StoryInv, pc = "Select", announced = "Stopped"
    PROVE  /\ node # LocalNode
           /\ \A s \in Sessions : node = TunNode(s) => worker[s] = "Exited"
<1>1. node # LocalNode
  BY DEF StoryInv, Told
<1>2. ASSUME NEW s \in Sessions, node = TunNode(s) PROVE worker[s] = "Exited"
  BY <1>2 DEF StoryInv, StoryOK, Engaged, Story, Unfailed
<1> QED BY <1>1, <1>2

\* In a stopped window that goes in step, nothing else was announced.
LEMMA StoppedWindow ==
    ASSUME TypeInv, WindowOK, AgreeInv, NoShutdown, InStep, open, ~running, ~transitioning
    PROVE  pc = "Select" /\ announced = "Stopped" /\ NoneWaits
<1>1. NoneWaits /\ ~Busy /\ NoTurn(events)
  BY DEF InStep
<1>2. ~Unanswered
  BY <1>1 DEF Unanswered, NoneWaits, Busy, Turning, LifecycleCommand, NoShutdown, IsShutdown
<1>3. WindowPhase = "Stopped"
  BY DEF WindowPhase
<1>4. PICK k \in 0..Len(events) :
        /\ Decides(events, k)
        /\ announced = IF From("Stopped", events, k) = "Starting" /\ FailsAfter(events, k)
                       THEN "Stopped" ELSE From("Stopped", events, k)
  BY <1>2, <1>3 DEF AgreeInv, Foretells
<1>5. From("Stopped", events, k) = "Stopped"
  <2>1. CASE k = 0
    BY <2>1 DEF From
  <2>2. CASE k # 0
    <3>1. k \in 1..Len(events) /\ Definite(events[k]) /\ ~Turn(events[k])
      BY <1>1, <1>4, <2>2 DEF Decides, NoTurn, TypeInv, TypeOK, HandleTypeOK
    <3>2. events[k].event = "Stopped"
      BY <3>1 DEF Definite, Turn
    <3> QED BY <2>2, <3>2 DEF From, PhaseAfter
  <2> QED BY <2>1, <2>2
<1> QED BY <1>1, <1>4, <1>5 DEF Busy

\* What the user does.
LEMMA UserMode ==
    ASSUME ThreadInv, PendingDone, WindowOK, AgreeInv, NoShutdown, ModeRow, ModeInv, User
    PROVE  ModeInv'
<1> SUFFICES ASSUME open', "ending" \notin missed' PROVE (InStep /\ SameMode)'
  BY DEF ModeInv
<1>0. /\ UNCHANGED <<pc, pending, node, announced, events, worker>> /\ TrackEdits /\ open
      /\ TypeInv /\ StoryInv
  <2>1. open /\ UNCHANGED events
    BY DEF User, UserStep, FlipSwitch, SelectMode, AddPeer, RemovePeer, EditPeerList, CloseWindow
  <2> QED BY <2>1 DEF User, privilegedVars, workerVars, loopVars, ThreadInv
<1>1. Busy' <=> Busy
  BY <1>0 DEF Busy
<1>2. ASSUME ~Asked("Start") PROVE InStep /\ SameMode
  BY <1>0, <1>2 DEF TrackEdits, ModeInv
<1>3. ASSUME UNCHANGED <<running, transitioning>>,
             config'.mode = config.mode,
             \/ UNCHANGED commands
             \/ \E command \in PeerEdit : Post(command)
      PROVE  (InStep /\ SameMode)'
  <2>1. /\ \A i \in 1..Len(commands') :
             \/ i \in 1..Len(commands) /\ commands'[i] = commands[i]
             \/ ~Turning(commands'[i])
        /\ ~Asked("Start")
    <3>1. CASE UNCHANGED commands
      BY <1>0, <3>1 DEF Asked, TypeInv, TypeOK, HandleTypeOK
    <3>2. ASSUME NEW command \in PeerEdit, Post(command)
          PROVE  /\ \A i \in 1..Len(commands') :
                      \/ i \in 1..Len(commands) /\ commands'[i] = commands[i]
                      \/ ~Turning(commands'[i])
                 /\ ~Asked("Start")
      <4>1. command \in BackendCommand /\ ~Turning(command) /\ command.command # "Start"
        BY DEF BackendCommand, PeerEdit, Turning
      <4> QED BY <1>0, <3>2, <4>1, WaitsPosted DEF Asked
    <3> QED BY <1>3, <3>1, <3>2
  <2>2. InStep /\ SameMode
    BY <1>2, <2>1
  <2>3. NoneWaits => NoneWaits'
    BY <2>1 DEF NoneWaits
  <2>4. InStep'
    BY <1>0, <1>1, <1>3, <2>1, <2>2, <2>3 DEF InStep
  <2>5. SameMode'
    BY <1>0, <1>3, <2>1, <2>2 DEF SameMode, IsStart, Turning
  <2> QED BY <2>4, <2>5
<1>4. ASSUME ~transitioning, transitioning', UNCHANGED <<running, config>>,
             NEW command \in BackendCommand, Post(command),
             \/ command = [command |-> "Start", config |-> config] /\ ~running
             \/ command.command = "Stop" /\ running
      PROVE  (InStep /\ SameMode)'
  <2>1. /\ \A i \in 1..Len(commands') :
             \/ i \in 1..Len(commands) /\ commands'[i] = commands[i]
             \/ i = Len(commands) + 1 /\ commands'[i] = command
        /\ commands'[Len(commands')] = command
    BY <1>0, <1>4, WaitsPosted
  <2>2. CASE "ending" \notin missed
    <3>1. InStep /\ SameMode
      BY <1>0, <2>2 DEF ModeInv
    <3>2. NoneWaits /\ ~Busy /\ NoTurn(events) /\ StartedLast(events)
      BY <1>4, <3>1 DEF InStep
    <3>3. InStep'
      BY <1>0, <1>1, <1>4, <2>1, <3>2 DEF InStep, NoneWaits
    <3>4. SameMode'
      <4>1. IsStart(command) => command.config.mode = config.mode
        BY <1>4 DEF IsStart
      <4> QED BY <1>0, <1>4, <2>1, <3>1, <4>1 DEF SameMode
    <3> QED BY <3>3, <3>4
  <2>3. CASE "ending" \in missed
    <3>1. Settled /\ Asked("Start")
      BY <1>0, <2>3 DEF TrackEdits
    <3>2. ~running /\ command = [command |-> "Start", config |-> config]
      BY <1>4, <2>1, <3>1 DEF Asked
    <3>3. /\ pc = "Select" /\ commands = <<>> /\ events = <<>>
      BY <3>1 DEF Settled
    <3>4. announced = "Stopped"
      BY <1>0, <1>4, <3>1, <3>2, SettledPhase DEF WindowPhase
    <3>5. ~Busy /\ NoTurn(events) /\ StartedLast(events)
      BY <3>3, <3>4 DEF Busy, NoTurn, StartedLast
    <3>6. \A i, j \in 1..Len(commands') : i = j
      BY <2>1, <3>3
    <3>7. InStep'
      BY <1>0, <1>1, <1>4, <3>5, <3>6 DEF InStep
    <3>8. /\ \A i \in 1..Len(commands') : commands'[i].config.mode = config.mode
          /\ ~IsStart(pending)
      BY <2>1, <3>2, <3>3 DEF PendingDone
    <3>9. SameMode'
      BY <1>0, <1>4, <3>3, <3>4, <3>8, StoppedNode DEF SameMode
    <3> QED BY <3>7, <3>9
  <2> QED BY <2>2, <2>3
<1>5. ASSUME NEW mode \in Modes, modeSensitive, config' = [config EXCEPT !.mode = mode],
             UNCHANGED <<running, transitioning, modeSensitive, commands>>
      PROVE  (InStep /\ SameMode)'
  <2>1. ~running /\ ~transitioning
    BY <1>5 DEF ModeRow
  <2>2. ~Asked("Start")
    BY <1>0, <1>5 DEF Asked, TypeInv, TypeOK, HandleTypeOK
  <2>3. InStep /\ SameMode
    BY <1>2, <2>2
  <2>4. pc = "Select" /\ announced = "Stopped" /\ NoneWaits
    BY <1>0, <2>1, <2>3, StoppedWindow
  <2>5. InStep'
    BY <1>0, <1>1, <1>5, <2>3 DEF InStep, NoneWaits
  <2>6. (\A i \in 1..Len(commands) : ~IsStart(commands[i])) /\ ~IsStart(pending)
    BY <2>4 DEF NoneWaits, Turning, IsStart, PendingDone
  <2>7. SameMode'
    BY <1>0, <1>5, <2>4, <2>6, StoppedNode DEF SameMode
  <2> QED BY <2>5, <2>7
<1>6. ASSUME NEW edit \in PeerEdit, config' = [config EXCEPT !.peers = EditPeers(@, edit)]
      PROVE  config'.mode = config.mode
  BY <1>6 DEF WindowOK, Config
<1> QED BY <1>3, <1>4, <1>5, <1>6, UserCases

\* What an event does.
LEMMA PumpMode ==
    ASSUME TypeInv, WindowOK, AgreeInv', ModeInv, Pump
    PROVE  ModeInv'
<1> SUFFICES ASSUME open', "ending" \notin missed' PROVE (InStep /\ SameMode)'
  BY DEF ModeInv
<1>0. /\ UNCHANGED <<pc, pending, node, announced, worker, commands, config>> /\ open
      /\ events # <<>> /\ events' = Tail(events) /\ events \in Seq(BackendEvent)
      /\ "ending" \notin missed
      /\ transitioning /\ ~transitioning' /\ ~running' => Settled'
  BY DEF Pump, HandleEvent, privilegedVars, workerVars, loopVars, TypeInv, TypeOK, HandleTypeOK
<1>1. InStep /\ SameMode
  BY <1>0 DEF ModeInv
<1>2. SameMode'
  BY <1>0, <1>1 DEF SameMode
<1>3. (Busy' <=> Busy) /\ (NoneWaits' <=> NoneWaits)
  BY <1>0 DEF Busy, NoneWaits
<1>4. /\ NoTurn(events) => NoTurn(events') /\ ~Turn(Head(events))
      /\ Unstarted(events) => Unstarted(events') /\ Head(events).event # "Started"
      /\ StartedLast(events')
      /\ Head(events).event = "Started" => NoTurn(events')
  BY <1>0, <1>1, TurnsRead DEF InStep
<1> DEFINE event == Head(events).event
<1>5. \/ UNCHANGED <<running, transitioning>>
      \/ transitioning' /\ event = "Starting"
      \/ ~transitioning' /\ event = "Started"
      \/ ~transitioning' /\ ~running' /\ event \notin {"Starting", "Started"}
  BY DEF Pump, HandleEvent, ShowStarting, ShowStarted, ShowStopped, ShowNothing
<1>6. transitioning \in BOOLEAN /\ running' \in BOOLEAN /\ transitioning' \in BOOLEAN
  BY PumpWindow DEF WindowOK
<1>7. NoTurn(events) => event \notin {"Starting", "Started"}
  BY <1>4 DEF Turn
<1> HIDE DEF event
<1>8. CASE ~transitioning' /\ ~running' /\ transitioning
  <2>1. Settled'
    BY <1>0, <1>8
  <2>2. /\ pc' = "Select" /\ commands' = <<>> /\ events' = <<>>
    BY <2>1 DEF Settled
  <2>3. announced' = "Stopped"
    <3>1. WindowPhase' = announced'
      <4>1. ~Unanswered'
        BY <2>2 DEF Unanswered
      <4> QED BY <2>2, <4>1, NothingTold DEF AgreeInv
    <3> QED BY <1>8, <3>1 DEF WindowPhase
  <2>4. ~Busy'
    BY <2>2, <2>3 DEF Busy
  <2>5. NoneWaits' /\ NoTurn(events')
    BY <2>2 DEF NoneWaits, NoTurn
  <2>6. \A i \in 1..Len(commands') : FALSE
    BY <2>2
  <2> QED BY <1>2, <1>4, <2>4, <2>5, <2>6 DEF InStep
<1>9. CASE ~(~transitioning' /\ ~running' /\ transitioning)
  <2>1. ~NoneWaits => transitioning' /\ ~Busy /\ NoTurn(events')
    BY <1>1, <1>4, <1>5, <1>6, <1>7, <1>9 DEF InStep
  <2>2. Busy => transitioning' /\ Unstarted(events')
    BY <1>1, <1>4, <1>5, <1>6, <1>9 DEF InStep, event
  <2>3. ~transitioning' => NoTurn(events')
    BY <1>1, <1>4, <1>5, <1>6, <1>9 DEF InStep, event
  <2>4. \A i, j \in 1..Len(commands') : Turning(commands'[i]) /\ Turning(commands'[j]) => i = j
    BY <1>0, <1>1 DEF InStep
  <2> QED BY <1>2, <1>3, <1>4, <2>1, <2>2, <2>3, <2>4 DEF InStep
<1> QED BY <1>8, <1>9

\* What the thread sends when it starts and ends nothing.
Quietly ==
    \/ UNCHANGED events
    \/ \E event \in BackendEvent : ~Turn(event) /\ events' = Append(events, event)
    \/ events' = events \o <<Event("Stopped"), Event("Failed")>>

\* Steps that neither begin nor end a start or a stop.
LEMMA QuietInStep ==
    ASSUME TypeInv, InStep, Quietly, transitioning' = transitioning, Busy' => Busy,
           \/ UNCHANGED commands
           \/ commands # <<>> /\ commands' = Tail(commands)
    PROVE  InStep'
<1>0. commands \in Seq(BackendCommand) /\ events \in Seq(BackendEvent)
  BY DEF TypeInv, TypeOK, HandleTypeOK
<1>1. /\ NoTurn(events) => NoTurn(events')
      /\ Unstarted(events) => Unstarted(events')
      /\ StartedLast(events')
  <2>0. StartedLast(events)
    BY DEF InStep
  <2>1. ASSUME NEW q \in Seq(BackendEvent), NEW event \in BackendEvent, ~Turn(event)
        PROVE  /\ NoTurn(q) => NoTurn(Append(q, event))
               /\ Unstarted(q) => Unstarted(Append(q, event))
               /\ StartedLast(q) => StartedLast(Append(q, event))
               /\ Append(q, event) \in Seq(BackendEvent)
    BY <2>1, TurnsSent DEF Turn
  <2>2. CASE events' = events \o <<Event("Stopped"), Event("Failed")>>
    <3> DEFINE first == Append(events, Event("Stopped"))
    <3>1. /\ Event("Stopped") \in BackendEvent /\ ~Turn(Event("Stopped"))
          /\ Event("Failed") \in BackendEvent /\ ~Turn(Event("Failed"))
      BY EventTypes DEF Turn, Event
    <3>2. events' = Append(first, Event("Failed"))
      BY <1>0, <2>2, <3>1
    <3>3. /\ NoTurn(events) => NoTurn(first)
          /\ Unstarted(events) => Unstarted(first)
          /\ StartedLast(first) /\ first \in Seq(BackendEvent)
      BY <1>0, <2>0, <2>1, <3>1
    <3> HIDE DEF first
    <3> QED BY <2>1, <3>1, <3>2, <3>3
  <2> QED BY <1>0, <2>0, <2>1, <2>2 DEF Quietly
<1>2. /\ \A i, j \in 1..Len(commands') : Turning(commands'[i]) /\ Turning(commands'[j]) => i = j
      /\ NoneWaits => NoneWaits'
  <2>1. CASE UNCHANGED commands
    BY <2>1 DEF InStep, NoneWaits
  <2>2. CASE commands # <<>> /\ commands' = Tail(commands)
    <3>1. \A i \in 1..Len(commands') :
            /\ i + 1 \in 1..Len(commands) /\ commands'[i] = commands[i + 1]
            /\ i \in Nat
      BY <1>0, <2>2, SeqFacts
    <3>2. ASSUME NEW i \in 1..Len(commands'), NEW j \in 1..Len(commands'),
                 Turning(commands'[i]), Turning(commands'[j])
          PROVE  i = j
      <4>1. i + 1 = j + 1
        BY <3>1, <3>2 DEF InStep
      <4> QED BY <3>1, <4>1
    <3> QED BY <3>1, <3>2 DEF NoneWaits
  <2> QED BY <2>1, <2>2
<1> QED BY <1>1, <1>2 DEF InStep

\* Steps of a start or a stop under way, the one that takes it from the queue
\* included.
LEMMA TurningInStep ==
    ASSUME TypeInv, transitioning, transitioning', Unstarted(events), NoneWaits',
           StartedLast(events),
           \/ UNCHANGED events
           \/ \E event \in BackendEvent :
                /\ events' = Append(events, event)
                /\ event.event = "Started" => ~Busy'
           \/ events' = events \o <<Event("Stopped"), Event("Failed")>>
    PROVE  InStep'
<1>0. events \in Seq(BackendEvent)
  BY DEF TypeInv, TypeOK, HandleTypeOK
<1>1. StartedLast(events') /\ (Busy' => Unstarted(events'))
  <2>1. CASE UNCHANGED events
    BY <2>1
  <2>2. ASSUME NEW event \in BackendEvent, events' = Append(events, event),
               event.event = "Started" => ~Busy'
        PROVE  StartedLast(events') /\ (Busy' => Unstarted(events'))
    BY <1>0, <2>2, TurnsSent
  <2>3. CASE events' = events \o <<Event("Stopped"), Event("Failed")>>
    <3> DEFINE first == Append(events, Event("Stopped"))
    <3>1. /\ Event("Stopped") \in BackendEvent /\ Event("Stopped").event # "Started"
          /\ Event("Failed") \in BackendEvent /\ Event("Failed").event # "Started"
      BY EventTypes DEF Event
    <3>2. events' = Append(first, Event("Failed"))
      BY <1>0, <2>3, <3>1
    <3>3. Unstarted(first) /\ first \in Seq(BackendEvent)
      BY <1>0, <3>1, TurnsSent
    <3> HIDE DEF first
    <3> QED BY <3>1, <3>2, <3>3, TurnsSent
  <2> QED BY <2>1, <2>2, <2>3
<1> QED BY <1>1 DEF InStep, NoneWaits

\* The thread handles the next command.
LEMMA CommandMode ==
    ASSUME ThreadInv, PendingDone, NoShutdown, open, InStep, SameMode, CommandStep,
           UNCHANGED <<config, transitioning>>, transitioning \in BOOLEAN
    PROVE  (InStep /\ SameMode)'
<1>0. /\ TypeInv /\ StoryInv
      /\ commands \in Seq(BackendCommand) /\ events \in Seq(BackendEvent)
      /\ pc = "Select" /\ commands # <<>> /\ commands' = Tail(commands)
      /\ worker' = worker /\ node \in ActiveNode
  BY DEF ThreadInv, TypeInv, TypeOK, HandleTypeOK, BackendTypeOK, CommandStep, HandleLifecycle,
         HandlePeerEdit, HandleDiscover, Receive, Request, privilegedVars, workerVars
<1> DEFINE first == Head(commands)
<1>1. /\ 1 \in 1..Len(commands) /\ first = commands[1] /\ first \in BackendCommand
      /\ \A i \in 1..Len(commands') :
           i + 1 \in 1..Len(commands) /\ commands'[i] = commands[i + 1] /\ i + 1 # 1
  BY <1>0, SeqFacts
<1>2. \A i \in 1..Len(commands') : IsStart(commands'[i]) => commands'[i].config.mode = config'.mode
  BY <1>1 DEF SameMode
<1> HIDE DEF first
<1>3. CASE HandleLifecycle
  <2>1. first.command \in {"Start", "Stop"}
    <3>1. first.command \in {"Start", "Stop", "Shutdown"}
      BY <1>3 DEF HandleLifecycle, Receive, first
    <3> QED BY <1>1, <3>1 DEF NoShutdown, IsShutdown
  <2>2. ~NoneWaits
    BY <1>1, <2>1 DEF NoneWaits, Turning
  <2>3. NoneWaits'
    <3>1. ASSUME NEW i \in 1..Len(commands'), Turning(commands'[i]) PROVE FALSE
      BY <1>1, <2>1, <3>1 DEF InStep, Turning
    <3> QED BY <3>1 DEF NoneWaits
  <2>4. transitioning /\ NoTurn(events) /\ StartedLast(events)
    BY <2>2 DEF InStep
  <2>5. Unstarted(events)
    BY <2>4 DEF NoTurn, Unstarted, Turn
  <2>6. \/ UNCHANGED events
        \/ \E event \in BackendEvent : events' = Append(events, event) /\ event.event # "Started"
    <3>1. ASSUME Resume(first)
          PROVE  \E event \in BackendEvent :
                   events' = Append(events, event) /\ event.event # "Started"
      <4>1. Send(Event("Starting")) \/ Send(Event("Stopped"))
        BY <1>1, <2>1, <3>1, ResumeSends
      <4>2. /\ Event("Starting") \in BackendEvent /\ Event("Starting").event # "Started"
            /\ Event("Stopped") \in BackendEvent /\ Event("Stopped").event # "Started"
        BY EventTypes DEF Event
      <4> QED BY <4>1, <4>2 DEF Send
    <3> QED BY <1>3, <3>1 DEF HandleLifecycle, SendNothing, first
  <2>7. InStep'
    BY <1>0, <2>3, <2>4, <2>5, <2>6, TurningInStep
  <2>8. node' = NoNode /\ pending' \in {first, Idle}
    BY <1>3 DEF HandleLifecycle, Resume, Return, first
  <2>9. IsStart(pending') => pending'.config.mode = config'.mode
    BY <1>1, <2>8 DEF SameMode, IsStart, Idle
  <2> QED BY <1>2, <2>7, <2>8, <2>9, TunNodes DEF SameMode
<1>4. CASE HandlePeerEdit \/ HandleDiscover
  <2>1. UNCHANGED <<pc, pending, node>>
    BY <1>4 DEF HandlePeerEdit, HandleDiscover
  <2>2. Quietly /\ (announced' = "Starting" => announced = "Starting")
    <3>1. Event("Failed") \in BackendEvent /\ ~Turn(Event("Failed"))
      BY EventTypes DEF Event, Turn
    <3> QED BY <1>4, <3>1
            DEF HandlePeerEdit, HandleDiscover, Send, SendNothing, Quietly, PhaseAfter, Event
  <2>3. Busy' => Busy
    BY <2>1, <2>2 DEF Busy
  <2>4. InStep'
    BY <1>0, <2>2, <2>3, QuietInStep
  <2> QED BY <1>0, <1>2, <2>1, <2>4 DEF SameMode
<1> QED BY <1>3, <1>4 DEF CommandStep

\* The thread goes on with a stop or a start.
LEMMA CloseStartMode ==
    ASSUME ThreadInv, StartsInPlace, InStep, SameMode, CloseStep \/ StartStep,
           UNCHANGED <<config, transitioning>>, transitioning \in BOOLEAN
    PROVE  (InStep /\ SameMode)'
<1>0. /\ TypeInv /\ StoryInv /\ PlaceInv /\ pending \in BackendCommand
      /\ events \in Seq(BackendEvent)
  BY DEF ThreadInv, TypeInv, TypeOK, HandleTypeOK, BackendTypeOK
<1>1. pc # "Select" /\ commands' = commands
  BY DEF CloseStep, StartStep, CloseLocal, CloseCompletes, CloseTimesOut, AfterClose, StartTun,
         StartTunFails, Accept, LauncherExits, ElevationTimesOut, SendStart,
         SendStartFails, StartLocal, StartLocalFails, StartNodeFails
<1>2. /\ Busy /\ node = NoNode /\ transitioning /\ Unstarted(events)
      /\ StartedLast(events) /\ NoneWaits'
  BY <1>0, <1>1 DEF Busy, InStep, PlaceInv, OneOwner, NoneWaits
<1>3. ASSUME node' = node, pending' \in {pending, Idle}
      PROVE  SameMode'
  <2>1. IsStart(pending') => pending' = pending
    BY <1>3 DEF IsStart, Idle
  <2> QED BY <1>1, <1>2, <1>3, <2>1, TunNodes DEF SameMode
<1>4. CASE CloseStep
  <2>1. node' = node /\ Resume(pending)
    BY <1>4 DEF CloseStep, CloseLocal, CloseCompletes, CloseTimesOut, AfterClose
  <2>2. \/ UNCHANGED events
        \/ \E event \in BackendEvent : events' = Append(events, event) /\ event.event # "Started"
    <3>1. /\ Event("Starting") \in BackendEvent /\ Event("Starting").event # "Started"
          /\ Event("Stopped") \in BackendEvent /\ Event("Stopped").event # "Started"
      BY EventTypes DEF Event
    <3> QED BY <2>1, <3>1 DEF Resume, Send, SendNothing
  <2>3. InStep'
    BY <1>0, <1>2, <2>2, TurningInStep
  <2>4. pending' \in {pending, Idle}
    BY <2>1 DEF Resume, Return
  <2>5. SameMode'
    BY <1>2, <1>3, <2>1, <2>4, TunNodes
  <2> QED BY <2>3, <2>5
<1>5. CASE StartStep
  <2>1. IsStart(pending) \/ pc \notin {"Launching", "Accepting", "Sending", "StartingLocal"}
    BY <1>0 DEF TypeInv, PendingStart, IsStart
  <2>2. pending' \in {pending, Idle}
    BY <1>5 DEF StartStep, StartTun, StartTunFails, Accept, LauncherExits, ElevationTimesOut,
                SendStart, SendStartFails, StartLocal, StartLocalFails, StartNodeFails, Return
  <2>3. CASE SendStart
    <3>1. /\ node' = TunNode(nextSession) /\ pending' = Idle /\ pc = "Sending"
          /\ UNCHANGED <<events, worker, nextSession>>
      BY <2>3 DEF SendStart, Return, Request, workerVars
    <3>2. config.mode = "Tun"
      BY <2>1, <3>1 DEF StartsInPlace, SameMode
    <3>3. TunNode(nextSession) # LocalNode /\ ~IsStart(pending')
      BY <3>1 DEF TunNode, LocalNode, IsStart, Idle
    <3>4. SameMode'
      BY <1>1, <3>1, <3>2, <3>3 DEF SameMode
    <3> QED BY <1>0, <1>2, <3>1, <3>4, TurningInStep
  <2>4. CASE StartLocal
    <3> DEFINE started == [event |-> "Started", mode |-> pending.config.mode]
    <3>1. /\ node' = LocalNode /\ pending' = Idle /\ pc = "StartingLocal" /\ pc' = "Select"
          /\ events' = Append(events, started)
          /\ announced' = PhaseAfter(announced, started.event)
      BY <2>4 DEF StartLocal, Return, Send
    <3>2. config.mode # "Tun"
      BY <2>1, <3>1 DEF StartsInPlace, SameMode
    <3>3. ~Busy'
      BY <3>1 DEF Busy, PhaseAfter
    <3>4. started \in BackendEvent
      <4>1. pending.config.mode \in NodeMode
        BY <1>0, <2>1, <3>1, CommandTypes DEF IsStart
      <4> QED BY <4>1, EventTypes
    <3>5. ~IsStart(pending')
      BY <3>1 DEF IsStart, Idle
    <3> HIDE DEF started
    <3>6. SameMode'
      BY <1>1, <3>1, <3>2, <3>5, TunNodes DEF SameMode
    <3> QED BY <1>0, <1>2, <3>1, <3>3, <3>4, <3>6, TurningInStep
  <2>5. CASE StartStep /\ ~SendStart /\ ~StartLocal
    <3>1. node' = node /\ (UNCHANGED events \/ Send(Event("Failed")))
      BY <2>5 DEF StartStep, StartTun, StartTunFails, Accept, LauncherExits, ElevationTimesOut,
                  SendStartFails, StartLocalFails, StartNodeFails
    <3>2. Event("Failed") \in BackendEvent /\ Event("Failed").event # "Started"
      BY EventTypes DEF Event
    <3>3. SameMode'
      BY <1>2, <1>3, <2>2, <3>1, TunNodes
    <3> QED BY <1>0, <1>2, <3>1, <3>2, <3>3, TurningInStep DEF Send
  <2> QED BY <1>5, <2>3, <2>4, <2>5
<1> QED BY <1>4, <1>5

\* The thread reads a report.
LEMMA RemoteMode ==
    ASSUME ThreadInv, StartedOnce, InStep, SameMode, HandleRemote,
           UNCHANGED <<config, transitioning>>, transitioning \in BOOLEAN
    PROVE  (InStep /\ SameMode)'
<1>0. /\ TypeInv /\ remote \in Seq(RemoteEnvelope) /\ remote # <<>>
      /\ UNCHANGED <<commands, pending, pc, worker>> /\ pc = "Select"
      /\ node' \in {node, NoNode}
  BY DEF ThreadInv, TypeInv, TypeOK, PrivilegedTypeOK, HandleRemote, workerVars
<1>1. SameMode'
  BY <1>0, TunNodes DEF SameMode
<1> DEFINE report == Head(remote)
<1>2. CASE /\ node = TunNode(report.session) /\ report.event = "Started"
  <2> DEFINE started == [event |-> "Started", mode |-> "Tun"]
  <2>1. /\ events' = Append(events, started) /\ announced' = "Running"
    BY <1>2 DEF HandleRemote, Send, PhaseAfter
  <2>2. announced = "Starting"
    <3>1. report \in RemoteEnvelope /\ report = remote[1] /\ 1 \in 1..Len(remote)
      BY <1>0, SeqFacts
    <3>2. report.session \in Sessions /\ Says(report, report.session)
      BY <1>2, <3>1 DEF RemoteEnvelope, Says
    <3> HIDE DEF report
    <3>3. ~NoStarted(report.session)
      BY <3>1, <3>2 DEF NoStarted
    <3> QED BY <1>2, <3>2, <3>3 DEF StartedOnce, StartedFirst
  <2>3. Busy /\ ~Busy'
    BY <1>0, <2>1, <2>2 DEF Busy
  <2>4. transitioning /\ Unstarted(events) /\ StartedLast(events) /\ NoneWaits'
    BY <1>0, <2>3 DEF InStep, NoneWaits
  <2>5. started \in BackendEvent
    BY EventTypes DEF NodeMode
  <2> HIDE DEF started
  <2> QED BY <1>0, <1>1, <2>1, <2>3, <2>4, <2>5, TurningInStep
<1>3. CASE ~(node = TunNode(report.session) /\ report.event = "Started")
  <2>1. \A name \in {"Failed", "PeerStatus"} : Event(name) \in BackendEvent /\ ~Turn(Event(name))
    BY EventTypes DEF Event, Turn
  <2>2. Quietly /\ (announced' = "Starting" => announced = "Starting")
    BY <1>3, <2>1 DEF HandleRemote, Send, SendNothing, Quietly, PhaseAfter, Event
  <2>3. Busy' => Busy
    BY <1>0, <2>2 DEF Busy
  <2> QED BY <1>0, <1>1, <2>2, <2>3, QuietInStep
<1> QED BY <1>2, <1>3

\* What the thread, the connections and the workers do.
LEMMA SystemMode ==
    ASSUME ThreadInv, PendingDone, StartsInPlace, StartedOnce, WindowOK, NoShutdown, ModeInv,
           System
    PROVE  ModeInv'
<1> SUFFICES ASSUME open', "ending" \notin missed' PROVE (InStep /\ SameMode)'
  BY DEF ModeInv
<1>0. /\ SystemStep /\ ~LoopGone' /\ open /\ "ending" \notin missed
      /\ UNCHANGED <<config, transitioning>> /\ transitioning \in BOOLEAN
  BY DEF System, WindowOK
<1>1. InStep /\ SameMode /\ TypeInv
  BY <1>0 DEF ModeInv, ThreadInv
<1>2. CASE CommandStep
  BY <1>0, <1>1, <1>2, CommandMode
<1>3. CASE CloseStep \/ StartStep
  BY <1>0, <1>1, <1>3, CloseStartMode
<1>4. CASE HandleRemote
  BY <1>0, <1>1, <1>4, RemoteMode
<1>5. CASE Exit \/ ThreadEnds \/ GuiCrash
  BY <1>0, <1>5 DEF Exit, ThreadEnds, LoopGone, GuiCrash
<1>6. CASE StatusTick \/ \E id \in Searches : DiscoveryFinishes(id)
  <2>1. UNCHANGED <<pc, commands, pending, node, worker>>
    BY <1>6 DEF StatusTick, DiscoveryFinishes, privilegedVars, workerVars
  <2>2. \E event \in BackendEvent :
          event.event \in {"PeerStatus", "DiscoveryFinished"} /\ Send(event)
    <3>1. CASE StatusTick
      BY <3>1, EventTypes DEF StatusTick, Event
    <3>2. ASSUME NEW id \in Searches, DiscoveryFinishes(id)
          PROVE  \E event \in BackendEvent :
                   event.event \in {"PeerStatus", "DiscoveryFinished"} /\ Send(event)
      <4>1. [event |-> "DiscoveryFinished", id |-> id] \in BackendEvent
        BY EventTypes
      <4> QED BY <3>2, <4>1 DEF DiscoveryFinishes
    <3> QED BY <1>6, <3>1, <3>2
  <2>3. Quietly /\ announced' = announced
    BY <2>2 DEF Send, Quietly, Turn, PhaseAfter
  <2>4. Busy' => Busy
    BY <2>1, <2>3 DEF Busy
  <2>5. SameMode'
    BY <1>0, <1>1, <2>1 DEF SameMode
  <2> QED BY <1>0, <1>1, <2>1, <2>3, <2>4, <2>5, QuietInStep
<1>7. ASSUME NEW s \in Sessions, WorkerOrLinkStep(s) PROVE (InStep /\ SameMode)'
  <2>1. UNCHANGED <<commands, events, pc, pending, node, announced>>
    BY <1>7 DEF WorkerOrLinkStep, backendVars, handleVars, loopVars
  <2>2. Quietly /\ (Busy' => Busy)
    BY <2>1 DEF Quietly, Busy
  <2>3. \A t \in Sessions : worker'[t] # "Exited" => worker[t] # "Exited"
    BY <1>1, <1>7
       DEF TypeInv, TypeOK, PrivilegedTypeOK, WorkerOrLinkStep, PrivilegedStep,
           ParentConnection, ForwardCommand, ForwardFails, ReceiveEvent, StreamEnds,
           DisconnectFires, EndConnection, WorkerStep, WorkerProgress, WorkerTick,
           WorkerConnects, AuthorizationDenied, WorkerReadsFirst, WorkerStarts,
           WorkerStartFails, WorkerCapabilityFails, WorkerEditsPeers, WorkerRejects,
           WorkerShutsDown, WorkerReads, WorkerLosesGui, WorkerClosed, WorkerDies, GoTo,
           workerVars
  <2>4. SameMode'
    BY <1>0, <1>1, <2>1, <2>3 DEF SameMode
  <2> QED BY <1>0, <1>1, <2>1, <2>2, <2>4, QuietInStep
<1> QED BY <1>0, <1>2, <1>3, <1>4, <1>5, <1>6, <1>7 DEF SystemStep, LoopStep

\* Window and thread go in step, in the mode that the window shows.
LEMMA ModeHolds == AppSpec => []ModeInv
<1>1. AppInit => ModeInv
  BY TunNodes DEF AppInit, Init, HandleInit, WindowInit, ModeInv, InStep, SameMode, NoneWaits,
                  Busy, NoTurn, StartedLast, IsStart, Idle
<1>2. /\ ThreadInv /\ PendingDone /\ StartsInPlace /\ StartedOnce /\ WindowOK /\ NoShutdown
      /\ ModeRow /\ AgreeInv /\ AgreeInv' /\ ModeInv /\ [AppNext]_allVars
      => ModeInv'
  <2> SUFFICES ASSUME ThreadInv, PendingDone, StartsInPlace, StartedOnce, WindowOK, NoShutdown,
                      ModeRow, AgreeInv, AgreeInv', ModeInv, [AppNext]_allVars
               PROVE  ModeInv'
    OBVIOUS
  <2>1. CASE UNCHANGED allVars
    <3>1. UNCHANGED <<open, missed, config, transitioning, commands, events, pc, pending, node,
                      announced, worker>>
      BY <2>1 DEF allVars, appVars, windowVars, vars, backendVars, handleVars, privilegedVars,
                  workerVars, loopVars
    <3> QED BY <3>1 DEF ModeInv, InStep, SameMode, NoneWaits, Busy
  <2> QED BY <2>1, UserMode, PumpMode, SystemMode DEF AppNext, ThreadInv
<1>3. AppSpec => [](PendingDone /\ StartsInPlace /\ StartedOnce)
  BY ApplicationIsBackend, PendingDoneHolds, PlacesStart, StartedHolds, PTL
<1> QED BY <1>1, <1>2, <1>3, ThreadHolds, WindowHolds, NoShutdownHolds, ModeRowHolds, AgreeHolds,
           PTL DEF AppSpec

\* A running node was started in the mode the window shows, unless the end of an
\* earlier node was taken for the end of its start (app.rs:462-466).
THEOREM ModeAgreesHolds == AppSpec => []ModeAgrees
<1>1. TypeInv /\ ModeInv => ModeAgrees
  <2> SUFFICES ASSUME TypeInv, ModeInv, Delivered, "ending" \notin missed, node # NoNode
               PROVE  (config.mode = "Tun") = (node.kind = "Privileged")
    BY DEF ModeAgrees
  <2>1. SameMode
    BY DEF Delivered, ModeInv
  <2>2. CASE node = LocalNode
    BY <2>1, <2>2 DEF SameMode, LocalNode
  <2>3. ASSUME NEW s \in Sessions, node = TunNode(s)
        PROVE  (config.mode = "Tun") = (node.kind = "Privileged")
    BY <2>1, <2>3 DEF Delivered, SameMode, TunNode
  <2> QED BY <2>2, <2>3 DEF TypeInv, TypeOK, BackendTypeOK, ActiveNode
<1>2. AppSpec => []TypeInv
  BY ThreadHolds, PTL DEF ThreadInv
<1> QED BY <1>1, <1>2, ModeHolds, PTL
=============================================================================
