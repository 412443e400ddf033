----------------------------- MODULE Privileged -----------------------------
(***************************************************************************)
(* The TUN node runs in a second, elevated process (src/src/privileged.rs).*)
(* This module is one such worker per session: the worker process itself   *)
(* (worker_loop), the GUI-side task that owns the socket to it             *)
(* (parent_connection), the loopback TCP stream between them, and the      *)
(* operations the backend performs on a session (PrivilegedNode).  The     *)
(* backend that calls those operations is module Backend.                  *)
(***************************************************************************)
EXTENDS Messages

VARIABLES
    conn,             \* GUI end of the session's socket
    attached,         \* the PrivilegedNode (command sender, disconnect) exists
    requests,         \* its unbounded mpsc channel of WorkerCommands
    shutdownSent,     \* parent_connection's shutdown_sent
    failureReported,  \* parent_connection's startup_failure_reported
    down, up,         \* bytes on the TCP stream, GUI to worker and back
    worker,           \* program counter of the worker process
    livePeers,        \* peers of the worker's Yggdrasil core
    remote            \* the backend's channel of RemoteEnvelopes

linkVars == <<conn, attached, requests, shutdownSent, failureReported>>
workerVars == <<worker, livePeers>>
privilegedVars == <<linkVars, workerVars, down, up, remote>>

ConnState == {"None", "Listening", "Open", "Ended"}
WorkerState == {"None", "Launched", "Connected", "Starting", "Running",
                "Closing", "Exited"}

PrivilegedTypeOK ==
    /\ conn \in [Sessions -> ConnState]
    /\ attached \in [Sessions -> BOOLEAN]
    /\ requests \in [Sessions -> Seq(WorkerCommand)]
    /\ shutdownSent \in [Sessions -> BOOLEAN]
    /\ failureReported \in [Sessions -> BOOLEAN]
    /\ down \in [Sessions -> Seq(WorkerCommand)]
    /\ up \in [Sessions -> Seq(WorkerEvent)]
    /\ worker \in [Sessions -> WorkerState]
    /\ livePeers \in [Sessions -> SUBSET Peers]
    /\ remote \in Seq(RemoteEnvelope)

PrivilegedInit ==
    /\ conn = [s \in Sessions |-> "None"]
    /\ attached = [s \in Sessions |-> FALSE]
    /\ requests = [s \in Sessions |-> <<>>]
    /\ shutdownSent = [s \in Sessions |-> FALSE]
    /\ failureReported = [s \in Sessions |-> FALSE]
    /\ down = [s \in Sessions |-> <<>>]
    /\ up = [s \in Sessions |-> <<>>]
    /\ worker = [s \in Sessions |-> "None"]
    /\ livePeers = [s \in Sessions |-> {}]
    /\ remote = <<>>

(***************************************************************************)
(* Operations of PrivilegedNode, performed by the backend.                 *)
(***************************************************************************)

\* launch, up to the elevated process: bind the listener, run pkexec or UAC.
LaunchWorker(s) ==
    /\ conn' = [conn EXCEPT ![s] = "Listening"]
    /\ worker' = [worker EXCEPT ![s] = "Launched"]
    /\ UNCHANGED <<attached, requests, shutdownSent, failureReported,
                   livePeers, down, up, remote>>

\* Mistake: the PrivilegedNode's senders are dropped right after accepting.
AcceptWorkerDetached(s) ==
    /\ conn[s] = "Listening"
    /\ worker[s] = "Connected"
    /\ conn' = [conn EXCEPT ![s] = "Open"]
    /\ UNCHANGED <<attached, requests, shutdownSent, failureReported,
                   workerVars, down, up, remote>>

\* accept_authenticated returns the worker's connection and launch spawns
\* parent_connection on it.  The hello of a worker that died in the meantime
\* is indistinguishable from accepting just before it dies.
AcceptWorker(s) ==
    /\ conn[s] = "Listening"
    /\ worker[s] = "Connected"
    /\ conn' = [conn EXCEPT ![s] = "Open"]
    /\ attached' = [attached EXCEPT ![s] = TRUE]
    /\ UNCHANGED <<requests, shutdownSent, failureReported, workerVars, down,
                   up, remote>>

\* accept_authenticated fails and drops the listener.
StopListening(s) ==
    /\ conn[s] = "Listening"
    /\ conn' = [conn EXCEPT ![s] = "Ended"]
    /\ UNCHANGED <<attached, requests, shutdownSent, failureReported,
                   workerVars, down, up, remote>>

\* Mistake: the newest command overtakes the queued ones.
RequestOvertakes(s, command) ==
    /\ requests' = IF conn[s] = "Open"
                   THEN [requests EXCEPT ![s] = <<command>> \o @]
                   ELSE requests
    /\ UNCHANGED <<conn, attached, shutdownSent, failureReported, workerVars,
                   down, up, remote>>

\* A send on the command channel: it fails, silently except in launch, once
\* parent_connection has returned and dropped the receiver.
Request(s, command) ==
    /\ requests' = IF conn[s] = "Open"
                   THEN [requests EXCEPT ![s] = Append(@, command)]
                   ELSE requests
    /\ UNCHANGED <<conn, attached, shutdownSent, failureReported, workerVars,
                   down, up, remote>>

\* Dropping the PrivilegedNode resolves both of parent_connection's receivers;
\* close() fires `disconnect` explicitly just before it drops it.
DropNode(s) ==
    /\ attached' = [attached EXCEPT ![s] = FALSE]
    /\ UNCHANGED <<conn, requests, shutdownSent, failureReported, workerVars,
                   down, up, remote>>

\* The runtime or the whole GUI process is gone: tasks are cancelled where
\* they await, sockets and the listener close, nothing more is reported.
DropAllLinks ==
    /\ conn' = [s \in Sessions |->
                  IF conn[s] \in {"Listening", "Open"} THEN "Ended" ELSE conn[s]]
    /\ attached' = [s \in Sessions |-> FALSE]
    /\ requests' = [s \in Sessions |-> <<>>]
    /\ shutdownSent' = [s \in Sessions |-> FALSE]
    /\ failureReported' = [s \in Sessions |-> FALSE]
    /\ up' = [s \in Sessions |-> <<>>]
    /\ remote' = <<>>
    /\ UNCHANGED <<workerVars, down>>

(***************************************************************************)
(* parent_connection                                                       *)
(***************************************************************************)

\* Mistake: an expected end is not reported.
EndConnectionSilently(s, quiet) ==
    /\ conn' = [conn EXCEPT ![s] = "Ended"]
    /\ requests' = [requests EXCEPT ![s] = <<>>]
    /\ shutdownSent' = [shutdownSent EXCEPT ![s] = FALSE]
    /\ failureReported' = [failureReported EXCEPT ![s] = FALSE]
    /\ up' = [up EXCEPT ![s] = <<>>]
    /\ remote' = IF quiet THEN remote
                 ELSE Append(remote, [session |-> s, event |-> "DisconnectedWithError"])
    /\ UNCHANGED <<attached, workerVars, down>>

\* The code after its loop: classify the end, report it, resolve `closed`.
\* The task's locals, its queue and what it never read die with it.
EndConnection(s, quiet) ==
    /\ conn' = [conn EXCEPT ![s] = "Ended"]
    /\ requests' = [requests EXCEPT ![s] = <<>>]
    /\ shutdownSent' = [shutdownSent EXCEPT ![s] = FALSE]
    /\ failureReported' = [failureReported EXCEPT ![s] = FALSE]
    /\ up' = [up EXCEPT ![s] = <<>>]
    /\ remote' = Append(remote,
                        [session |-> s,
                         event |-> IF quiet THEN "Disconnected"
                                   ELSE "DisconnectedWithError"])
    /\ UNCHANGED <<attached, workerVars, down>>

\* The next queued command; Shutdown when every sender is gone.
NextRequest(s) ==
    IF requests[s] = <<>> THEN ShutdownCommand ELSE Head(requests[s])

CanForward(s) ==
    /\ conn[s] = "Open"
    /\ ~shutdownSent[s]
    /\ requests[s] # <<>> \/ ~attached[s]

ForwardCommand(s) ==
    /\ CanForward(s)
    /\ requests' = [requests EXCEPT ![s] = IF @ = <<>> THEN @ ELSE Tail(@)]
    /\ shutdownSent' = [shutdownSent EXCEPT ![s] = IsShutdown(NextRequest(s))]
    /\ down' = [down EXCEPT ![s] = Append(@, NextRequest(s))]
    /\ UNCHANGED <<conn, attached, failureReported, workerVars, up, remote>>

\* The write fails: only when the worker's end is closed.
ForwardFails(s) ==
    /\ CanForward(s)
    /\ worker[s] = "Exited"
    /\ EndConnection(s, IsShutdown(NextRequest(s)) \/ failureReported[s])

ReceiveEvent(s) ==
    /\ conn[s] = "Open"
    /\ up[s] # <<>>
    /\ up' = [up EXCEPT ![s] = Tail(@)]
    /\ failureReported' =
         [failureReported EXCEPT ![s] = Head(up[s]) = "StartFailed"]
    /\ remote' = Append(remote, [session |-> s, event |-> Head(up[s])])
    /\ UNCHANGED <<conn, attached, requests, shutdownSent, workerVars, down>>

\* Mistakes: a lost worker counts as an expected end; the worker's end closes
\* before its node does.
StreamEndsQuietly(s) ==
    /\ conn[s] = "Open"
    /\ worker[s] = "Exited"
    /\ up[s] = <<>> \/ down[s] # <<>>
    /\ EndConnection(s, TRUE)
StreamEndsEarly(s) ==
    /\ conn[s] = "Open"
    /\ worker[s] \in {"Closing", "Exited"}
    /\ up[s] = <<>> \/ down[s] # <<>>
    /\ EndConnection(s, shutdownSent[s] \/ failureReported[s])

\* The stream ends: orderly once everything was read, or by a reset, which
\* discards what was not read yet, when the worker exited with input unread.
StreamEnds(s) ==
    /\ conn[s] = "Open"
    /\ worker[s] = "Exited"
    /\ up[s] = <<>> \/ down[s] # <<>>
    /\ EndConnection(s, shutdownSent[s] \/ failureReported[s])

DisconnectFires(s) ==
    /\ conn[s] = "Open"
    /\ ~attached[s]
    /\ EndConnection(s, TRUE)

ParentConnection(s) ==
    \/ ForwardCommand(s)
    \/ ForwardFails(s)
    \/ ReceiveEvent(s)
    \/ StreamEnds(s)
    \/ DisconnectFires(s)

(***************************************************************************)
(* worker_loop                                                             *)
(***************************************************************************)

\* A write to the GUI: lost if the GUI closed its end.
Emit(s, event) ==
    up' = IF conn[s] = "Open" THEN [up EXCEPT ![s] = Append(@, event)] ELSE up

GoTo(s, state) == worker' = [worker EXCEPT ![s] = state]

\* Authorized: connect and send the hello, or find the listener gone.
WorkerConnects(s) ==
    /\ worker[s] = "Launched"
    /\ GoTo(s, IF conn[s] = "Listening" THEN "Connected" ELSE "Exited")
    /\ UNCHANGED <<linkVars, livePeers, down, up, remote>>

\* The user refuses, or the launcher fails, before the worker connects.
AuthorizationDenied(s) ==
    /\ worker[s] = "Launched"
    /\ GoTo(s, "Exited")
    /\ UNCHANGED <<linkVars, livePeers, down, up, remote>>

WorkerReadsFirst(s) ==
    /\ worker[s] = "Connected"
    /\ down[s] # <<>>
    /\ down' = [down EXCEPT ![s] = Tail(@)]
    /\ LET first == Head(down[s])
       IN  IF first.command = "Start"
           THEN /\ GoTo(s, "Starting")
                /\ livePeers' = [livePeers EXCEPT ![s] = first.config.peers]
           ELSE /\ GoTo(s, "Exited")
                /\ UNCHANGED livePeers
    /\ UNCHANGED <<linkVars, up, remote>>

\* Mistake: the worker does not report that it started.
WorkerStartsSilently(s) ==
    /\ worker[s] = "Starting"
    /\ GoTo(s, "Running")
    /\ UNCHANGED <<linkVars, livePeers, down, up, remote>>

\* RunningNode::start and the final capability drop succeed.
WorkerStarts(s) ==
    /\ worker[s] = "Starting"
    /\ GoTo(s, "Running")
    /\ Emit(s, "Started")
    /\ UNCHANGED <<linkVars, livePeers, down, remote>>

WorkerStartFails(s) ==
    /\ "startError" \in Faults
    /\ worker[s] = "Starting"
    /\ GoTo(s, "Exited")
    /\ Emit(s, "StartFailed")
    /\ UNCHANGED <<linkVars, livePeers, down, remote>>

\* The node is up but the capability drop fails: close it, say nothing.
WorkerCapabilityFails(s) ==
    /\ "capabilityError" \in Faults
    /\ worker[s] = "Starting"
    /\ GoTo(s, "Closing")
    /\ UNCHANGED <<linkVars, livePeers, down, up, remote>>

WorkerReads(s, command) ==
    /\ worker[s] = "Running"
    /\ down[s] # <<>>
    /\ Head(down[s]).command \in command
    /\ down' = [down EXCEPT ![s] = Tail(@)]
    /\ UNCHANGED <<linkVars, remote>>

WorkerEditsPeers(s) ==
    /\ WorkerReads(s, {"AddPeer", "RemovePeer"})
    /\ livePeers' = [livePeers EXCEPT ![s] = EditPeers(@, Head(down[s]))]
    /\ UNCHANGED <<worker, up>>

\* The core rejects the edit; a second Start is answered the same way.
WorkerRejects(s) ==
    /\ WorkerReads(s, IF "peerError" \in Faults
                      THEN {"AddPeer", "RemovePeer", "Start"} ELSE {"Start"})
    /\ Emit(s, "OperationFailed")
    /\ UNCHANGED <<worker, livePeers>>

WorkerShutsDown(s) ==
    /\ WorkerReads(s, {"Shutdown"})
    /\ GoTo(s, "Closing")
    /\ UNCHANGED <<livePeers, up>>

\* Mistake: a running worker ignores the end of its stream.
RunningWorkerIgnoresEof(s) ==
    /\ conn[s] = "Ended"
    /\ worker[s] = "Connected"
    /\ GoTo(s, "Exited")
    /\ UNCHANGED <<linkVars, livePeers, down, up, remote>>

\* End of file, a reset, or a failed write: the GUI's end is closed.
WorkerLosesGui(s) ==
    /\ conn[s] = "Ended"
    /\ \/ worker[s] = "Connected" /\ GoTo(s, "Exited")
       \/ worker[s] = "Running" /\ GoTo(s, "Closing")
    /\ UNCHANGED <<linkVars, livePeers, down, up, remote>>

\* The one-second status tick, with at most MaxPipe reports in flight.  (Its
\* own disjunct of the backend's Next, which bounds the reports further on.)
WorkerTick(s) ==
    /\ worker[s] = "Running"
    /\ conn[s] = "Open"
    /\ Len(up[s]) + Len(remote) < MaxPipe
    /\ Emit(s, "PeerStatus")
    /\ UNCHANGED <<linkVars, workerVars, down, remote>>

\* node.close() is done and the process returns.
WorkerClosed(s) ==
    /\ worker[s] = "Closing"
    /\ GoTo(s, "Exited")
    /\ UNCHANGED <<linkVars, livePeers, down, up, remote>>

WorkerDies(s) ==
    /\ "workerCrash" \in Faults
    /\ worker[s] \in {"Connected", "Starting", "Running", "Closing"}
    /\ GoTo(s, "Exited")
    /\ UNCHANGED <<linkVars, livePeers, down, up, remote>>

\* Steps worker_loop takes by itself when it can.
WorkerProgress(s) ==
    \/ WorkerReadsFirst(s)
    \/ WorkerStarts(s)
    \/ WorkerStartFails(s)
    \/ WorkerCapabilityFails(s)
    \/ WorkerEditsPeers(s)
    \/ WorkerRejects(s)
    \/ WorkerShutsDown(s)
    \/ WorkerLosesGui(s)
    \/ WorkerClosed(s)

WorkerStep(s) ==
    \/ WorkerConnects(s)
    \/ AuthorizationDenied(s)
    \/ WorkerProgress(s)
    \/ WorkerDies(s)

PrivilegedStep(s) == ParentConnection(s) \/ WorkerStep(s)

=============================================================================
