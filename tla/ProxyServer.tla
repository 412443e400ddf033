----------------------------- MODULE ProxyServer -----------------------------
(***************************************************************************)
(* The local HTTP and SOCKS5 proxy of an in-process node                   *)
(* (src/src/proxy.rs) and the node that starts and closes it               *)
(* (start_proxy and RunningNode::close in backend.rs): the accept task     *)
(* with its JoinSet of clients, each client's conversation, and close()    *)
(* with its two-second limit.  The system proxy is reduced to whether the  *)
(* desktop points here; module SystemProxy has the rest of it.             *)
(***************************************************************************)
EXTENDS Naturals, Sequences

CONSTANTS
    Clients,        \* connections made to the proxy, each at most once
    Silent,         \* bound: those among them that never send anything
    MaxStarts,      \* bound: starts of the node
    ServerFaults    \* what may go wrong, among AllServerFaults

AllServerFaults == {"bindError", "acceptError", "enableError", "verifyError",
                    "restoreError", "closeTimeout"}

ASSUME ProxyServerAssumption ==
    /\ Silent \subseteq Clients
    /\ MaxStarts \in Nat
    /\ ServerFaults \subseteq AllServerFaults

VARIABLES
    node,       \* where start_proxy or RunningNode::close is
    server,     \* the accept task
    listening,  \* its listener exists
    cancelled,  \* the cancellation token
    enabled,    \* the node has a SystemProxy to close
    pointed,    \* the desktop's proxy settings point at the listener
    client,     \* where each connection, and the task that serves it, is
    aborted,    \* the task was told to stop
    job,        \* what the client asks for
    via,        \* how the task reached the target, and at what address
    sent,       \* what the proxy itself told the client
    passed,     \* which parts of the client's stream the target was given
    starts,     \* starts so far
    excused,    \* history: what went wrong, see Excuse
    renamed     \* history: clients for whom two lookups of a name disagreed

taskVars == <<client, aborted, job, via, sent, passed>>
nodeVars == <<node, server, listening, cancelled, enabled, pointed, starts>>
historyVars == <<excused, renamed>>
proxyVars == <<nodeVars, taskVars, historyVars>>

NodeAt == {"Down", "Enabling", "Serving", "Cancelling", "Closing", "Aborting",
           "Unbridging"}

ClientAt == {"None", "Backlog", "Peek", "Greeting", "SocksRequest",
             "HttpRequest", "Resolve", "OverlayDns", "SystemDns", "Connect",
             "Reply", "Body", "Relay", "Closed"}

\* A target is an address of the overlay, another address, or a name.
Target == {"overlay", "other", "name"}

Job == [protocol : {"socks", "tunnel", "forward"}, target : Target]

NoJob == [protocol |-> "none", target |-> "none"]

\* By which network a connection goes, whether its address is an overlay's, and
\* whether it was made.
Route == [network : {"none", "overlay", "direct"},
          address : {"none", "overlay", "other"},
          open : BOOLEAN]

NoRoute == [network |-> "none", address |-> "none", open |-> FALSE]

\* "accept": an accept failed; "stranded": the desktop's settings could not be
\* taken back; "gaveUp": close() had to abort the accept task.
Excuse == {"accept", "stranded", "gaveUp"}

\* The task of client c exists.
Served(c) == client[c] \notin {"None", "Backlog", "Closed"}

ProxyInit ==
    /\ node = "Down"
    /\ server = "None"
    /\ listening = FALSE
    /\ cancelled = FALSE
    /\ enabled = FALSE
    /\ pointed = FALSE
    /\ client = [c \in Clients |-> "None"]
    /\ aborted = [c \in Clients |-> FALSE]
    /\ job = [c \in Clients |-> NoJob]
    /\ via = [c \in Clients |-> NoRoute]
    /\ sent = [c \in Clients |-> <<>>]
    /\ passed = [c \in Clients |-> <<>>]
    /\ starts = 0
    /\ excused = {}
    /\ renamed = {}

(***************************************************************************)
(* start_proxy                                                             *)
(***************************************************************************)

\* The listener is bound before the system proxy is enabled, if it is at all.
Bind(systemProxy) ==
    /\ node = "Down"
    /\ starts < MaxStarts
    /\ ~listening
    /\ starts' = starts + 1
    /\ server' = "Accepting"
    /\ listening' = TRUE
    /\ cancelled' = FALSE
    /\ node' = IF systemProxy THEN "Enabling" ELSE "Serving"
    /\ excused' = excused \ {"accept"}
    /\ UNCHANGED <<enabled, pointed, taskVars, renamed>>

\* The endpoint is taken, by another program or by what an earlier proxy left.
BindFails ==
    /\ node = "Down"
    /\ starts < MaxStarts
    /\ listening \/ "bindError" \in ServerFaults
    /\ starts' = starts + 1
    /\ UNCHANGED <<node, server, listening, cancelled, enabled, pointed, taskVars, historyVars>>

EnableSucceeds ==
    /\ node = "Enabling"
    /\ node' = "Serving"
    /\ enabled' = TRUE
    /\ pointed' = TRUE
    /\ excused' = excused \ {"stranded"}
    /\ UNCHANGED <<server, listening, cancelled, starts, taskVars, renamed>>

\* enable() fails, with the settings as they were, stale ones recovered or not ...
EnableFails ==
    /\ "enableError" \in ServerFaults
    /\ node = "Enabling"
    /\ node' = "Cancelling"
    /\ pointed' \in {FALSE, pointed}
    /\ UNCHANGED <<server, listening, cancelled, enabled, starts, taskVars, historyVars>>

\* ... or written, but not verified or not taken back.
VerifyFails ==
    /\ "verifyError" \in ServerFaults
    /\ node = "Enabling"
    /\ node' = "Cancelling"
    /\ pointed' = TRUE
    /\ excused' = excused \cup {"stranded"}
    /\ UNCHANGED <<server, listening, cancelled, enabled, starts, taskVars, renamed>>

(***************************************************************************)
(* RunningNode::close and UserspaceProxy::close                            *)
(***************************************************************************)

\* Mistake: the proxy is closed before the desktop stops using it.
CloseLeavesSettings ==
    /\ node = "Serving"
    /\ node' = "Cancelling"
    /\ enabled' = FALSE
    /\ UNCHANGED <<server, listening, cancelled, pointed, starts, taskVars, historyVars>>

\* The system proxy, if this node enabled it, is closed first.
CloseSettings ==
    /\ node = "Serving"
    /\ node' = "Cancelling"
    /\ enabled' = FALSE
    /\ \/ ~enabled /\ UNCHANGED <<pointed, excused>>
       \/ enabled /\ pointed' = FALSE /\ UNCHANGED excused
       \/ /\ enabled /\ "restoreError" \in ServerFaults
          /\ excused' = excused \cup {"stranded"}
          /\ UNCHANGED pointed
    /\ UNCHANGED <<server, listening, cancelled, starts, taskVars, renamed>>

Cancel ==
    /\ node = "Cancelling"
    /\ cancelled' = TRUE
    /\ node' = "Closing"
    /\ UNCHANGED <<server, listening, enabled, pointed, starts, taskVars, historyVars>>

\* The accept task ended within the limit, or after it was aborted.
ServerJoined ==
    /\ node \in {"Closing", "Aborting"}
    /\ server = "Ended"
    /\ node' = "Unbridging"
    /\ UNCHANGED <<server, listening, cancelled, enabled, pointed, starts, taskVars, historyVars>>

\* Mistakes: the aborted task is not awaited; close() has no time limit.
AbortUnawaited ==
    /\ node = "Closing"
    /\ server # "Ended"
    /\ node' = "Unbridging"
    /\ excused' = excused \cup {"gaveUp"}
    /\ UNCHANGED <<server, listening, cancelled, enabled, pointed, starts, taskVars, renamed>>
CloseWithoutLimit == FALSE /\ ServerJoined

\* Two seconds passed.
CloseTimesOut ==
    /\ "closeTimeout" \in ServerFaults
    /\ node = "Closing"
    /\ server # "Ended"
    /\ node' = "Aborting"
    /\ excused' = excused \cup {"gaveUp"}
    /\ UNCHANGED <<server, listening, cancelled, enabled, pointed, starts, taskVars, renamed>>

\* The packet bridge's two tasks are aborted and awaited.
AbortBridge ==
    /\ node = "Unbridging"
    /\ node' = "Down"
    /\ UNCHANGED <<server, listening, cancelled, enabled, pointed, starts, taskVars, historyVars>>

(***************************************************************************)
(* The accept task.                                                        *)
(***************************************************************************)

ClientConnects(c) ==
    /\ listening
    /\ client[c] = "None"
    /\ client' = [client EXCEPT ![c] = "Backlog"]
    /\ UNCHANGED <<nodeVars, aborted, job, via, sent, passed, historyVars>>

\* select! takes any ready branch: a connection may be accepted after cancel().
Accept(c) ==
    /\ server = "Accepting"
    /\ client[c] = "Backlog"
    /\ client' = [client EXCEPT ![c] = "Peek"]
    /\ UNCHANGED <<nodeVars, aborted, job, via, sent, passed, historyVars>>

\* abort_all, or the drop of the JoinSet.
AbortClients == aborted' = [c \in Clients |-> aborted[c] \/ Served(c)]

Drain ==
    /\ server = "Accepting"
    /\ server' = "Draining"
    /\ AbortClients
    /\ UNCHANGED <<node, listening, cancelled, enabled, pointed, starts, client, job,
                   via, sent, passed, renamed>>

SeeCancel == cancelled /\ Drain /\ UNCHANGED excused

\* accept() returns an error: the loop ends as if it were cancelled.
AcceptFails ==
    /\ "acceptError" \in ServerFaults
    /\ excused' = excused \cup {"accept"}
    /\ Drain

\* The listener is dropped with the task; the kernel resets who still waits.
DropListener ==
    /\ server' = "Ended"
    /\ listening' = FALSE
    /\ client' = [c \in Clients |-> IF client[c] = "Backlog" THEN "Closed" ELSE client[c]]

Drained ==
    /\ server = "Draining"
    /\ \A c \in Clients : ~Served(c)
    /\ DropListener
    /\ UNCHANGED <<node, cancelled, enabled, pointed, starts, aborted, job, via, sent,
                   passed, historyVars>>

\* The aborted task is dropped where it awaits; its clients are not awaited.
ServerAborted ==
    /\ node = "Aborting"
    /\ server # "Ended"
    /\ DropListener
    /\ AbortClients
    /\ UNCHANGED <<node, cancelled, enabled, pointed, starts, job, via, sent, passed,
                   historyVars>>

(***************************************************************************)
(* serve_client                                                            *)
(***************************************************************************)

GoOn(c, place) == client' = [client EXCEPT ![c] = place]

Tell(c, reply) == sent' = [sent EXCEPT ![c] = Append(@, reply)]

\* One step of client c's task: everything but its own state stays.
TaskStep(c, place) ==
    /\ client[c] = place
    /\ UNCHANGED <<nodeVars, aborted>>

\* An aborted task stops where it awaits; its streams close.
TaskStops(c) ==
    /\ aborted[c] /\ Served(c)
    /\ GoOn(c, "Closed")
    /\ UNCHANGED <<nodeVars, aborted, job, via, sent, passed, historyVars>>

\* Where the task reads from or writes to its client, the client may be gone, or
\* send what is not understood and not answered either.
ClientFails(c) ==
    /\ client[c] \in {"Peek", "Greeting", "SocksRequest", "HttpRequest",
                      "Reply", "Body", "Relay"}
    /\ GoOn(c, "Closed")
    /\ UNCHANGED <<nodeVars, aborted, job, via, sent, passed, historyVars>>

Peek(c) ==
    /\ TaskStep(c, "Peek")
    /\ c \notin Silent
    /\ \E place \in {"Greeting", "HttpRequest"} : GoOn(c, place)
    /\ UNCHANGED <<job, via, sent, passed, historyVars>>

\* negotiate_authentication
Negotiate(c) ==
    /\ TaskStep(c, "Greeting")
    /\ \/ GoOn(c, "SocksRequest") /\ Tell(c, "no authentication")
       \/ GoOn(c, "Closed") /\ Tell(c, "no method")
    /\ UNCHANGED <<job, via, passed, historyVars>>

ReadRequest(c, protocol) ==
    /\ \E target \in Target :
         job' = [job EXCEPT ![c] = [protocol |-> protocol, target |-> target]]
    /\ GoOn(c, "Resolve")
    /\ UNCHANGED <<via, sent, passed, historyVars>>

\* read_socks_request
ReadSocks(c) ==
    /\ TaskStep(c, "SocksRequest")
    /\ ReadRequest(c, "socks")

\* ... a command or an address type it does not have.
RefuseSocks(c) ==
    /\ TaskStep(c, "SocksRequest")
    /\ GoOn(c, "Closed")
    /\ Tell(c, "refused")
    /\ UNCHANGED <<job, via, passed, historyVars>>

\* read_http_request
ReadHttp(c) ==
    /\ TaskStep(c, "HttpRequest")
    /\ \E protocol \in {"tunnel", "forward"} : ReadRequest(c, protocol)

\* Mistake: a tunnel is acknowledged before it is made.
ThroughAcknowledged(c, network, address) ==
    /\ GoOn(c, "Connect")
    /\ via' = [via EXCEPT ![c] =
                 [network |-> network, address |-> address, open |-> FALSE]]
    /\ sent' = IF job[c].protocol = "tunnel"
               THEN [sent EXCEPT ![c] = Append(@, "connected")] ELSE sent
    /\ UNCHANGED <<job, passed, excused>>

\* resolve_overlay_target returned Some address of the overlay, or None: a
\* direct connection whose address connect_direct has to find again for a name.
Through(c, network, address) ==
    /\ GoOn(c, "Connect")
    /\ via' = [via EXCEPT ![c] =
                 [network |-> network, address |-> address, open |-> FALSE]]
    /\ UNCHANGED <<job, sent, passed, excused>>

Continue(c, place) ==
    /\ GoOn(c, place)
    /\ UNCHANGED <<job, via, sent, passed, excused>>

\* Mistake: a name is connected to as it stands.
ResolveSkipsNames(c) ==
    /\ TaskStep(c, "Resolve")
    /\ \/ job[c].target = "overlay" /\ Through(c, "overlay", "overlay")
       \/ job[c].target # "overlay" /\ Through(c, "direct", job[c].target)
    /\ UNCHANGED renamed

\* A name is asked of the overlay DNS server first if one is configured.
Resolve(c) ==
    /\ TaskStep(c, "Resolve")
    /\ \/ job[c].target = "overlay" /\ Through(c, "overlay", "overlay")
       \/ job[c].target = "other" /\ Through(c, "direct", "other")
       \/ /\ job[c].target = "name"
          /\ \E place \in {"OverlayDns", "SystemDns"} : Continue(c, place)
    /\ UNCHANGED renamed

\* Mistake: whatever address the overlay DNS server answers is used.
OverlayDnsTrusted(c) ==
    /\ TaskStep(c, "OverlayDns")
    /\ \/ \E address \in {"overlay", "other"} : Through(c, "overlay", address)
       \/ Continue(c, "SystemDns")
    /\ UNCHANGED renamed

\* An answer counts only if it is an overlay address.
OverlayDnsAnswers(c) ==
    /\ TaskStep(c, "OverlayDns")
    /\ Through(c, "overlay", "overlay") \/ Continue(c, "SystemDns")
    /\ UNCHANGED renamed

\* Five seconds without an answer (or a server that is not IPv6).
OverlayDnsTimesOut(c) ==
    /\ TaskStep(c, "OverlayDns")
    /\ Continue(c, "SystemDns")
    /\ UNCHANGED renamed

\* lookup_host: the first overlay address if there is one; connect_direct will
\* look the name up again, and may get another answer by then.
SystemDns(c) ==
    /\ TaskStep(c, "SystemDns")
    /\ \/ Through(c, "overlay", "overlay") /\ UNCHANGED renamed
       \/ Through(c, "direct", "other") /\ UNCHANGED renamed
       \/ Through(c, "direct", "overlay") /\ renamed' = renamed \cup {c}

ConnectSucceeds(c) ==
    /\ TaskStep(c, "Connect")
    /\ GoOn(c, "Reply")
    /\ via' = [via EXCEPT ![c].open = TRUE]
    /\ UNCHANGED <<job, sent, passed, historyVars>>

\* send_socks_reply(5) or send_http_error.
ConnectFails(c) ==
    /\ TaskStep(c, "Connect")
    /\ GoOn(c, "Closed")
    /\ Tell(c, "failed")
    /\ UNCHANGED <<job, via, passed, historyVars>>

Pass(c, part) == passed' = [passed EXCEPT ![c] = Append(@, part)]

\* send_socks_reply(0), or the first write of start_http_proxying.
Reply(c) ==
    /\ TaskStep(c, "Reply")
    /\ \/ /\ job[c].protocol = "socks"
          /\ GoOn(c, "Relay") /\ Tell(c, "connected") /\ UNCHANGED passed
       \/ /\ job[c].protocol = "tunnel"
          /\ GoOn(c, "Body") /\ Tell(c, "connected") /\ UNCHANGED passed
       \/ /\ job[c].protocol = "forward"
          /\ GoOn(c, "Body") /\ Pass(c, "head") /\ UNCHANGED sent
    /\ UNCHANGED <<job, via, historyVars>>

\* Mistake: what was read beyond the headers of a tunnel is dropped.
ForwardBodyOfRequests(c) ==
    /\ TaskStep(c, "Body")
    /\ GoOn(c, "Relay")
    /\ IF job[c].protocol = "tunnel" THEN UNCHANGED passed ELSE Pass(c, "body")
    /\ UNCHANGED <<job, via, sent, historyVars>>

\* The bytes that arrived with the request's headers.
ForwardBody(c) ==
    /\ TaskStep(c, "Body")
    /\ GoOn(c, "Relay")
    /\ Pass(c, "body")
    /\ UNCHANGED <<job, via, sent, historyVars>>

\* copy_bidirectional
Relay(c) ==
    /\ TaskStep(c, "Relay")
    /\ \A i \in 1..Len(passed[c]) : passed[c][i] # "rest"
    /\ GoOn(c, "Relay")
    /\ Pass(c, "rest")
    /\ UNCHANGED <<job, via, sent, historyVars>>

(***************************************************************************)
(* The next-state relation, by who acts.                                   *)
(***************************************************************************)

NodeStep ==
    \/ \E systemProxy \in BOOLEAN : Bind(systemProxy)
    \/ BindFails
    \/ EnableSucceeds \/ EnableFails \/ VerifyFails
    \/ CloseSettings \/ Cancel \/ ServerJoined \/ CloseTimesOut \/ AbortBridge

ServerStep ==
    \/ \E c \in Clients : Accept(c)
    \/ SeeCancel \/ AcceptFails \/ Drained \/ ServerAborted

ClientStep(c) ==
    \/ Peek(c)
    \/ Negotiate(c) \/ ReadSocks(c) \/ RefuseSocks(c) \/ ReadHttp(c)
    \/ Resolve(c) \/ OverlayDnsAnswers(c) \/ OverlayDnsTimesOut(c) \/ SystemDns(c)
    \/ ConnectSucceeds(c) \/ ConnectFails(c)
    \/ Reply(c) \/ ForwardBody(c) \/ Relay(c)
    \/ ClientFails(c) \/ TaskStops(c)

ProxyNext ==
    \/ NodeStep
    \/ ServerStep
    \/ \E c \in Clients : ClientConnects(c) \/ ClientStep(c)

ProxySpec == ProxyInit /\ [][ProxyNext]_proxyVars

(***************************************************************************)
(* Fairness: close() goes on, its timer fires and an aborted task stops.   *)
(* The accept task may hang, clients may be silent for ever, and so may    *)
(* every DNS server and target.                                            *)
(***************************************************************************)
ProxyFairSpec ==
    /\ ProxySpec
    /\ WF_proxyVars(Cancel)
    /\ WF_proxyVars(ServerJoined)
    /\ WF_proxyVars(CloseTimesOut)
    /\ WF_proxyVars(ServerAborted)
    /\ WF_proxyVars(AbortBridge)
    /\ \A c \in Clients : WF_proxyVars(TaskStops(c))

(***************************************************************************)
(* Properties.                                                             *)
(***************************************************************************)

ProxyTypeOK ==
    /\ node \in NodeAt
    /\ server \in {"None", "Accepting", "Draining", "Ended"}
    /\ {listening, cancelled, enabled, pointed} \subseteq BOOLEAN
    /\ client \in [Clients -> ClientAt]
    /\ aborted \in [Clients -> BOOLEAN]
    /\ job \in [Clients -> Job \cup {NoJob}]
    /\ via \in [Clients -> Route]
    /\ excused \subseteq Excuse
    /\ renamed \subseteq Clients

\* When close() has returned, the endpoint can be bound again and nobody is
\* served any more; after an abort, tasks may only be on their way to stop
\* (proxy.rs:88-89, 101-108).
EndpointFreed ==
    node = "Down" =>
        /\ ~listening
        /\ \A c \in Clients : Served(c) => aborted[c] /\ "gaveUp" \in excused

\* The desktop never points at an endpoint nobody listens on: it is pointed there
\* after the bind and away before the close, whichever of them fails, unless an
\* accept failed or the settings could not be taken back (backend.rs:445-449,
\* 476-499).
DesktopServed ==
    pointed /\ excused \cap {"accept", "stranded"} = {} => listening

\* A client is told at most one outcome, as the last thing the proxy itself
\* says, and "connected" only if there is a connection (proxy.rs:238-304).
AnswersTruthful ==
    \A c \in Clients : \A i \in 1..Len(sent[c]) :
        sent[c][i] # "no authentication" =>
            /\ i = Len(sent[c])
            /\ sent[c][i] = "connected" => via[c].open

\* What a client sends reaches the target in order, nothing left out between the
\* request and the stream after it (proxy.rs:306-336).
Parts == [none |-> <<>>, socks |-> <<"rest">>, tunnel |-> <<"body", "rest">>,
          forward |-> <<"head", "body", "rest">>]

StreamInOrder ==
    \A c \in Clients : passed[c] = SubSeq(Parts[job[c].protocol], 1, Len(passed[c]))

\* Overlay addresses are reached through the node and no others are, unless the
\* system's answers about a name changed between two lookups (proxy.rs:572-612).
OverlayStaysInside ==
    \A c \in Clients : via[c].network # "none" /\ c \notin renamed =>
        (via[c].network = "overlay") = (via[c].address = "overlay")

\* close() ends, even if the accept task does not, and with it every client's
\* task, however silent the client is (proxy.rs:100-115).
CloseEnds ==
    /\ node = "Closing" ~> node = "Down"
    /\ \A c \in Clients :
          node \in {"Closing", "Aborting"} /\ Served(c) ~> client[c] = "Closed"

=============================================================================
