----------------------------- MODULE ProxyProofs -----------------------------
(***************************************************************************)
(* Proofs about the local proxy server, for any number of clients and of   *)
(* starts and every set of faults: what the node and the accept task agree *)
(* on, and what a client's task says, passes on and connects to.           *)
(***************************************************************************)
EXTENDS ProxyServer, SequenceTheorems, TLAPS

(***************************************************************************)
(* The part of the state the node and the accept task work on.             *)
(***************************************************************************)

NodeTypeOK ==
    /\ node \in NodeAt
    /\ server \in {"None", "Accepting", "Draining", "Ended"}
    /\ listening \in BOOLEAN
    /\ cancelled \in BOOLEAN
    /\ enabled \in BOOLEAN
    /\ pointed \in BOOLEAN
    /\ excused \subseteq Excuse

\* The listener lives as long as the accept task, which outlives the node's
\* serving unless an accept failed; only a serving node holds a SystemProxy,
\* and only that, or an excuse, lets the desktop point here.
NodeInv ==
    /\ NodeTypeOK
    /\ listening <=> server \in {"Accepting", "Draining"}
    /\ cancelled => node \in {"Closing", "Aborting", "Unbridging", "Down"}
    /\ node \in {"Down", "Unbridging"} => server \in {"None", "Ended"}
    /\ server = "None" => node = "Down"
    /\ server \in {"Draining", "Ended"} =>
         node \in {"Closing", "Aborting", "Unbridging", "Down"} \/ "accept" \in excused
    /\ enabled => node = "Serving"
    /\ pointed => enabled \/ "stranded" \in excused
    /\ node = "Aborting" => "gaveUp" \in excused

\* Once the accept task drains, whoever is served is being aborted; when it has
\* ended, only a close that gave up has left somebody behind.
ServedInv ==
    /\ client \in [Clients -> ClientAt]
    /\ aborted \in [Clients -> BOOLEAN]
    /\ server = "Draining" => \A c \in Clients : Served(c) => aborted[c]
    /\ server \in {"None", "Ended"} =>
         \A c \in Clients : Served(c) => aborted[c] /\ "gaveUp" \in excused

\* A client's task changes nothing of the node's or of another client's, and
\* goes on only while it is served.
LEMMA ClientsApart ==
    ASSUME client \in [Clients -> ClientAt], NEW c \in Clients, ClientStep(c)
    PROVE  /\ UNCHANGED <<nodeVars, aborted, excused>>
           /\ Served(c)
           /\ \E place \in ClientAt \ {"None", "Backlog"} :
                client' = [client EXCEPT ![c] = place]
<1> USE DEF Served, ClientAt, TaskStep, GoOn, historyVars
<1>1. CASE Peek(c) \/ Negotiate(c) \/ ReadSocks(c) \/ RefuseSocks(c) \/ ReadHttp(c)
  BY <1>1 DEF Peek, Negotiate, ReadSocks, RefuseSocks, ReadHttp, ReadRequest
<1>2. CASE Resolve(c)
  BY <1>2 DEF Resolve, Through, Continue
<1>3. CASE OverlayDnsAnswers(c) \/ OverlayDnsTimesOut(c) \/ SystemDns(c)
  BY <1>3 DEF OverlayDnsAnswers, OverlayDnsTimesOut, SystemDns, Through, Continue
<1>4. CASE ConnectSucceeds(c) \/ ConnectFails(c)
  BY <1>4 DEF ConnectSucceeds, ConnectFails
<1>5. CASE Reply(c)
  BY <1>5 DEF Reply
<1>6. CASE ForwardBody(c) \/ Relay(c)
  BY <1>6 DEF ForwardBody, Relay
<1>7. CASE ClientFails(c) \/ TaskStops(c)
  BY <1>7 DEF ClientFails, TaskStops
<1> QED BY <1>1, <1>2, <1>3, <1>4, <1>5, <1>6, <1>7 DEF ClientStep

LEMMA NodeInvInit == ProxyInit => NodeInv /\ ServedInv
BY DEF ProxyInit, NodeInv, NodeTypeOK, ServedInv, NodeAt, ClientAt, Excuse, Served

\* Starting and closing, step by step, where the clients' tasks stay as they are.
LEMMA NodeKeepsInv ==
    ASSUME NodeInv, ServedInv, NodeStep
    PROVE  NodeInv' /\ ServedInv'
<1>1. ServedInv'
  <2>1. /\ UNCHANGED <<client, aborted>>
        /\ "gaveUp" \in excused => "gaveUp" \in excused'
        /\ server' = server \/ server' = "Accepting"
    BY DEF NodeStep, Bind, BindFails, EnableSucceeds, EnableFails, VerifyFails,
           CloseSettings, Cancel, ServerJoined, CloseTimesOut, AbortBridge,
           taskVars, historyVars
  <2> QED BY <2>1 DEF ServedInv, Served
<1> SUFFICES NodeInv'
  BY <1>1
<1> USE DEF NodeInv, NodeTypeOK, NodeAt, Excuse
<1>2. ASSUME NEW systemProxy \in BOOLEAN, Bind(systemProxy) PROVE NodeInv'
  <2>1. node' \in {"Enabling", "Serving"}
    BY <1>2 DEF Bind
  <2> QED BY <1>2, <2>1 DEF Bind
<1>3. CASE BindFails
  BY <1>3 DEF BindFails, historyVars
<1>4. CASE EnableSucceeds
  BY <1>4 DEF EnableSucceeds
<1>5. CASE EnableFails
  <2>1. pointed' => pointed
    BY <1>5 DEF EnableFails
  <2>2. pointed' \in BOOLEAN
    BY <1>5 DEF EnableFails
  <2> QED BY <1>5, <2>1, <2>2 DEF EnableFails, historyVars
<1>6. CASE VerifyFails
  BY <1>6 DEF VerifyFails
<1>7. CASE CloseSettings
  <2>1. CASE ~enabled /\ UNCHANGED <<pointed, excused>>
    BY <1>7, <2>1 DEF CloseSettings
  <2>2. CASE enabled /\ pointed' = FALSE /\ UNCHANGED excused
    BY <1>7, <2>2 DEF CloseSettings
  <2>3. CASE excused' = excused \cup {"stranded"} /\ UNCHANGED pointed
    BY <1>7, <2>3 DEF CloseSettings
  <2> QED BY <1>7, <2>1, <2>2, <2>3 DEF CloseSettings
<1>8. CASE Cancel
  BY <1>8 DEF Cancel, historyVars
<1>9. CASE ServerJoined
  BY <1>9 DEF ServerJoined, historyVars
<1>10. CASE CloseTimesOut
  BY <1>10 DEF CloseTimesOut
<1>11. CASE AbortBridge
  BY <1>11 DEF AbortBridge, historyVars
<1> QED BY <1>2, <1>3, <1>4, <1>5, <1>6, <1>7, <1>8, <1>9, <1>10, <1>11
    DEF NodeStep

\* The accept task.
LEMMA ServerKeepsInv ==
    ASSUME NodeInv, ServedInv, ServerStep
    PROVE  NodeInv' /\ ServedInv'
<1> USE DEF NodeInv, NodeTypeOK, ServedInv, Served, Excuse, ClientAt, historyVars
<1>1. CASE \E c \in Clients : Accept(c)
  BY <1>1 DEF Accept, nodeVars
<1>2. CASE SeeCancel \/ AcceptFails
  <2>1. Drain
    BY <1>2 DEF SeeCancel, AcceptFails
  <2>2. NodeInv'
    BY <1>2, <2>1 DEF SeeCancel, AcceptFails, Drain
  <2>3. ServedInv'
    BY <2>1 DEF Drain, AbortClients
  <2> QED BY <2>2, <2>3
<1>3. CASE Drained
  <2>1. NodeInv'
    BY <1>3 DEF Drained, DropListener
  <2>2. ServedInv'
    BY <1>3 DEF Drained, DropListener
  <2> QED BY <2>1, <2>2
<1>4. CASE ServerAborted
  <2>1. NodeInv'
    BY <1>4 DEF ServerAborted, DropListener
  <2>2. ServedInv'
    BY <1>4 DEF ServerAborted, DropListener, AbortClients
  <2> QED BY <2>1, <2>2
<1> QED BY <1>1, <1>2, <1>3, <1>4 DEF ServerStep

\* The invariant of node and accept task holds of every behaviour.
LEMMA NodeAndServer == ProxySpec => [](NodeInv /\ ServedInv)
<1>1. ASSUME NodeInv, ServedInv, [ProxyNext]_proxyVars PROVE NodeInv' /\ ServedInv'
  <2>1. CASE NodeStep
    BY <1>1, <2>1, NodeKeepsInv
  <2>2. CASE ServerStep
    BY <1>1, <2>2, ServerKeepsInv
  <2>3. ASSUME NEW c \in Clients, ClientConnects(c) \/ ClientStep(c)
        PROVE  NodeInv' /\ ServedInv'
    <3>1. /\ UNCHANGED <<nodeVars, aborted, excused>>
          /\ client' \in [Clients -> ClientAt]
          /\ \A d \in Clients : Served(d)' => Served(d)
      <4>1. CASE ClientConnects(c)
        BY <1>1, <4>1 DEF ClientConnects, ServedInv, Served, ClientAt, historyVars
      <4>2. CASE ClientStep(c)
        BY <1>1, <4>2, ClientsApart DEF ServedInv, Served
      <4> QED BY <2>3, <4>1, <4>2
    <3>2. NodeInv'
      BY <1>1, <3>1 DEF NodeInv, NodeTypeOK, nodeVars
    <3>3. ServedInv'
      BY <1>1, <3>1 DEF ServedInv, nodeVars
    <3> QED BY <3>2, <3>3
  <2>4. CASE UNCHANGED proxyVars
    BY <1>1, <2>4 DEF NodeInv, NodeTypeOK, ServedInv, Served, proxyVars, nodeVars,
                      taskVars, historyVars
  <2> QED BY <1>1, <2>1, <2>2, <2>3, <2>4 DEF ProxyNext
<1> QED BY <1>1, NodeInvInit, PTL DEF ProxySpec

\* The desktop is never left pointing at an endpoint nobody listens on, unless an
\* accept failed or the settings could not be taken back: start_proxy and
\* RunningNode::close order the proxy and the settings rightly.
THEOREM DesktopServedHolds == ProxySpec => []DesktopServed
<1>1. NodeInv => DesktopServed
  BY DEF NodeInv, NodeTypeOK, NodeAt, DesktopServed
<1> QED BY <1>1, NodeAndServer, PTL

\* UserspaceProxy::close returns with the endpoint free and nobody served, but for
\* the aborted tasks of an accept task that had to be aborted itself.
THEOREM EndpointFreedHolds == ProxySpec => []EndpointFreed
<1>1. NodeInv /\ ServedInv => EndpointFreed
  BY DEF NodeInv, NodeTypeOK, ServedInv, EndpointFreed
<1> QED BY <1>1, NodeAndServer, PTL

(***************************************************************************)
(* Sequences of words.                                                     *)
(***************************************************************************)

\* What the proxy says to clients and passes on to targets.
Words == {"no authentication", "no method", "refused", "failed", "connected",
          "head", "body", "rest"}

\* What Append does, with the sequence under one name.
LEMMA Appended ==
    ASSUME NEW S, NEW s \in Seq(S), NEW x \in S, NEW t, t = Append(s, x)
    PROVE  /\ t \in Seq(S)
           /\ Len(t) = Len(s) + 1
           /\ t[Len(s) + 1] = x
           /\ \A i \in 1..Len(s) : t[i] = s[i]
BY AppendProperties

\* Appending to a sequence of one element ...
LEMMA AppendToOne ==
    ASSUME NEW S, NEW a \in S, NEW x \in S
    PROVE  Append(<<a>>, x) = <<a, x>>
<1> DEFINE s == <<a>>
           t == Append(s, x)
<1>1. s \in Seq(S)
  OBVIOUS
<1>2. Len(s) = 1 /\ s[1] = a
  OBVIOUS
<1> HIDE DEF s
<1>3. /\ t \in Seq(S)
      /\ Len(t) = Len(s) + 1
      /\ t[Len(s) + 1] = x
      /\ \A i \in 1..Len(s) : t[i] = s[i]
  BY <1>1, Appended
<1> HIDE DEF t
<1>4. Len(t) = 2
  BY <1>2, <1>3
<1>5. t[1] = a
  BY <1>2, <1>3
<1>6. t[2] = x
  BY <1>2, <1>3
<1>7. t \in Seq(S) /\ <<a, x>> \in Seq(S)
  BY <1>3
<1>8. Len(t) = Len(<<a, x>>) /\ \A i \in 1..Len(t) : t[i] = <<a, x>>[i]
  BY <1>4, <1>5, <1>6
<1>9. t = <<a, x>>
  BY <1>7, <1>8, SeqEqual
<1> QED BY <1>9 DEF s, t

\* ... to a sequence of two.
LEMMA AppendToTwo ==
    ASSUME NEW S, NEW a \in S, NEW b \in S, NEW x \in S
    PROVE  Append(<<a, b>>, x) = <<a, b, x>>
<1> DEFINE s == <<a, b>>
           t == Append(s, x)
<1>1. s \in Seq(S)
  OBVIOUS
<1>2. Len(s) = 2 /\ s[1] = a /\ s[2] = b
  OBVIOUS
<1> HIDE DEF s
<1>3. /\ t \in Seq(S)
      /\ Len(t) = Len(s) + 1
      /\ t[Len(s) + 1] = x
      /\ \A i \in 1..Len(s) : t[i] = s[i]
  BY <1>1, Appended
<1> HIDE DEF t
<1>4. Len(t) = 3
  BY <1>2, <1>3
<1>5. t[1] = a
  BY <1>2, <1>3
<1>6. t[2] = b
  BY <1>2, <1>3
<1>7. t[3] = x
  BY <1>2, <1>3
<1>8. t \in Seq(S) /\ <<a, b, x>> \in Seq(S)
  BY <1>3
<1>9. Len(t) = Len(<<a, b, x>>) /\ \A i \in 1..Len(t) : t[i] = <<a, b, x>>[i]
  BY <1>4, <1>5, <1>6, <1>7
<1>10. t = <<a, b, x>>
  BY <1>8, <1>9, SeqEqual
<1> QED BY <1>10 DEF s, t

\* A sequence begins with what agrees with it.
LEMMA Prefix ==
    ASSUME NEW S, NEW s \in Seq(S), NEW t \in Seq(S), Len(t) <= Len(s),
           \A i \in 1..Len(t) : s[i] = t[i]
    PROVE  SubSeq(s, 1, Len(t)) = t
<1>1. \A i \in 1..Len(t) : s[i] \in S
  OBVIOUS
<1>2. /\ SubSeq(s, 1, Len(t)) \in Seq(S)
      /\ Len(SubSeq(s, 1, Len(t))) = Len(t)
      /\ \A i \in 1..Len(t) : SubSeq(s, 1, Len(t))[i] = s[i]
  BY <1>1, SubSeqProperties
<1> QED BY <1>2, SeqEqual

\* How the two streams of several parts begin.
LEMMA Beginnings ==
    /\ SubSeq(<<"body", "rest">>, 1, 2) = <<"body", "rest">>
    /\ SubSeq(<<"head", "body", "rest">>, 1, 2) = <<"head", "body">>
    /\ SubSeq(<<"head", "body", "rest">>, 1, 3) = <<"head", "body", "rest">>
<1>1. SubSeq(<<"body", "rest">>, 1, 2) = <<"body", "rest">>
  <2> DEFINE s == <<"body", "rest">>
             t == <<"body", "rest">>
  <2>1. s \in Seq(Words) /\ t \in Seq(Words)
    BY DEF Words
  <2>2. Len(s) = 2 /\ Len(t) = 2
    OBVIOUS
  <2>3. \A i \in 1..2 : s[i] = t[i]
    OBVIOUS
  <2> HIDE DEF s, t
  <2>4. SubSeq(s, 1, 2) = t
    BY <2>1, <2>2, <2>3, Prefix
  <2> QED BY <2>4 DEF s, t
<1>2. SubSeq(<<"head", "body", "rest">>, 1, 2) = <<"head", "body">>
  <2> DEFINE s == <<"head", "body", "rest">>
             t == <<"head", "body">>
  <2>1. s \in Seq(Words) /\ t \in Seq(Words)
    BY DEF Words
  <2>2. Len(s) = 3 /\ Len(t) = 2
    OBVIOUS
  <2>3. \A i \in 1..2 : s[i] = t[i]
    OBVIOUS
  <2> HIDE DEF s, t
  <2>4. SubSeq(s, 1, 2) = t
    BY <2>1, <2>2, <2>3, Prefix
  <2> QED BY <2>4 DEF s, t
<1>3. SubSeq(<<"head", "body", "rest">>, 1, 3) = <<"head", "body", "rest">>
  <2> DEFINE s == <<"head", "body", "rest">>
             t == <<"head", "body", "rest">>
  <2>1. s \in Seq(Words) /\ t \in Seq(Words)
    BY DEF Words
  <2>2. Len(s) = 3 /\ Len(t) = 3
    OBVIOUS
  <2>3. \A i \in 1..3 : s[i] = t[i]
    OBVIOUS
  <2> HIDE DEF s, t
  <2>4. SubSeq(s, 1, 3) = t
    BY <2>1, <2>2, <2>3, Prefix
  <2> QED BY <2>4 DEF s, t
<1> QED BY <1>1, <1>2, <1>3

\* A stream whose rest was passed has it.
LEMMA EndsInRest ==
    ASSUME NEW s, \A i \in 1..Len(s) : s[i] # "rest"
    PROVE  s # <<"rest">> /\ s # <<"body", "rest">> /\ s # <<"head", "body", "rest">>
<1>1. ASSUME s = <<"rest">> PROVE FALSE
  <2>1. Len(s) = 1 /\ s[1] = "rest"
    BY <1>1
  <2> QED BY <2>1
<1>2. ASSUME s = <<"body", "rest">> PROVE FALSE
  <2>1. Len(s) = 2 /\ s[2] = "rest"
    BY <1>2
  <2> QED BY <2>1
<1>3. ASSUME s = <<"head", "body", "rest">> PROVE FALSE
  <2>1. Len(s) = 3 /\ s[3] = "rest"
    BY <1>3
  <2> QED BY <2>1
<1> QED BY <1>1, <1>2, <1>3

(***************************************************************************)
(* What a client's task says, passes on and connects to.                   *)
(***************************************************************************)

TalkTypeOK ==
    /\ client \in [Clients -> ClientAt]
    /\ job \in [Clients -> Job \cup {NoJob}]
    /\ via \in [Clients -> Route]
    /\ sent \in [Clients -> Seq(Words)]
    /\ passed \in [Clients -> Seq(Words)]
    /\ renamed \subseteq Clients

Unanswered == {"None", "Backlog", "Peek", "Greeting", "SocksRequest", "HttpRequest",
               "Resolve", "OverlayDns", "SystemDns", "Connect", "Reply"}

\* An outcome is the last thing that is said; there is none before the reply, and
\* there is a connection by then.
AnswerOf(c) ==
    /\ \A i \in 1..Len(sent[c]) :
         sent[c][i] # "no authentication" =>
            /\ client[c] \notin Unanswered
            /\ i = Len(sent[c])
            /\ sent[c][i] = "connected" => via[c].open
    /\ client[c] = "Reply" => via[c].open

\* What was passed on, by where the task is.
StreamOf(c) ==
    LET protocol == job[c].protocol
    IN  /\ client[c] \in Unanswered => passed[c] = <<>>
        /\ client[c] = "Body" =>
             \/ protocol = "tunnel" /\ passed[c] = <<>>
             \/ protocol = "forward" /\ passed[c] = <<"head">>
        /\ client[c] = "Relay" =>
             \/ protocol = "socks" /\ passed[c] \in {<<>>, <<"rest">>}
             \/ protocol = "tunnel" /\ passed[c] \in {<<"body">>, <<"body", "rest">>}
             \/ protocol = "forward" /\ passed[c] \in {<<"head", "body">>,
                                                     <<"head", "body", "rest">>}
        /\ passed[c] = SubSeq(Parts[protocol], 1, Len(passed[c]))

InsideOf(c) ==
    via[c].network # "none" /\ c \notin renamed =>
        (via[c].network = "overlay" <=> via[c].address = "overlay")

TalkInv ==
    /\ TalkTypeOK
    /\ \A c \in Clients : AnswerOf(c) /\ StreamOf(c) /\ InsideOf(c)

LEMMA TalkInit == ProxyInit => TalkInv
<1> SUFFICES ASSUME ProxyInit PROVE TalkInv
  OBVIOUS
<1> USE DEF ProxyInit
<1>1. TalkTypeOK
  BY DEF TalkTypeOK, ClientAt, NoJob, NoRoute, Route
<1>2. ASSUME NEW c \in Clients PROVE AnswerOf(c) /\ StreamOf(c) /\ InsideOf(c)
  BY <1>2 DEF AnswerOf, StreamOf, InsideOf, NoJob, NoRoute, Parts
<1> QED BY <1>1, <1>2 DEF TalkInv

\* What one task does is nothing to the others.
LEMMA TaskApart ==
    ASSUME TalkTypeOK, NEW c \in Clients, ClientStep(c), NEW d \in Clients \ {c}
    PROVE  /\ UNCHANGED <<client[d], job[d], via[d], sent[d], passed[d]>>
           /\ d \in renamed' <=> d \in renamed
<1> USE DEF TalkTypeOK, TaskStep, GoOn, Tell, historyVars
<1>1. CASE Peek(c) \/ Negotiate(c) \/ ReadSocks(c) \/ RefuseSocks(c) \/ ReadHttp(c)
  BY <1>1 DEF Peek, Negotiate, ReadSocks, RefuseSocks, ReadHttp, ReadRequest
<1>2. CASE Resolve(c)
  BY <1>2 DEF Resolve, Through, Continue
<1>3. CASE OverlayDnsAnswers(c) \/ OverlayDnsTimesOut(c) \/ SystemDns(c)
  BY <1>3 DEF OverlayDnsAnswers, OverlayDnsTimesOut, SystemDns, Through, Continue
<1>4. CASE ConnectSucceeds(c) \/ ConnectFails(c)
  BY <1>4 DEF ConnectSucceeds, ConnectFails
<1>5. CASE Reply(c)
  BY <1>5 DEF Reply, Pass
<1>6. CASE ForwardBody(c) \/ Relay(c)
  BY <1>6 DEF ForwardBody, Relay, Pass
<1>7. CASE ClientFails(c) \/ TaskStops(c)
  BY <1>7 DEF ClientFails, TaskStops
<1> QED BY <1>1, <1>2, <1>3, <1>4, <1>5, <1>6, <1>7 DEF ClientStep

\* ... and to the types.
LEMMA TaskKeepsTypes ==
    ASSUME TalkTypeOK, NEW c \in Clients, ClientStep(c)
    PROVE  TalkTypeOK'
<1> USE DEF TalkTypeOK, TaskStep, GoOn, historyVars, ClientAt
<1>a. ASSUME NEW reply \in Words, Tell(c, reply)
      PROVE  sent' \in [Clients -> Seq(Words)]
  <2>1. Append(sent[c], reply) \in Seq(Words)
    BY AppendProperties
  <2> QED BY <1>a, <2>1 DEF Tell
<1>b. ASSUME NEW part \in Words, Pass(c, part)
      PROVE  passed' \in [Clients -> Seq(Words)]
  <2>1. Append(passed[c], part) \in Seq(Words)
    BY AppendProperties
  <2> QED BY <1>b, <2>1 DEF Pass
<1>c. /\ {"no authentication", "no method", "refused", "failed", "connected"} \subseteq Words
      /\ {"head", "body", "rest"} \subseteq Words
  BY DEF Words
<1>1. CASE Peek(c)
  BY <1>1 DEF Peek
<1>2. CASE Negotiate(c) \/ RefuseSocks(c)
  <2>1. \E reply \in Words : Tell(c, reply)
    BY <1>2, <1>c DEF Negotiate, RefuseSocks
  <2>2. sent' \in [Clients -> Seq(Words)]
    BY <1>a, <2>1
  <2> QED BY <1>2, <2>2 DEF Negotiate, RefuseSocks
<1>3. CASE ReadSocks(c) \/ ReadHttp(c)
  <2>1. PICK protocol \in {"socks", "tunnel", "forward"} : ReadRequest(c, protocol)
    BY <1>3 DEF ReadSocks, ReadHttp
  <2>2. PICK target \in Target :
           job' = [job EXCEPT ![c] = [protocol |-> protocol, target |-> target]]
    BY <2>1 DEF ReadRequest
  <2>3. [protocol |-> protocol, target |-> target] \in Job
    BY <2>1, <2>2 DEF Job
  <2>4. job' \in [Clients -> Job \cup {NoJob}]
    BY <2>2, <2>3
  <2> QED BY <2>1, <2>4 DEF ReadRequest
<1>4. ASSUME NEW network \in {"overlay", "direct"}, NEW address \in {"overlay", "other"},
             Through(c, network, address)
      PROVE  client' \in [Clients -> ClientAt] /\ via' \in [Clients -> Route]
  <2>1. [network |-> network, address |-> address, open |-> FALSE] \in Route
    BY <1>4 DEF Route
  <2> QED BY <1>4, <2>1 DEF Through
<1>5. CASE Resolve(c)
  <2>1. /\ client' \in [Clients -> ClientAt]
        /\ via' \in [Clients -> Route]
        /\ UNCHANGED <<job, sent, passed, renamed>>
    <3>1. CASE Through(c, "overlay", "overlay")
      BY <1>4, <1>5, <3>1 DEF Resolve, Through
    <3>2. CASE Through(c, "direct", "other")
      BY <1>4, <1>5, <3>2 DEF Resolve, Through
    <3>3. CASE \E place \in {"OverlayDns", "SystemDns"} : Continue(c, place)
      BY <1>5, <3>3 DEF Resolve, Continue
    <3> QED BY <1>5, <3>1, <3>2, <3>3 DEF Resolve
  <2> QED BY <2>1
<1>6. CASE OverlayDnsAnswers(c) \/ OverlayDnsTimesOut(c)
  <2>1. CASE Through(c, "overlay", "overlay")
    BY <1>4, <1>6, <2>1 DEF OverlayDnsAnswers, OverlayDnsTimesOut, Through
  <2>2. CASE Continue(c, "SystemDns")
    BY <1>6, <2>2 DEF OverlayDnsAnswers, OverlayDnsTimesOut, Continue
  <2> QED BY <1>6, <2>1, <2>2 DEF OverlayDnsAnswers, OverlayDnsTimesOut
<1>7. CASE SystemDns(c)
  <2>1. /\ client' \in [Clients -> ClientAt]
        /\ via' \in [Clients -> Route]
    BY <1>4, <1>7 DEF SystemDns
  <2> QED BY <1>7, <2>1 DEF SystemDns, Through
<1>8. CASE ConnectSucceeds(c)
  <2>1. [via[c] EXCEPT !.open = TRUE] \in Route
    BY DEF Route
  <2>2. via' \in [Clients -> Route]
    BY <1>8, <2>1 DEF ConnectSucceeds
  <2> QED BY <1>8, <2>2 DEF ConnectSucceeds
<1>9. CASE ConnectFails(c)
  BY <1>9, <1>a, <1>c DEF ConnectFails
<1>10. CASE Reply(c)
  <2>1. CASE Tell(c, "connected") /\ UNCHANGED passed
    BY <1>10, <1>a, <1>c, <2>1 DEF Reply
  <2>2. CASE Pass(c, "head") /\ UNCHANGED sent
    BY <1>10, <1>b, <1>c, <2>2 DEF Reply
  <2> QED BY <1>10, <2>1, <2>2 DEF Reply
<1>11. CASE ForwardBody(c) \/ Relay(c)
  <2>1. \E part \in Words : Pass(c, part)
    BY <1>11, <1>c DEF ForwardBody, Relay
  <2>2. passed' \in [Clients -> Seq(Words)]
    BY <1>b, <2>1
  <2> QED BY <1>11, <2>2 DEF ForwardBody, Relay
<1>12. CASE ClientFails(c) \/ TaskStops(c)
  BY <1>12 DEF ClientFails, TaskStops
<1> QED BY <1>1, <1>2, <1>3, <1>5, <1>6, <1>7, <1>8, <1>9, <1>10, <1>11, <1>12
    DEF ClientStep

\* A task says an outcome once, and the truth.
LEMMA TaskAnswers ==
    ASSUME TalkTypeOK, NEW c \in Clients, ClientStep(c), AnswerOf(c)
    PROVE  AnswerOf(c)'
<1> DEFINE Quiet == \A i \in 1..Len(sent[c]) : sent[c][i] = "no authentication"
<1> USE DEF TalkTypeOK, TaskStep, GoOn
<1>1. client[c] \in Unanswered => Quiet
  BY DEF AnswerOf
<1>2. ASSUME client[c] \in Unanswered, UNCHANGED sent, client'[c] # "Reply"
      PROVE  AnswerOf(c)'
  BY <1>1, <1>2 DEF AnswerOf
<1>3. ASSUME client[c] \in Unanswered, NEW reply \in Words,
             sent'[c] = Append(sent[c], reply), client'[c] # "Reply",
             reply # "no authentication" => client'[c] \notin Unanswered,
             reply = "connected" => via'[c].open
      PROVE  AnswerOf(c)'
  <2>1. \A i \in 1..Len(sent'[c]) :
           \/ i = Len(sent'[c]) /\ sent'[c][i] = reply
           \/ sent'[c][i] = "no authentication"
    <3> DEFINE old == sent[c]
               new == Append(old, reply)
    <3>1. old \in Seq(Words) /\ sent'[c] = new
      BY <1>3
    <3>2. \A i \in 1..Len(old) : old[i] = "no authentication"
      BY <1>1, <1>3
    <3> HIDE DEF old
    <3>3. /\ Len(new) = Len(old) + 1
          /\ new[Len(old) + 1] = reply
          /\ \A i \in 1..Len(old) : new[i] = old[i]
      BY <3>1, AppendProperties
    <3> HIDE DEF new
    <3>4. Len(old) \in Nat
      BY <3>1
    <3>5. ASSUME NEW i \in 1..Len(new)
          PROVE  (i = Len(new) /\ new[i] = reply) \/ new[i] = "no authentication"
      <4>1. CASE i = Len(old) + 1
        BY <3>3, <4>1
      <4>2. CASE i # Len(old) + 1
        <5>1. i \in 1..Len(old)
          BY <3>3, <3>4, <3>5, <4>2
        <5> QED BY <3>2, <3>3, <5>1
      <4> QED BY <4>1, <4>2
    <3> QED BY <3>1, <3>5
  <2> QED BY <1>3, <2>1 DEF AnswerOf
<1>w. {"no authentication", "no method", "refused", "failed", "connected"} \subseteq Words
  BY DEF Words
<1>4. ASSUME client[c] \notin Unanswered, client'[c] \notin Unanswered, UNCHANGED <<sent, via>>
      PROVE  AnswerOf(c)'
  BY <1>4 DEF AnswerOf, Unanswered
<1> USE DEF Unanswered, historyVars
<1>5. CASE Peek(c) \/ ReadSocks(c) \/ ReadHttp(c)
  BY <1>2, <1>5 DEF Peek, ReadSocks, ReadHttp, ReadRequest
<1>6. CASE Negotiate(c)
  BY <1>3, <1>w, <1>6 DEF Negotiate, Tell
<1>7. CASE RefuseSocks(c) \/ ConnectFails(c)
  BY <1>3, <1>w, <1>7 DEF RefuseSocks, ConnectFails, Tell
<1>8. CASE Resolve(c) \/ OverlayDnsAnswers(c) \/ OverlayDnsTimesOut(c) \/ SystemDns(c)
  <2>1. client[c] \in {"Resolve", "OverlayDns", "SystemDns"} /\ UNCHANGED sent
    BY <1>8 DEF Resolve, OverlayDnsAnswers, OverlayDnsTimesOut, SystemDns, Through, Continue
  <2>2. client'[c] \in {"OverlayDns", "SystemDns", "Connect"}
    BY <1>8 DEF Resolve, OverlayDnsAnswers, OverlayDnsTimesOut, SystemDns, Through, Continue
  <2> QED BY <1>2, <2>1, <2>2
<1>9. CASE ConnectSucceeds(c)
  <2>1. via'[c].open /\ UNCHANGED sent
    BY <1>9 DEF ConnectSucceeds, Route
  <2> QED BY <1>1, <1>9, <2>1 DEF ConnectSucceeds, AnswerOf
<1>10. CASE Reply(c)
  <2>1. client[c] = "Reply" /\ client'[c] \in {"Relay", "Body"} /\ via'[c].open
    BY <1>10 DEF Reply, AnswerOf
  <2>2. CASE Tell(c, "connected")
    BY <1>3, <1>w, <2>1, <2>2 DEF Tell
  <2>3. CASE UNCHANGED sent
    BY <1>2, <2>1, <2>3
  <2> QED BY <1>10, <2>2, <2>3 DEF Reply
<1>11. CASE ForwardBody(c) \/ Relay(c)
  BY <1>4, <1>11 DEF ForwardBody, Relay
<1>12. CASE ClientFails(c) \/ TaskStops(c)
  <2>1. client'[c] = "Closed" /\ UNCHANGED <<sent, via>>
    BY <1>12 DEF ClientFails, TaskStops
  <2> QED BY <1>2, <1>4, <2>1
<1> QED BY <1>5, <1>6, <1>7, <1>8, <1>9, <1>10, <1>11, <1>12 DEF ClientStep

\* A task passes on what comes next.
LEMMA TaskStreams ==
    ASSUME TalkTypeOK, NEW c \in Clients, ClientStep(c), StreamOf(c)
    PROVE  StreamOf(c)'
<1> USE DEF TalkTypeOK, TaskStep, GoOn
<1>1. ASSUME client[c] \in Unanswered, UNCHANGED passed,
             client'[c] \in Unanswered \cup {"Closed"}, job'[c].protocol \in DOMAIN Parts
      PROVE  StreamOf(c)'
  <2>1. passed'[c] = <<>>
    BY <1>1 DEF StreamOf
  <2>2. <<>> = SubSeq(Parts[job'[c].protocol], 1, Len(<<>>))
    BY <1>1 DEF Parts
  <2> QED BY <1>1, <2>1, <2>2 DEF StreamOf, Unanswered
<1>2. job[c].protocol \in DOMAIN Parts
  BY DEF Job, NoJob, Parts
<1> USE DEF Unanswered
<1>w. {"head", "body", "rest"} \subseteq Words
  BY DEF Words
<1>3. CASE Peek(c) \/ Negotiate(c) \/ RefuseSocks(c) \/ ConnectSucceeds(c) \/ ConnectFails(c)
  BY <1>1, <1>2, <1>3 DEF Peek, Negotiate, RefuseSocks, ConnectSucceeds, ConnectFails
<1>4. CASE ReadSocks(c) \/ ReadHttp(c)
  <2>1. job'[c].protocol \in {"socks", "tunnel", "forward"}
    BY <1>4 DEF ReadSocks, ReadHttp, ReadRequest
  <2>2. job'[c].protocol \in DOMAIN Parts
    BY <2>1 DEF Parts
  <2> QED BY <1>1, <1>4, <2>2 DEF ReadSocks, ReadHttp, ReadRequest
<1>5. CASE Resolve(c) \/ OverlayDnsAnswers(c) \/ OverlayDnsTimesOut(c) \/ SystemDns(c)
  <2>1. client[c] \in {"Resolve", "OverlayDns", "SystemDns"} /\ UNCHANGED <<job, passed>>
    BY <1>5 DEF Resolve, OverlayDnsAnswers, OverlayDnsTimesOut, SystemDns, Through, Continue
  <2>2. client'[c] \in {"OverlayDns", "SystemDns", "Connect"}
    BY <1>5 DEF Resolve, OverlayDnsAnswers, OverlayDnsTimesOut, SystemDns, Through, Continue
  <2> QED BY <1>1, <1>2, <2>1, <2>2
<1>6. CASE Reply(c)
  <2>1. passed[c] = <<>> /\ UNCHANGED job
    BY <1>6 DEF Reply, StreamOf
  <2>2. CASE job[c].protocol = "socks"
    BY <1>6, <2>1, <2>2 DEF Reply, StreamOf, Parts
  <2>3. CASE job[c].protocol = "tunnel"
    BY <1>6, <2>1, <2>3 DEF Reply, StreamOf, Parts
  <2>4. CASE job[c].protocol = "forward"
    <3>1. client'[c] = "Body" /\ passed'[c] = <<"head">>
      BY <1>6, <2>1, <2>4 DEF Reply, Pass
    <3> QED BY <2>1, <2>4, <3>1 DEF StreamOf, Parts
  <2> QED BY <1>6, <2>2, <2>3, <2>4 DEF Reply
<1>7. CASE ForwardBody(c)
  <2>1. client'[c] = "Relay" /\ passed'[c] = Append(passed[c], "body") /\ UNCHANGED job
    BY <1>7 DEF ForwardBody, Pass
  <2>2. CASE job[c].protocol = "tunnel" /\ passed[c] = <<>>
    <3>1. passed'[c] = <<"body">>
      BY <2>1, <2>2
    <3> QED BY <2>1, <2>2, <3>1 DEF StreamOf, Parts
  <2>3. CASE job[c].protocol = "forward" /\ passed[c] = <<"head">>
    <3>1. passed'[c] = <<"head", "body">>
      BY <2>1, <2>3, <1>w, AppendToOne
    <3>2. passed'[c] = SubSeq(Parts["forward"], 1, Len(passed'[c]))
      <4>1. Len(passed'[c]) = 2
        BY <3>1
      <4>2. SubSeq(Parts["forward"], 1, 2) = <<"head", "body">>
        BY Beginnings DEF Parts
      <4> QED BY <3>1, <4>1, <4>2
    <3> QED BY <2>1, <2>3, <3>1, <3>2 DEF StreamOf
  <2> QED BY <1>7, <2>2, <2>3 DEF ForwardBody, StreamOf
<1>8. CASE Relay(c)
  <2>1. client'[c] = "Relay" /\ passed'[c] = Append(passed[c], "rest") /\ UNCHANGED job
    BY <1>8 DEF Relay, Pass
  <2>2. passed[c] \notin {<<"rest">>, <<"body", "rest">>, <<"head", "body", "rest">>}
    BY <1>8, EndsInRest DEF Relay
  <2>3. CASE job[c].protocol = "socks" /\ passed[c] = <<>>
    <3>1. passed'[c] = <<"rest">>
      BY <2>1, <2>3
    <3> QED BY <2>1, <2>3, <3>1 DEF StreamOf, Parts
  <2>4. CASE job[c].protocol = "tunnel" /\ passed[c] = <<"body">>
    <3>1. passed'[c] = <<"body", "rest">>
      BY <2>1, <2>4, <1>w, AppendToOne
    <3>2. passed'[c] = SubSeq(Parts["tunnel"], 1, Len(passed'[c]))
      <4>1. Len(passed'[c]) = 2
        BY <3>1
      <4>2. SubSeq(Parts["tunnel"], 1, 2) = <<"body", "rest">>
        BY Beginnings DEF Parts
      <4> QED BY <3>1, <4>1, <4>2
    <3> QED BY <2>1, <2>4, <3>1, <3>2 DEF StreamOf
  <2>5. CASE job[c].protocol = "forward" /\ passed[c] = <<"head", "body">>
    <3>1. passed'[c] = <<"head", "body", "rest">>
      BY <2>1, <2>5, <1>w, AppendToTwo
    <3>2. passed'[c] = SubSeq(Parts["forward"], 1, Len(passed'[c]))
      <4>1. Len(passed'[c]) = 3
        BY <3>1
      <4>2. SubSeq(Parts["forward"], 1, 3) = <<"head", "body", "rest">>
        BY Beginnings DEF Parts
      <4> QED BY <3>1, <4>1, <4>2
    <3> QED BY <2>1, <2>5, <3>1, <3>2 DEF StreamOf
  <2> QED BY <1>8, <2>2, <2>3, <2>4, <2>5 DEF Relay, StreamOf
<1>9. CASE ClientFails(c) \/ TaskStops(c)
  <2>1. client'[c] = "Closed" /\ UNCHANGED <<job, passed>>
    BY <1>9 DEF ClientFails, TaskStops
  <2> QED BY <2>1 DEF StreamOf
<1> QED BY <1>3, <1>4, <1>5, <1>6, <1>7, <1>8, <1>9 DEF ClientStep

\* A task goes to the overlay with overlay addresses only.
LEMMA TaskInside ==
    ASSUME TalkTypeOK, NEW c \in Clients, ClientStep(c), InsideOf(c)
    PROVE  InsideOf(c)'
<1> USE DEF TalkTypeOK, InsideOf
<1>1. ASSUME NEW network, NEW address, Through(c, network, address),
             network = "overlay" <=> address = "overlay"
      PROVE  InsideOf(c)'
  BY <1>1 DEF Through
<1>2. ASSUME UNCHANGED via, renamed \subseteq renamed'
      PROVE  InsideOf(c)'
  BY <1>2
<1>3. CASE Peek(c) \/ Negotiate(c) \/ ReadSocks(c) \/ RefuseSocks(c) \/ ReadHttp(c)
  BY <1>2, <1>3 DEF Peek, Negotiate, ReadSocks, RefuseSocks, ReadHttp, ReadRequest,
                    historyVars
<1>4. CASE Resolve(c)
  BY <1>1, <1>2, <1>4 DEF Resolve, Continue
<1>5. CASE OverlayDnsAnswers(c) \/ OverlayDnsTimesOut(c)
  BY <1>1, <1>2, <1>5 DEF OverlayDnsAnswers, OverlayDnsTimesOut, Continue
<1>6. CASE SystemDns(c)
  <2>1. CASE renamed' = renamed \cup {c}
    BY <2>1
  <2> QED BY <1>1, <1>6, <2>1 DEF SystemDns
<1>7. CASE ConnectSucceeds(c)
  <2>1. via'[c].network = via[c].network /\ via'[c].address = via[c].address
    BY <1>7 DEF ConnectSucceeds, Route
  <2> QED BY <1>7, <2>1 DEF ConnectSucceeds, historyVars
<1>8. CASE ConnectFails(c) \/ Reply(c) \/ ForwardBody(c) \/ Relay(c)
  BY <1>2, <1>8 DEF ConnectFails, Reply, ForwardBody, Relay, historyVars
<1>9. CASE ClientFails(c) \/ TaskStops(c)
  BY <1>2, <1>9 DEF ClientFails, TaskStops, historyVars
<1> QED BY <1>3, <1>4, <1>5, <1>6, <1>7, <1>8, <1>9 DEF ClientStep

\* The node and the accept task talk to nobody; they only move clients that have
\* not said anything yet.
LEMMA OthersKeepTalk ==
    ASSUME TalkInv, NodeStep \/ ServerStep \/ (\E c \in Clients : ClientConnects(c))
    PROVE  TalkInv'
<1> USE DEF historyVars, ClientAt
<1>1. /\ UNCHANGED <<job, via, sent, passed, renamed>>
      /\ client' \in [Clients -> ClientAt]
      /\ \A c \in Clients :
           \/ client'[c] = client[c]
           \/ client[c] \in {"None", "Backlog"} /\ client'[c] \in {"Backlog", "Peek", "Closed"}
  <2> USE DEF TalkInv, TalkTypeOK
  <2>1. CASE NodeStep
    BY <2>1 DEF NodeStep, Bind, BindFails, EnableSucceeds, EnableFails, VerifyFails,
                CloseSettings, Cancel, ServerJoined, CloseTimesOut, AbortBridge, taskVars
  <2>2. CASE \E c \in Clients : ClientConnects(c) \/ Accept(c)
    BY <2>2 DEF ClientConnects, Accept
  <2>3. CASE SeeCancel \/ AcceptFails
    BY <2>3 DEF SeeCancel, AcceptFails, Drain
  <2>4. CASE Drained \/ ServerAborted
    BY <2>4 DEF Drained, ServerAborted, DropListener
  <2> QED BY <2>1, <2>2, <2>3, <2>4 DEF ServerStep
<1>2. TalkTypeOK'
  BY <1>1 DEF TalkInv, TalkTypeOK
<1>3. ASSUME NEW c \in Clients PROVE AnswerOf(c)' /\ StreamOf(c)' /\ InsideOf(c)'
  <2>1. AnswerOf(c) /\ StreamOf(c) /\ InsideOf(c)
    BY DEF TalkInv
  <2>2. CASE client'[c] = client[c]
    BY <1>1, <2>1, <2>2 DEF AnswerOf, StreamOf, InsideOf
  <2>3. CASE /\ client[c] \in {"None", "Backlog"}
             /\ client'[c] \in {"Backlog", "Peek", "Closed"}
    <3>1. AnswerOf(c)'
      BY <1>1, <2>1, <2>3 DEF AnswerOf, Unanswered
    <3>2. StreamOf(c)'
      BY <1>1, <2>1, <2>3 DEF StreamOf, Unanswered
    <3>3. InsideOf(c)'
      BY <1>1, <2>1 DEF InsideOf
    <3> QED BY <3>1, <3>2, <3>3
  <2> QED BY <1>1, <2>2, <2>3
<1> QED BY <1>2, <1>3 DEF TalkInv

\* One client's task keeps the invariant of all.
LEMMA TasksKeepTalk ==
    ASSUME TalkInv, NEW c \in Clients, ClientStep(c)
    PROVE  TalkInv'
<1>1. TalkTypeOK /\ AnswerOf(c) /\ StreamOf(c) /\ InsideOf(c)
  BY DEF TalkInv
<1>2. TalkTypeOK'
  BY <1>1, TaskKeepsTypes
<1>3. AnswerOf(c)' /\ StreamOf(c)' /\ InsideOf(c)'
  BY <1>1, TaskAnswers, TaskStreams, TaskInside
<1>4. ASSUME NEW d \in Clients \ {c} PROVE AnswerOf(d)' /\ StreamOf(d)' /\ InsideOf(d)'
  <2>1. /\ UNCHANGED <<client[d], job[d], via[d], sent[d], passed[d]>>
        /\ d \in renamed' <=> d \in renamed
    BY <1>1, TaskApart
  <2>2. AnswerOf(d) /\ StreamOf(d) /\ InsideOf(d)
    BY DEF TalkInv
  <2> QED BY <2>1, <2>2 DEF AnswerOf, StreamOf, InsideOf
<1> QED BY <1>2, <1>3, <1>4 DEF TalkInv

LEMMA Talk == ProxySpec => []TalkInv
<1>1. ASSUME TalkInv, [ProxyNext]_proxyVars PROVE TalkInv'
  <2>1. CASE NodeStep \/ ServerStep \/ (\E c \in Clients : ClientConnects(c))
    BY <1>1, <2>1, OthersKeepTalk
  <2>2. CASE \E c \in Clients : ClientStep(c)
    BY <1>1, <2>2, TasksKeepTalk
  <2>3. CASE UNCHANGED proxyVars
    <3>1. UNCHANGED <<client, job, via, sent, passed, renamed>>
      BY <2>3 DEF proxyVars, taskVars, historyVars
    <3> QED BY <1>1, <3>1 DEF TalkInv, TalkTypeOK, AnswerOf, StreamOf, InsideOf
  <2> QED BY <1>1, <2>1, <2>2, <2>3 DEF ProxyNext
<1> QED BY <1>1, TalkInit, PTL DEF ProxySpec

\* A client of either protocol is told one outcome at most, as the last thing, and
\* "connected" only of a connection that was made (serve_socks, serve_http).
THEOREM AnswersTruthfulHolds == ProxySpec => []AnswersTruthful
<1>1. TalkInv => AnswersTruthful
  BY DEF TalkInv, AnswerOf, AnswersTruthful
<1> QED BY <1>1, Talk, PTL

\* What was read beyond the request's headers goes to the target before what is
\* relayed, and the request's own head before both (start_http_proxying).
THEOREM StreamInOrderHolds == ProxySpec => []StreamInOrder
<1>1. TalkInv => StreamInOrder
  BY DEF TalkInv, StreamOf, StreamInOrder
<1> QED BY <1>1, Talk, PTL

\* Whichever way a name was resolved, the overlay's addresses go through the node
\* and only they, but for a name whose answers changed (resolve_overlay_target).
THEOREM OverlayStaysInsideHolds == ProxySpec => []OverlayStaysInside
<1>1. TalkInv => OverlayStaysInside
  BY DEF TalkInv, InsideOf, OverlayStaysInside
<1> QED BY <1>1, Talk, PTL

\* Every variable of the proxy server has its type.
THEOREM ProxyTypeHolds == ProxySpec => []ProxyTypeOK
<1>1. NodeInv /\ ServedInv /\ TalkInv => ProxyTypeOK
  BY DEF NodeInv, NodeTypeOK, ServedInv, TalkInv, TalkTypeOK, ProxyTypeOK
<1> QED BY <1>1, NodeAndServer, Talk, PTL

=============================================================================
