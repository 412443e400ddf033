--------------------------- MODULE DiscoveryProofs ---------------------------
(***************************************************************************)
(* Proofs about the peer discovery, for any filters, lists, searches and   *)
(* dialogs, and results in any order: what the cache keeps was found for   *)
(* its key, the open dialog shows its own search and waits for no other,   *)
(* and no peer is found twice.                                             *)
(***************************************************************************)
EXTENDS Discovery, FiniteSetTheorems, TLAPS

Ended(id) == task[id].at \in {"Found", "Failed"}

InSeq(id, s) == \E i \in 1..Len(s) : s[i] = id

Distinct(s) == \A i, j \in 1..Len(s) : s[i] = s[j] => i = j

(***************************************************************************)
(* Sequences without duplicates.                                           *)
(***************************************************************************)

LEMMA TailDistinct ==
    ASSUME NEW s \in Seq(Ids), s # <<>>, Distinct(s)
    PROVE  /\ Tail(s) \in Seq(Ids) /\ Distinct(Tail(s)) /\ Head(s) \in Ids
           /\ InSeq(Head(s), s) /\ ~InSeq(Head(s), Tail(s))
           /\ \A id : InSeq(id, Tail(s)) => InSeq(id, s)
           /\ \A id : InSeq(id, s) /\ id # Head(s) => InSeq(id, Tail(s))
<1>1. /\ Len(s) \in Nat \ {0} /\ Tail(s) \in Seq(Ids) /\ Len(Tail(s)) = Len(s) - 1
      /\ \A i \in 1..Len(Tail(s)) : Tail(s)[i] = s[i + 1]
      /\ Head(s) = s[1] /\ Head(s) \in Ids
  OBVIOUS
<1>2. Distinct(Tail(s)) /\ InSeq(Head(s), s) /\ ~InSeq(Head(s), Tail(s))
  BY <1>1 DEF Distinct, InSeq
<1>3. ASSUME NEW id, InSeq(id, Tail(s)) PROVE InSeq(id, s)
  BY <1>1, <1>3 DEF InSeq
<1>4. ASSUME NEW id, InSeq(id, s), id # Head(s) PROVE InSeq(id, Tail(s))
  <2>1. PICK i \in 1..Len(s) : s[i] = id
    BY <1>4 DEF InSeq
  <2>2. i - 1 \in 1..Len(Tail(s)) /\ Tail(s)[i - 1] = id
    BY <1>1, <1>4, <2>1
  <2> QED BY <2>2 DEF InSeq
<1> QED BY <1>1, <1>2, <1>3, <1>4

LEMMA AppendDistinct ==
    ASSUME NEW s \in Seq(Ids), Distinct(s), NEW new \in Ids, ~InSeq(new, s)
    PROVE  /\ Append(s, new) \in Seq(Ids) /\ Distinct(Append(s, new))
           /\ \A id : InSeq(id, Append(s, new)) <=> id = new \/ InSeq(id, s)
<1> DEFINE t == Append(s, new)
<1>1. /\ t \in Seq(Ids) /\ Len(t) = Len(s) + 1 /\ Len(s) \in Nat /\ t[Len(s) + 1] = new
      /\ \A i \in 1..Len(s) : t[i] = s[i]
  OBVIOUS
<1> HIDE DEF t
<1>2. Distinct(t)
  BY <1>1 DEF Distinct, InSeq
<1>3. ASSUME NEW id PROVE InSeq(id, t) <=> id = new \/ InSeq(id, s)
  <2>1. \A i \in 1..Len(t) : i = Len(s) + 1 \/ i \in 1..Len(s)
    BY <1>1
  <2>2. InSeq(id, t) => id = new \/ InSeq(id, s)
    BY <1>1, <2>1 DEF InSeq
  <2>3. Len(s) + 1 \in 1..Len(t) /\ \A i \in 1..Len(s) : i \in 1..Len(t)
    BY <1>1
  <2>4. id = new \/ InSeq(id, s) => InSeq(id, t)
    BY <1>1, <2>3 DEF InSeq
  <2> QED BY <2>2, <2>4
<1> QED BY <1>1, <1>2, <1>3 DEF t

(***************************************************************************)
(* The invariant.                                                          *)
(***************************************************************************)

\* A search has looked at nothing before it has a list, and then only at peers
\* that one list has, nobody twice.
TaskOK(t) ==
    /\ t \in Task
    /\ t.at \in {"None", "Queued", "First", "Second", "Failed"} => Known(t) = {}
    /\ t.at # "Probing" => t.probing = {}
    /\ EachOnce(Known(t)) /\ OfOneList(Known(t), t.wanted)

TasksOK ==
    /\ task \in [Ids -> Task]
    /\ \A id \in Ids : TaskOK(task[id])
    /\ nextId \in 1..(MaxSearches + 1)
    /\ \A id \in Ids : id >= nextId => task[id].at = "None"

\* Each command and each report is under way once.
WaysOK ==
    /\ queue \in Seq(Ids) /\ Distinct(queue)
    /\ reports \in Seq(Ids) /\ Distinct(reports)
    /\ \A id \in Ids : InSeq(id, queue) => task[id].at = "Queued"
    /\ \A id \in Ids : InSeq(id, reports) => Ended(id)

CacheOK ==
    /\ DOMAIN cache \subseteq SUBSET Protocols
    /\ \A key \in DOMAIN cache : \E id \in Ids :
         task[id].at = "Found" /\ task[id].wanted = key /\ task[id].found = cache[key]

\* Shown from the cache, or from the dialog's own search.
ShownFromCache ==
    /\ dialog.refreshable
    /\ \E id \in Ids : /\ task[id].at = "Found"
                       /\ task[id].wanted = dialog.requested
                       /\ task[id].found = dialog.peers

ShownFromSearch(id) ==
    /\ id \in Ids /\ id < nextId
    /\ task[id].wanted = dialog.requested
    /\ dialog.refreshable => /\ Ended(id) /\ ~InSeq(id, reports)
                             /\ dialog.peers = task[id].found
    /\ ~dialog.refreshable => /\ ~Ended(id) \/ InSeq(id, reports)
                              /\ dialog.peers = {}

DialogOK ==
    \/ dialog = NoDialog
    \/ /\ dialog \in Dialog
       /\ dialog.visible = Listed(dialog.peers, dialog.filters)
       /\ IF dialog.id = 0 THEN ShownFromCache ELSE ShownFromSearch(dialog.id)

DiscoveryInv == TasksOK /\ WaysOK /\ CacheOK /\ DialogOK

\* With an open dialog, it is one.
LEMMA OpenIsDialog ==
    ASSUME DialogOK, dialog.open
    PROVE  /\ dialog \in Dialog
           /\ dialog.visible = Listed(dialog.peers, dialog.filters)
           /\ IF dialog.id = 0 THEN ShownFromCache ELSE ShownFromSearch(dialog.id)
BY DEF DialogOK, NoDialog

(***************************************************************************)
(* The search.                                                             *)
(***************************************************************************)

\* What a list yields: peers of its entries that are up, each address once.
LEMMA CandidatesListed ==
    ASSUME NEW listing \in Listings, NEW wanted, NEW todo \in Candidates(listing, wanted)
    PROVE  todo \in SUBSET Peer /\ EachOnce(todo) /\ OfOneList(todo, wanted)
<1> DEFINE entries == {entry \in listing :
                         entry.up /\ ProtocolOf[entry.address] \in wanted}
           As(entry) == [address |-> entry.address, region |-> entry.region]
<1>1. PICK chosen \in Chosen(entries) : todo = {As(entry) : entry \in chosen}
  BY DEF Candidates
<1>2. /\ chosen \subseteq listing /\ IsFiniteSet(listing)
      /\ \A entry \in chosen :
           Cardinality({other \in chosen : other.address = entry.address}) = 1
  BY <1>1, DiscoveryAssumption DEF Chosen
<1>3. ASSUME NEW entry \in chosen PROVE As(entry) \in Peer
  <2>1. entry.address \in Addresses /\ entry.region \in Regions
    BY <1>2, DiscoveryAssumption DEF Regions
  <2> QED BY <2>1 DEF Peer
<1>4. ASSUME NEW first \in chosen, NEW second \in chosen, first.address = second.address
      PROVE  first = second
  <2> DEFINE same == {other \in chosen : other.address = first.address}
  <2>1. IsFiniteSet(same) /\ Cardinality(same) = 1
    BY <1>2, FS_Subset
  <2>2. first \in same /\ second \in same
    BY <1>4
  <2> HIDE DEF same
  <2>3. \E one : same = {one}
    BY <2>1, FS_Singleton
  <2> QED BY <2>2, <2>3
<1>5. todo \in SUBSET Peer
  BY <1>1, <1>3
<1>6. ASSUME NEW peer \in todo, NEW other \in todo, peer.address = other.address
      PROVE  peer = other
  <2>1. PICK first \in chosen : peer = As(first)
    BY <1>1
  <2>2. PICK second \in chosen : other = As(second)
    BY <1>1
  <2>3. first.address = second.address
    BY <1>6, <2>1, <2>2
  <2> QED BY <1>4, <2>1, <2>2, <2>3
<1>7. ASSUME NEW peer \in todo
      PROVE  ListedUp(peer, listing) /\ ProtocolOf[peer.address] \in wanted
  <2>1. PICK entry \in chosen : peer = As(entry)
    BY <1>1
  <2>2. entry \in entries
    BY <1>1 DEF Chosen
  <2>3. entry \in listing /\ entry.up /\ ProtocolOf[entry.address] \in wanted
    BY <2>2
  <2>4. peer.address = entry.address /\ peer.region = entry.region
    BY <2>1
  <2> QED BY <2>3, <2>4 DEF ListedUp
<1> QED BY <1>5, <1>6, <1>7 DEF EachOnce, OfOneList

\* No peers, and fewer peers of a list, are so, too.
LEMMA NoPeers ==
    ASSUME NEW wanted
    PROVE  EachOnce({}) /\ OfOneList({}, wanted)
BY DEF EachOnce, OfOneList

LEMMA FewerPeers ==
    ASSUME NEW peers, NEW fewer, fewer \subseteq peers, NEW wanted,
           EachOnce(peers), OfOneList(peers, wanted)
    PROVE  EachOnce(fewer) /\ OfOneList(fewer, wanted)
BY DEF EachOnce, OfOneList

\* The queue is as before, but without one search's command.
NotQueued(id) ==
    /\ queue' \in Seq(Ids) /\ Distinct(queue')
    /\ \A other : InSeq(other, queue') => InSeq(other, queue) /\ other # id

\* A search under way goes on: nothing that others see has changed.
LEMMA SearchGoesOn ==
    ASSUME DiscoveryInv, NEW id \in Ids, NEW t \in Task,
           task[id].at \in {"Queued", "First", "Second", "Probing"},
           task' = [task EXCEPT ![id] = t], TaskOK(t), t.wanted = task[id].wanted,
           t.at \in {"First", "Second", "Probing"},
           UNCHANGED <<dialog, cache, nextId, reports>>, NotQueued(id)
    PROVE  DiscoveryInv'
<1>1. /\ task' \in [Ids -> Task] /\ task'[id] = t
      /\ \A other \in Ids : other # id => task'[other] = task[other]
  BY DEF DiscoveryInv, TasksOK
<1>2. TasksOK'
  BY <1>1 DEF DiscoveryInv, TasksOK
<1>3. \A other \in Ids : Ended(other)' = Ended(other)
  BY <1>1 DEF Ended
<1>4. WaysOK'
  <2>1. \A other \in Ids : InSeq(other, queue') => task'[other].at = "Queued"
    BY <1>1 DEF DiscoveryInv, WaysOK, NotQueued
  <2> QED BY <1>3, <2>1 DEF DiscoveryInv, WaysOK, NotQueued
<1>5. \A other \in Ids : task[other].at = "Found" => task'[other] = task[other]
  BY <1>1
<1>6. CacheOK'
  BY <1>5 DEF DiscoveryInv, CacheOK
<1>7. DialogOK'
  <2>1. CASE dialog = NoDialog
    BY <2>1 DEF DialogOK
  <2>2. CASE dialog # NoDialog /\ dialog.id = 0
    <3>1. ShownFromCache'
      BY <1>5, <2>2 DEF DiscoveryInv, DialogOK, ShownFromCache
    <3> QED BY <2>2, <3>1 DEF DiscoveryInv, DialogOK
  <2>3. CASE dialog # NoDialog /\ dialog.id # 0
    <3>1. ShownFromSearch(dialog.id)
      BY <2>3 DEF DiscoveryInv, DialogOK
    <3>2. task'[dialog.id].wanted = task[dialog.id].wanted
      BY <1>1, <3>1 DEF ShownFromSearch
    <3>3. Ended(dialog.id) => task'[dialog.id] = task[dialog.id]
      BY <1>1, <3>1 DEF ShownFromSearch, Ended
    <3>4. ShownFromSearch(dialog.id)'
      BY <1>3, <3>1, <3>2, <3>3 DEF ShownFromSearch
    <3> QED BY <2>3, <3>4 DEF DiscoveryInv, DialogOK
  <2> QED BY <2>1, <2>2, <2>3
<1> QED BY <1>2, <1>4, <1>6, <1>7 DEF DiscoveryInv

\* A search that ends is reported, once.
LEMMA SearchReports ==
    ASSUME DiscoveryInv, NEW id \in Ids, NEW outcome \in {"Found", "Failed"},
           task[id].at \in {"Second", "Probing"},
           outcome = "Failed" => Known(task[id]) = {}, task[id].probing = {},
           Report(id, outcome)
    PROVE  DiscoveryInv'
<1> DEFINE t == [task[id] EXCEPT !.at = outcome]
<1>1. /\ task[id] \in Task /\ TaskOK(task[id])
      /\ task' = [task EXCEPT ![id] = t] /\ reports' = Append(reports, id)
      /\ UNCHANGED <<dialog, cache, nextId, queue>>
  BY DEF DiscoveryInv, TasksOK, TaskOK, Report
<1>2. /\ t \in Task /\ t.at = outcome /\ t.wanted = task[id].wanted /\ t.todo = task[id].todo
      /\ t.probing = task[id].probing /\ t.found = task[id].found
  BY <1>1 DEF Task
<1> HIDE DEF t
<1>3. /\ task' \in [Ids -> Task] /\ task'[id] = t
      /\ \A other \in Ids : other # id => task'[other] = task[other]
  BY <1>1, <1>2 DEF DiscoveryInv, TasksOK
<1>4. TaskOK(t)
  BY <1>1, <1>2 DEF TaskOK, Known
<1>5. TasksOK'
  BY <1>1, <1>2, <1>3, <1>4 DEF DiscoveryInv, TasksOK
<1>6. /\ reports' \in Seq(Ids) /\ Distinct(reports')
      /\ \A other : InSeq(other, reports') <=> other = id \/ InSeq(other, reports)
  <2>1. ~InSeq(id, reports)
    BY DEF DiscoveryInv, WaysOK, Ended
  <2> QED BY <1>1, <2>1, AppendDistinct DEF DiscoveryInv, WaysOK
<1>7. \A other \in Ids : Ended(other)' <=> other = id \/ Ended(other)
  BY <1>2, <1>3 DEF Ended
<1>8. WaysOK'
  <2>1. \A other \in Ids : InSeq(other, queue) => other # id
    BY DEF DiscoveryInv, WaysOK
  <2> QED BY <1>1, <1>3, <1>6, <1>7, <2>1 DEF DiscoveryInv, WaysOK
<1>9. \A other \in Ids : task[other].at = "Found" => task'[other] = task[other]
  BY <1>3
<1>10. CacheOK'
  BY <1>1, <1>9 DEF DiscoveryInv, CacheOK
<1>11. DialogOK'
  <2>1. CASE dialog = NoDialog
    BY <1>1, <2>1 DEF DialogOK
  <2>2. CASE dialog # NoDialog /\ dialog.id = 0
    <3>1. ShownFromCache'
      BY <1>1, <1>9, <2>2 DEF DiscoveryInv, DialogOK, ShownFromCache
    <3> QED BY <1>1, <2>2, <3>1 DEF DiscoveryInv, DialogOK
  <2>3. CASE dialog # NoDialog /\ dialog.id # 0
    <3>1. ShownFromSearch(dialog.id)
      BY <2>3 DEF DiscoveryInv, DialogOK
    <3>2. task'[dialog.id].wanted = task[dialog.id].wanted
      BY <1>2, <1>3, <3>1 DEF ShownFromSearch
    <3>3. Ended(dialog.id) => dialog.id # id
      BY DEF Ended
    <3>4. ShownFromSearch(dialog.id)'
      BY <1>1, <1>3, <1>6, <1>7, <3>1, <3>2, <3>3 DEF ShownFromSearch
    <3> QED BY <1>1, <2>3, <3>4 DEF DiscoveryInv, DialogOK
  <2> QED BY <2>1, <2>2, <2>3
<1> QED BY <1>5, <1>8, <1>10, <1>11 DEF DiscoveryInv

\* Each step of a search, and its beginning.
LEMMA SearchKeeps ==
    ASSUME DiscoveryInv, NEW id \in Ids, SearchStep(id)
    PROVE  DiscoveryInv'
<1> DEFINE old == task[id]
<1>1. TaskOK(old) /\ old \in Task /\ DOMAIN task = Ids
  BY DEF DiscoveryInv, TasksOK, TaskOK
<1>2. ASSUME NEW t \in Task, TaskOK(t), t.wanted = old.wanted,
             old.at \in {"First", "Second", "Probing"}, t.at \in {"Second", "Probing"},
             task' = [task EXCEPT ![id] = t],
             UNCHANGED <<dialog, cache, nextId, queue, reports>>
      PROVE  DiscoveryInv'
  <2>1. /\ queue' \in Seq(Ids) /\ Distinct(queue')
        /\ \A other : InSeq(other, queue') => InSeq(other, queue)
        /\ ~InSeq(id, queue)
    BY <1>2 DEF DiscoveryInv, WaysOK
  <2>2. NotQueued(id)
    BY <2>1 DEF NotQueued
  <2>3. /\ task[id].at \in {"Queued", "First", "Second", "Probing"}
        /\ t.wanted = task[id].wanted /\ t.at \in {"First", "Second", "Probing"}
    BY <1>2
  <2> HIDE DEF old
  <2> QED BY <1>2, <2>2, <2>3, SearchGoesOn
<1>3. CASE Fetch(id)
  <2>1. PICK listing \in Listings : \E todo \in Candidates(listing, old.wanted) :
          task' = [task EXCEPT ![id].at = "Probing", ![id].todo = todo]
    BY <1>3 DEF Fetch
  <2>2. PICK todo \in Candidates(listing, old.wanted) :
          task' = [task EXCEPT ![id].at = "Probing", ![id].todo = todo]
    BY <2>1
  <2> DEFINE t == [old EXCEPT !.at = "Probing", !.todo = todo]
  <2>3. todo \in SUBSET Peer /\ EachOnce(todo) /\ OfOneList(todo, old.wanted)
    BY CandidatesListed
  <2>4. /\ old.at \in {"First", "Second"}
        /\ UNCHANGED <<dialog, cache, nextId, queue, reports>>
    BY <1>3 DEF Fetch
  <2>5. task' = [task EXCEPT ![id] = t]
    BY <1>1, <2>2
  <2>6. /\ t \in Task /\ t.at = "Probing" /\ t.wanted = old.wanted
        /\ t.todo = todo /\ t.probing = old.probing /\ t.found = old.found
    BY <1>1, <2>3 DEF Task
  <2> HIDE DEF t
  <2>7. Known(t) = todo
    BY <1>1, <2>4, <2>6 DEF TaskOK, Known
  <2>8. TaskOK(t)
    BY <2>3, <2>6, <2>7 DEF TaskOK
  <2> QED BY <1>2, <2>4, <2>5, <2>6, <2>8
<1>4. CASE FirstSourceFails(id)
  <2> DEFINE t == [old EXCEPT !.at = "Second"]
  <2>1. /\ old.at = "First" /\ task' = [task EXCEPT ![id] = t]
        /\ UNCHANGED <<dialog, cache, nextId, queue, reports>>
    BY <1>1, <1>4 DEF FirstSourceFails
  <2>2. /\ t \in Task /\ t.at = "Second" /\ t.wanted = old.wanted
        /\ t.todo = old.todo /\ t.probing = old.probing /\ t.found = old.found
    BY <1>1 DEF Task
  <2> HIDE DEF t
  <2>3. TaskOK(t)
    BY <1>1, <2>1, <2>2 DEF TaskOK, Known
  <2> QED BY <1>2, <2>1, <2>2, <2>3
<1>5. CASE AllSourcesFail(id)
  <2>1. old.at = "Second" /\ Known(old) = {} /\ old.probing = {}
    BY <1>1, <1>5 DEF AllSourcesFail, TaskOK
  <2> QED BY <1>5, <2>1, SearchReports DEF AllSourcesFail
<1>6. CASE StartProbe(id)
  <2>1. PICK peer \in old.todo :
          task' = [task EXCEPT ![id].todo = @ \ {peer}, ![id].probing = @ \cup {peer}]
    BY <1>6 DEF StartProbe
  <2> DEFINE t == [old EXCEPT !.todo = @ \ {peer}, !.probing = @ \cup {peer}]
  <2>2. /\ old.at = "Probing" /\ task' = [task EXCEPT ![id] = t]
        /\ UNCHANGED <<dialog, cache, nextId, queue, reports>>
    BY <1>1, <1>6, <2>1 DEF StartProbe
  <2>3. /\ t \in Task /\ t.at = old.at /\ t.wanted = old.wanted
        /\ t.todo = old.todo \ {peer} /\ t.probing = old.probing \cup {peer}
        /\ t.found = old.found
    BY <1>1 DEF Task
  <2> HIDE DEF t
  <2>4. Known(t) \subseteq Known(old)
    BY <2>3 DEF Known
  <2>5. TaskOK(t)
    BY <1>1, <2>2, <2>3, <2>4, FewerPeers DEF TaskOK
  <2> QED BY <1>2, <2>2, <2>3, <2>5
<1>7. CASE ProbeSucceeds(id)
  <2>1. PICK peer \in old.probing :
          task' = [task EXCEPT ![id].probing = @ \ {peer}, ![id].found = @ \cup {peer}]
    BY <1>7 DEF ProbeSucceeds
  <2> DEFINE t == [old EXCEPT !.probing = @ \ {peer}, !.found = @ \cup {peer}]
  <2>2. /\ task' = [task EXCEPT ![id] = t]
        /\ UNCHANGED <<dialog, cache, nextId, queue, reports>>
    BY <1>1, <1>7, <2>1 DEF ProbeSucceeds
  <2>3. /\ t \in Task /\ t.at = old.at /\ t.wanted = old.wanted
        /\ t.todo = old.todo /\ t.probing = old.probing \ {peer}
        /\ t.found = old.found \cup {peer}
    BY <1>1 DEF Task
  <2> HIDE DEF t
  <2>4. old.at = "Probing"
    BY <1>1 DEF TaskOK
  <2>5. Known(t) \subseteq Known(old)
    BY <2>3 DEF Known
  <2>6. TaskOK(t)
    BY <1>1, <2>3, <2>4, <2>5, FewerPeers DEF TaskOK
  <2> QED BY <1>2, <2>2, <2>3, <2>4, <2>6
<1>8. CASE ProbeFails(id)
  <2>1. PICK peer \in old.probing : task' = [task EXCEPT ![id].probing = @ \ {peer}]
    BY <1>8 DEF ProbeFails
  <2> DEFINE t == [old EXCEPT !.probing = @ \ {peer}]
  <2>2. /\ task' = [task EXCEPT ![id] = t]
        /\ UNCHANGED <<dialog, cache, nextId, queue, reports>>
    BY <1>1, <1>8, <2>1 DEF ProbeFails
  <2>3. /\ t \in Task /\ t.at = old.at /\ t.wanted = old.wanted
        /\ t.todo = old.todo /\ t.probing = old.probing \ {peer} /\ t.found = old.found
    BY <1>1 DEF Task
  <2> HIDE DEF t
  <2>4. old.at = "Probing"
    BY <1>1 DEF TaskOK
  <2>5. Known(t) \subseteq Known(old)
    BY <2>3 DEF Known
  <2>6. TaskOK(t)
    BY <1>1, <2>3, <2>4, <2>5, FewerPeers DEF TaskOK
  <2> QED BY <1>2, <2>2, <2>3, <2>4, <2>6
<1>9. CASE SearchEnds(id)
  BY <1>1, <1>9, SearchReports DEF SearchEnds
<1> QED BY <1>3, <1>4, <1>5, <1>6, <1>7, <1>8, <1>9 DEF SearchStep

\* The loop takes a command and spawns its search.
LEMMA SpawnKeeps ==
    ASSUME DiscoveryInv, Spawn
    PROVE  DiscoveryInv'
<1> DEFINE id == Head(queue)
           t == [task[id] EXCEPT !.at = "First"]
<1>1. queue # <<>> /\ queue \in Seq(Ids) /\ Distinct(queue)
  BY DEF Spawn, DiscoveryInv, WaysOK
<1>2. id \in Ids /\ InSeq(id, queue) /\ NotQueued(id)
  BY <1>1, TailDistinct DEF Spawn, NotQueued
<1> HIDE DEF id
<1>3. task[id].at = "Queued" /\ TaskOK(task[id]) /\ task[id] \in Task
  BY <1>2 DEF DiscoveryInv, WaysOK, TasksOK, TaskOK
<1>4. /\ task' = [task EXCEPT ![id] = t]
      /\ UNCHANGED <<dialog, cache, nextId, reports>>
  BY <1>2 DEF Spawn, DiscoveryInv, TasksOK, id
<1>5. /\ t \in Task /\ t.at = "First" /\ t.wanted = task[id].wanted
      /\ t.todo = task[id].todo /\ t.probing = task[id].probing
      /\ t.found = task[id].found
  BY <1>3 DEF Task
<1> HIDE DEF t
<1>6. TaskOK(t)
  BY <1>3, <1>5 DEF TaskOK, Known
<1> QED BY <1>2, <1>3, <1>4, <1>5, <1>6, SearchGoesOn

(***************************************************************************)
(* The dialog.                                                             *)
(***************************************************************************)

\* A new search has the next id: nobody knows it yet.
LEMMA StartKeeps ==
    ASSUME DiscoveryInv, NEW d \in Dialog, StartSearch(d)
    PROVE  DiscoveryInv'
<1> DEFINE t == [NoTask EXCEPT !.at = "Queued", !.wanted = d.filters]
<1>0. nextId \in Ids /\ task[nextId].at = "None"
  BY DiscoveryAssumption DEF StartSearch, DiscoveryInv, TasksOK, Ids
<1>1. PICK id \in Ids : /\ id = nextId /\ nextId' = id + 1 /\ id \in Nat \ {0}
                       /\ task[id].at = "None"
  BY <1>0 DEF StartSearch, Ids
<1>2. /\ task' = [task EXCEPT ![id] = t] /\ queue' = Append(queue, id)
      /\ UNCHANGED <<cache, reports>>
  BY <1>1 DEF StartSearch
<1>3. /\ t \in Task /\ t.at = "Queued" /\ t.wanted = d.filters /\ Known(t) = {}
      /\ t.probing = {}
  BY DEF NoTask, Task, Dialog, Known
<1>4. /\ dialog' \in Dialog /\ dialog'.id = id /\ dialog'.requested = d.filters
      /\ dialog'.peers = {} /\ dialog'.visible = {} /\ dialog'.refreshable = FALSE
  <2>1. dialog' = [d EXCEPT !.id = id, !.requested = d.filters, !.peers = {},
                            !.visible = {}, !.refreshable = FALSE]
    BY <1>1 DEF StartSearch
  <2>2. id \in 0..MaxSearches /\ d.filters \in SUBSET Protocols
    BY DEF Ids, Dialog
  <2>3. dialog' \in Dialog
    BY <2>1, <2>2 DEF Dialog
  <2> QED BY <2>1, <2>3 DEF Dialog
<1> HIDE DEF t
<1>5. /\ task' \in [Ids -> Task] /\ task'[id] = t
      /\ \A other \in Ids : other # id => task'[other] = task[other]
  BY <1>1, <1>2, <1>3 DEF DiscoveryInv, TasksOK
<1>6. TasksOK'
  <2>1. TaskOK(t)
    BY <1>3, NoPeers DEF TaskOK
  <2>2. nextId' \in 1..(MaxSearches + 1)
    BY <1>1, DiscoveryAssumption DEF Ids
  <2>3. \A other \in Ids : other >= nextId' => other # id /\ other >= nextId
    BY <1>1 DEF Ids
  <2> QED BY <1>5, <2>1, <2>2, <2>3 DEF DiscoveryInv, TasksOK
<1>7. \A other \in Ids : Ended(other)' <=> other # id /\ Ended(other)
  BY <1>3, <1>5 DEF Ended
<1>8. WaysOK'
  <2>1. ~InSeq(id, queue) /\ ~InSeq(id, reports)
    BY <1>1 DEF DiscoveryInv, WaysOK, Ended
  <2>2. /\ queue' \in Seq(Ids) /\ Distinct(queue')
        /\ \A other : InSeq(other, queue') <=> other = id \/ InSeq(other, queue)
    BY <1>1, <1>2, <2>1, AppendDistinct DEF DiscoveryInv, WaysOK
  <2>3. \A other \in Ids : InSeq(other, queue') => task'[other].at = "Queued"
    BY <1>3, <1>5, <2>2 DEF DiscoveryInv, WaysOK
  <2> QED BY <1>2, <1>7, <2>1, <2>2, <2>3 DEF DiscoveryInv, WaysOK
<1>9. CacheOK'
  BY <1>1, <1>2, <1>5 DEF DiscoveryInv, CacheOK
<1>10. DialogOK'
  <2>1. Listed({}, dialog'.filters) = {}
    BY DEF Listed
  <2>2. ~Ended(id)'
    BY <1>1, <1>7
  <2>3. ShownFromSearch(id)'
    BY <1>1, <1>3, <1>4, <1>5, <2>2 DEF ShownFromSearch
  <2> QED BY <1>1, <1>4, <2>1, <2>3 DEF DialogOK
<1> QED BY <1>6, <1>8, <1>9, <1>10 DEF DiscoveryInv

\* A result reaches the dialog that asked for it, or nobody.
LEMMA DeliverKeeps ==
    ASSUME DiscoveryInv, Deliver
    PROVE  DiscoveryInv'
<1>1. /\ reports # <<>> /\ reports' = Tail(reports) /\ UNCHANGED <<nextId, queue, task>>
      /\ reports \in Seq(Ids) /\ Distinct(reports)
  BY DEF Deliver, DiscoveryInv, WaysOK
<1> DEFINE head == Head(reports)
<1>0. head \in Ids
  BY <1>1, TailDistinct
<1> HIDE DEF head
<1> PICK id \in Ids : id = head
  BY <1>0
<1> DEFINE found == task[id].found
<1>2. /\ InSeq(id, reports) /\ reports' \in Seq(Ids) /\ Distinct(reports')
      /\ ~InSeq(id, reports') /\ \A other : InSeq(other, reports') => InSeq(other, reports)
      /\ \A other : InSeq(other, reports) /\ other # id => InSeq(other, reports')
  BY <1>1, TailDistinct DEF head
<1>3. /\ ~Answers(id) => UNCHANGED <<dialog, cache>>
      /\ Answers(id) /\ task[id].at = "Found" =>
           /\ cache' = [key \in DOMAIN cache \cup {CacheKey} |->
                          IF key = CacheKey THEN found ELSE cache[key]]
           /\ dialog' = [dialog EXCEPT !.peers = found,
                                       !.visible = Listed(found, dialog.filters),
                                       !.refreshable = TRUE]
      /\ Answers(id) /\ task[id].at = "Failed" =>
           /\ cache' = [key \in DOMAIN cache \ {CacheKey} |-> cache[key]]
           /\ dialog' = [dialog EXCEPT !.refreshable = TRUE]
  BY DEF Deliver, head
<1>4. TasksOK'
  BY <1>1 DEF DiscoveryInv, TasksOK
<1>5. \A other \in Ids : Ended(other)' = Ended(other)
  BY <1>1 DEF Ended
<1>6. WaysOK'
  BY <1>1, <1>2, <1>5 DEF DiscoveryInv, WaysOK
<1>7. Ended(id) /\ TaskOK(task[id])
  BY <1>2 DEF DiscoveryInv, WaysOK, TasksOK
<1>8. CASE ~Answers(id)
  <2>1. UNCHANGED <<dialog, cache, task, nextId>>
    BY <1>1, <1>3, <1>8
  <2>2. CacheOK'
    BY <2>1 DEF DiscoveryInv, CacheOK
  <2>3. CASE dialog = NoDialog
    BY <1>4, <1>6, <2>1, <2>2, <2>3 DEF DiscoveryInv, DialogOK
  <2>4. CASE dialog # NoDialog /\ dialog.id = 0
    <3>1. ShownFromCache'
      BY <2>1, <2>4 DEF DiscoveryInv, DialogOK, ShownFromCache
    <3> QED BY <1>4, <1>6, <2>1, <2>2, <2>4, <3>1 DEF DiscoveryInv, DialogOK
  <2>5. CASE dialog # NoDialog /\ dialog.id # 0
    <3>1. ShownFromSearch(dialog.id) /\ dialog.id # id
      BY <1>8, <2>5 DEF DiscoveryInv, DialogOK, Answers, Dialog
    <3>2. ShownFromSearch(dialog.id)'
      BY <1>2, <1>5, <2>1, <3>1 DEF ShownFromSearch
    <3> QED BY <1>4, <1>6, <2>1, <2>2, <2>5, <3>2 DEF DiscoveryInv, DialogOK
  <2> QED BY <2>3, <2>4, <2>5
<1>9. CASE Answers(id)
  <2>1. /\ dialog \in Dialog /\ dialog.id = id /\ id # 0
        /\ dialog.visible = Listed(dialog.peers, dialog.filters)
        /\ ShownFromSearch(id)
    BY <1>2, <1>9, OpenIsDialog DEF Answers, DiscoveryInv, Ids
  <2>2. /\ task[id].wanted = CacheKey /\ ~dialog.refreshable /\ dialog.peers = {}
        /\ id < nextId
    BY <1>2, <2>1 DEF ShownFromSearch, CacheKey, Dialog
  <2>3. found \in SUBSET Peer /\ CacheKey \in SUBSET Protocols
    BY <1>7, <2>1 DEF TaskOK, Task, CacheKey, Dialog
  <2>4. CASE task[id].at = "Found"
    <3>1. /\ DOMAIN cache' = DOMAIN cache \cup {CacheKey} /\ cache'[CacheKey] = found
          /\ \A key \in DOMAIN cache : key # CacheKey => cache'[key] = cache[key]
      BY <1>3, <1>9, <2>4
    <3>2. CacheOK'
      BY <1>1, <1>2, <2>2, <2>3, <2>4, <3>1 DEF DiscoveryInv, CacheOK
    <3>3. /\ dialog' \in Dialog /\ dialog'.id = id /\ dialog'.peers = found
          /\ dialog'.requested = dialog.requested /\ dialog'.filters = dialog.filters
          /\ dialog'.visible = Listed(found, dialog.filters) /\ dialog'.refreshable = TRUE
      <4>1. Listed(found, dialog.filters) \in SUBSET Peer
        BY <2>3 DEF Listed
      <4> QED BY <1>3, <1>9, <2>1, <2>3, <2>4, <4>1 DEF Dialog
    <3>4. ShownFromSearch(id)'
      BY <1>1, <1>2, <1>5, <1>7, <2>1, <2>2, <3>3 DEF ShownFromSearch
    <3> QED BY <1>4, <1>6, <2>1, <3>2, <3>3, <3>4 DEF DiscoveryInv, DialogOK
  <2>5. CASE task[id].at = "Failed"
    <3>1. /\ DOMAIN cache' = DOMAIN cache \ {CacheKey}
          /\ \A key \in DOMAIN cache' : cache'[key] = cache[key]
      BY <1>3, <1>9, <2>5
    <3>2. CacheOK'
      BY <1>1, <3>1 DEF DiscoveryInv, CacheOK
    <3>3. /\ dialog' \in Dialog /\ dialog'.id = id /\ dialog'.peers = dialog.peers
          /\ dialog'.requested = dialog.requested /\ dialog'.filters = dialog.filters
          /\ dialog'.visible = dialog.visible /\ dialog'.refreshable = TRUE
      BY <1>3, <1>9, <2>1, <2>5 DEF Dialog
    <3>4. found = {}
      BY <1>7, <2>5 DEF TaskOK, Known
    <3>5. ShownFromSearch(id)'
      BY <1>1, <1>2, <1>5, <1>7, <2>1, <2>2, <3>3, <3>4 DEF ShownFromSearch
    <3> QED BY <1>4, <1>6, <2>1, <3>2, <3>3, <3>5 DEF DiscoveryInv, DialogOK
  <2> QED BY <1>7, <2>4, <2>5 DEF Ended
<1> QED BY <1>8, <1>9

\* What the user does in the dialog.
LEMMA DialogKeeps ==
    ASSUME DiscoveryInv, DialogStep
    PROVE  DiscoveryInv'
<1>1. NewDialog \in Dialog
  BY DiscoveryAssumption DEF NewDialog, Dialog
<1>2. ASSUME UNCHANGED <<cache, nextId, queue, task, reports>>, DialogOK'
      PROVE  DiscoveryInv'
  <2>1. TasksOK'
    BY <1>2 DEF DiscoveryInv, TasksOK
  <2>2. WaysOK' /\ CacheOK'
    BY <1>2 DEF DiscoveryInv, WaysOK, CacheOK, Ended
  <2> QED BY <1>2, <2>1, <2>2 DEF DiscoveryInv
<1>3. CASE OpenDialog
  <2>1. CASE Defaults \in DOMAIN cache
    <3> DEFINE shown == cache[Defaults]
    <3>1. UNCHANGED <<cache, nextId, queue, task, reports>>
      BY <1>3, <2>1 DEF OpenDialog, ReuseCached, NewDialog
    <3>2. PICK id \in Ids : task[id].at = "Found" /\ task[id].wanted = Defaults
                            /\ task[id].found = shown
      BY <2>1 DEF DiscoveryInv, CacheOK
    <3>3. shown \in SUBSET Peer /\ Listed(shown, Defaults) \in SUBSET Peer
      BY <3>2 DEF DiscoveryInv, TasksOK, TaskOK, Task, Listed
    <3>4. dialog' = [NewDialog EXCEPT !.requested = Defaults, !.peers = shown,
                                      !.visible = Listed(shown, Defaults)]
      BY <1>3, <2>1 DEF OpenDialog, ReuseCached, NewDialog
    <3> HIDE DEF shown
    <3>5. /\ dialog' \in Dialog /\ dialog'.id = 0 /\ dialog'.requested = Defaults
          /\ dialog'.filters = Defaults /\ dialog'.peers = shown
          /\ dialog'.visible = Listed(shown, Defaults) /\ dialog'.refreshable = TRUE
      <4>1. dialog' \in Dialog
        BY <1>1, <3>3, <3>4, DiscoveryAssumption DEF Dialog
      <4>2. /\ NewDialog.id = 0 /\ NewDialog.filters = Defaults
            /\ NewDialog.refreshable = TRUE
        BY DEF NewDialog
      <4> QED BY <1>1, <3>4, <4>1, <4>2 DEF Dialog
    <3>6. ShownFromCache'
      BY <3>1, <3>2, <3>5 DEF ShownFromCache
    <3> QED BY <1>2, <3>1, <3>5, <3>6 DEF DialogOK
  <2>2. CASE Defaults \notin DOMAIN cache
    BY <1>1, <1>3, <2>2, StartKeeps DEF OpenDialog
  <2> QED BY <2>1, <2>2
<1>4. CASE Refresh
  BY <1>4, OpenIsDialog, StartKeeps DEF Refresh, DiscoveryInv
<1>5. CASE Respond
  BY <1>2, <1>5 DEF Respond, DialogOK
<1>6. CASE \E protocol \in Protocols : ToggleFilter(protocol)
  <2>1. PICK protocol \in Protocols : ToggleFilter(protocol)
    BY <1>6
  <2>2. /\ dialog \in Dialog
        /\ IF dialog.id = 0 THEN ShownFromCache ELSE ShownFromSearch(dialog.id)
    BY <2>1, OpenIsDialog DEF ToggleFilter, DiscoveryInv
  <2>3. PICK filters \in SUBSET Protocols :
          dialog' = [dialog EXCEPT !.filters = filters,
                                   !.visible = Listed(dialog.peers, filters)]
    BY <2>1, <2>2 DEF ToggleFilter, Dialog
  <2>4. Listed(dialog.peers, filters) \in SUBSET Peer
    BY <2>2 DEF Listed, Dialog
  <2>5. /\ dialog' \in Dialog /\ dialog'.id = dialog.id
        /\ dialog'.requested = dialog.requested /\ dialog'.filters = filters
        /\ dialog'.peers = dialog.peers
        /\ dialog'.visible = Listed(dialog.peers, filters)
        /\ dialog'.refreshable = dialog.refreshable
    BY <2>2, <2>3, <2>4 DEF Dialog
  <2>6. UNCHANGED <<cache, nextId, queue, task, reports>>
    BY <2>1 DEF ToggleFilter
  <2>7. ShownFromCache => ShownFromCache'
    BY <2>5, <2>6 DEF ShownFromCache
  <2>8. ShownFromSearch(dialog.id) => ShownFromSearch(dialog.id)'
    BY <2>5, <2>6 DEF ShownFromSearch, Ended
  <2>9. DialogOK'
    BY <2>2, <2>5, <2>7, <2>8 DEF DialogOK
  <2> QED BY <1>2, <2>6, <2>9
<1> QED BY <1>3, <1>4, <1>5, <1>6 DEF DialogStep

LEMMA DiscoveryInvHolds == DiscoverySpec => []DiscoveryInv
<1>1. DiscoveryInit => DiscoveryInv
  <2> SUFFICES ASSUME DiscoveryInit PROVE DiscoveryInv
    OBVIOUS
  <2>1. TaskOK(NoTask)
    BY NoPeers DEF TaskOK, NoTask, Task, Known
  <2>2. TasksOK
    <3>1. NoTask \in Task /\ NoTask.at = "None"
      BY DEF NoTask, Task
    <3> QED BY <2>1, <3>1, DiscoveryAssumption DEF DiscoveryInit, TasksOK
  <2>3. \A id : ~InSeq(id, <<>>)
    BY DEF InSeq
  <2>4. WaysOK
    BY <2>3 DEF DiscoveryInit, WaysOK, Distinct
  <2>5. CacheOK
    BY DEF DiscoveryInit, CacheOK
  <2>6. DialogOK
    BY DEF DiscoveryInit, DialogOK
  <2> QED BY <2>2, <2>4, <2>5, <2>6 DEF DiscoveryInv
<1>2. DiscoveryInv /\ [DiscoveryNext]_discoveryVars => DiscoveryInv'
  <2> SUFFICES ASSUME DiscoveryInv, [DiscoveryNext]_discoveryVars PROVE DiscoveryInv'
    OBVIOUS
  <2>1. CASE UNCHANGED discoveryVars
    <3>1. TasksOK' /\ WaysOK'
      BY <2>1 DEF discoveryVars, DiscoveryInv, TasksOK, WaysOK, Ended
    <3>2. CacheOK'
      BY <2>1 DEF discoveryVars, DiscoveryInv, CacheOK
    <3>3. DialogOK'
      BY <2>1 DEF discoveryVars, DiscoveryInv, DialogOK, ShownFromCache,
                  ShownFromSearch, Ended
    <3> QED BY <3>1, <3>2, <3>3 DEF DiscoveryInv
  <2> QED BY <2>1, DialogKeeps, DeliverKeeps, SpawnKeeps, SearchKeeps DEF DiscoveryNext
<1> QED BY <1>1, <1>2, PTL DEF DiscoverySpec

(***************************************************************************)
(* What it shows.                                                          *)
(***************************************************************************)

\* What the cache has for some protocols is what one search for exactly these
\* protocols found (app.rs:904-921, 1064-1082).
THEOREM CacheTruthfulHolds == DiscoverySpec => []CacheTruthful
<1>1. DiscoveryInv => CacheTruthful
  BY DEF DiscoveryInv, CacheOK, CacheTruthful
<1> QED BY <1>1, DiscoveryInvHolds, PTL

\* A dialog shows what its last own search found, or what the cache had
\* (app.rs:470-475, 873-881, 926-973).
THEOREM DialogCurrentHolds == DiscoverySpec => []DialogCurrent
<1>1. DiscoveryInv => DialogCurrent
  <2> SUFFICES ASSUME DiscoveryInv, dialog.open PROVE DialogCurrent
    BY DEF DialogCurrent
  <2> QED BY OpenIsDialog
          DEF DiscoveryInv, DialogCurrent, ShownFromCache, ShownFromSearch
<1> QED BY <1>1, DiscoveryInvHolds, PTL

\* The refresh button waits for exactly the search whose result will free it
\* (app.rs:895, 900).
THEOREM RefreshWaitsHolds == DiscoverySpec => []RefreshWaitsForOwnSearch
<1>1. DiscoveryInv => RefreshWaitsForOwnSearch
  <2> SUFFICES ASSUME DiscoveryInv, dialog.open PROVE RefreshWaitsForOwnSearch
    BY DEF RefreshWaitsForOwnSearch
  <2>1. IF dialog.id = 0 THEN ShownFromCache ELSE ShownFromSearch(dialog.id)
    BY OpenIsDialog DEF DiscoveryInv
  <2> QED BY <2>1
          DEF RefreshWaitsForOwnSearch, ShownFromCache, ShownFromSearch, Ended, InSeq
<1> QED BY <1>1, DiscoveryInvHolds, PTL

\* A search finds and probes only what one source lists as up, of the protocols
\* asked for, and nobody twice, though regions may both list it
\* (discovery.rs:46-59, 75-92).
THEOREM FoundAsListedHolds == DiscoverySpec => []FoundAsListed
<1>1. DiscoveryInv => FoundAsListed
  BY DEF DiscoveryInv, TasksOK, TaskOK, FoundAsListed
<1> QED BY <1>1, DiscoveryInvHolds, PTL

\* Every variable of the discovery keeps its type.
THEOREM DiscoveryTypeHolds == DiscoverySpec => []DiscoveryTypeOK
<1>1. DiscoveryInv => DiscoveryTypeOK
  <2> SUFFICES ASSUME DiscoveryInv PROVE DiscoveryTypeOK
    OBVIOUS
  <2>1. task \in [Ids -> Task]
    BY DEF DiscoveryInv, TasksOK, TaskOK
  <2>2. dialog \in Dialog \cup {NoDialog}
    BY DEF DiscoveryInv, DialogOK
  <2> QED BY <2>1, <2>2 DEF DiscoveryInv, TasksOK, CacheOK, DiscoveryTypeOK
<1> QED BY <1>1, DiscoveryInvHolds, PTL

=============================================================================
