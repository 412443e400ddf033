------------------------------ MODULE Discovery ------------------------------
(***************************************************************************)
(* Peer discovery: the dialog with its request ids and the cache it shares *)
(* with later dialogs (app.rs), the Discover command on its way through    *)
(* the network thread (backend.rs), and the search itself, which fetches a *)
(* public list from one of two sources and probes what it names            *)
(* (discovery.rs).  Searches outlive the dialog that asked for them.       *)
(***************************************************************************)
EXTENDS Naturals, Sequences, FiniteSets

CONSTANTS
    Protocols,      \* PROTOCOLS, "quic" among them
    Defaults,       \* the filters a new dialog has active
    Addresses,      \* peer addresses of the public lists
    ProtocolOf,     \* their schemes
    Listings,       \* what a source may answer: sets of entries
    MaxProbes,      \* connections a search tries at a time (20 in the code)
    MaxSearches     \* bound: searches asked for

ASSUME DiscoveryAssumption ==
    /\ Defaults \subseteq Protocols
    /\ Defaults # {}
    /\ DOMAIN ProtocolOf = Addresses
    /\ MaxProbes \in Nat \ {0}
    /\ MaxSearches \in Nat
    /\ \A listing \in Listings :
         /\ IsFiniteSet(listing)
         /\ \A entry \in listing :
              entry.address \in Addresses /\ entry.up \in BOOLEAN

VARIABLES
    dialog,     \* the window's open DiscoveryDialog, or NoDialog
    cache,      \* DiscoveryCache: found peers by the protocols asked for
    nextId,     \* next_discovery_id
    queue,      \* Discover commands the network thread has not taken yet
    task,       \* the searches, by id
    reports     \* DiscoveryFinished events the window has not taken yet

discoveryVars == <<dialog, cache, nextId, queue, task, reports>>

Ids == 1..MaxSearches

Regions == UNION {{entry.region : entry \in listing} : listing \in Listings}

Peer == [address : Addresses, region : Regions]

NoDialog == [open |-> FALSE]

Dialog == [open : {TRUE}, id : 0..MaxSearches, requested : SUBSET Protocols,
           filters : SUBSET Protocols, peers : SUBSET Peer,
           visible : SUBSET Peer, refreshable : BOOLEAN]

NoTask == [at |-> "None", wanted |-> {}, todo |-> {}, probing |-> {}, found |-> {}]

Task == [at : {"None", "Queued", "First", "Second", "Probing", "Found", "Failed"},
         wanted : SUBSET Protocols, todo : SUBSET Peer, probing : SUBSET Peer,
         found : SUBSET Peer]

DiscoveryInit ==
    /\ dialog = NoDialog
    /\ cache = <<>>
    /\ nextId = 1
    /\ queue = <<>>
    /\ task = [id \in Ids |-> NoTask]
    /\ reports = <<>>

(***************************************************************************)
(* The dialog.                                                             *)
(***************************************************************************)

\* refresh_list
Listed(peers, filters) == {peer \in peers : ProtocolOf[peer.address] \in filters}

\* DiscoveryDialog::start for a dialog d, when the cache does not answer.
StartSearch(d) ==
    /\ nextId <= MaxSearches
    /\ nextId' = nextId + 1
    /\ dialog' = [d EXCEPT !.id = nextId, !.requested = d.filters, !.peers = {},
                           !.visible = {}, !.refreshable = FALSE]
    /\ queue' = Append(queue, nextId)
    /\ task' = [task EXCEPT ![nextId] = [NoTask EXCEPT !.at = "Queued",
                                                       !.wanted = d.filters]]
    /\ UNCHANGED <<cache, reports>>

\* Mistake: showing cached peers leaves the dialog as if it were searching.
ReuseCachedStillSearching(d) ==
    /\ dialog' = [d EXCEPT !.requested = d.filters,
                           !.peers = cache[d.filters],
                           !.visible = Listed(cache[d.filters], d.filters),
                           !.refreshable = FALSE]
    /\ UNCHANGED <<cache, nextId, queue, task, reports>>

\* ... and when it does.  The dialog keeps the id it has.
ReuseCached(d) ==
    /\ dialog' = [d EXCEPT !.requested = d.filters,
                           !.peers = cache[d.filters],
                           !.visible = Listed(cache[d.filters], d.filters)]
    /\ UNCHANGED <<cache, nextId, queue, task, reports>>

NewDialog == [open |-> TRUE, id |-> 0, requested |-> {}, filters |-> Defaults,
              peers |-> {}, visible |-> {}, refreshable |-> TRUE]

\* The dialog is modal: the next is opened when the last has responded.
OpenDialog ==
    /\ dialog = NoDialog
    /\ IF Defaults \in DOMAIN cache THEN ReuseCached(NewDialog)
                                    ELSE StartSearch(NewDialog)

\* With no protocol selected the button only says so.
Refresh ==
    /\ dialog.open
    /\ dialog.refreshable
    /\ dialog.filters # {}
    /\ StartSearch(dialog)

ToggleFilter(protocol) ==
    /\ dialog.open
    /\ LET filters == IF protocol \in dialog.filters THEN dialog.filters \ {protocol}
                      ELSE dialog.filters \cup {protocol}
       IN  dialog' = [dialog EXCEPT !.filters = filters,
                                    !.visible = Listed(dialog.peers, filters)]
    /\ UNCHANGED <<cache, nextId, queue, task, reports>>

\* Mistake: the window keeps the dialog that has responded.
RespondKeepsDialog ==
    /\ dialog.open
    /\ dialog' = [dialog EXCEPT !.open = FALSE]
    /\ UNCHANGED <<cache, nextId, queue, task, reports>>

\* "Use selected" (which opens the add-peer dialog) or "Close".
Respond ==
    /\ dialog.open
    /\ dialog' = NoDialog
    /\ UNCHANGED <<cache, nextId, queue, task, reports>>

\* Mistake: a result is filed under the filters of the moment.
CacheKeyOfFilters == dialog.filters

\* The key of the dialog's cache entry: the protocols it asked for.
CacheKey == dialog.requested

\* Mistake: any search's result is the open dialog's.
AnswersAnybody(id) == dialog.open

\* The result is for the dialog that is open now.
Answers(id) == dialog.open /\ dialog.id = id

\* handle_backend_event and set_result.
Deliver ==
    /\ reports # <<>>
    /\ reports' = Tail(reports)
    /\ LET id == Head(reports)
           found == task[id].found
       IN  CASE ~Answers(id) -> UNCHANGED <<dialog, cache>>
             [] Answers(id) /\ task[id].at = "Found" ->
                  /\ cache' = [key \in DOMAIN cache \cup {CacheKey} |->
                                IF key = CacheKey THEN found ELSE cache[key]]
                  /\ dialog' = [dialog EXCEPT
                                  !.peers = found,
                                  !.visible = Listed(found, dialog.filters),
                                  !.refreshable = TRUE]
             [] Answers(id) /\ task[id].at = "Failed" ->
                  /\ cache' = [key \in DOMAIN cache \ {CacheKey} |-> cache[key]]
                  /\ dialog' = [dialog EXCEPT !.refreshable = TRUE]
    /\ UNCHANGED <<nextId, queue, task>>

(***************************************************************************)
(* The network thread and discover_peers.                                  *)
(***************************************************************************)

\* The loop takes the command, when no start or stop keeps it, and spawns a task.
Spawn ==
    /\ queue # <<>>
    /\ queue' = Tail(queue)
    /\ task' = [task EXCEPT ![Head(queue)].at = "First"]
    /\ UNCHANGED <<dialog, cache, nextId, reports>>

\* `seen`: each address once, from whichever region is iterated first.
Chosen(entries) ==
    {chosen \in SUBSET entries :
        \A address \in {entry.address : entry \in entries} :
            Cardinality({entry \in chosen : entry.address = address}) = 1}

\* Mistake: entries that are down are taken, too.
CandidatesDownToo(listing, wanted) ==
    {{[address |-> entry.address, region |-> entry.region] : entry \in chosen} :
        chosen \in Chosen({entry \in listing : ProtocolOf[entry.address] \in wanted})}

\* build_candidates: entries that are down are not even seen, and addresses of no
\* wanted scheme, malformed ones included, are left out.
Candidates(listing, wanted) ==
    {{[address |-> entry.address, region |-> entry.region] : entry \in chosen} :
        chosen \in Chosen({entry \in listing :
                             entry.up /\ ProtocolOf[entry.address] \in wanted})}

\* A source answers within ten seconds with a list that parses.
Fetch(id) ==
    /\ task[id].at \in {"First", "Second"}
    /\ \E listing \in Listings :
         \E todo \in Candidates(listing, task[id].wanted) :
            task' = [task EXCEPT ![id].at = "Probing", ![id].todo = todo]
    /\ UNCHANGED <<dialog, cache, nextId, queue, reports>>

FirstSourceFails(id) ==
    /\ task[id].at = "First"
    /\ task' = [task EXCEPT ![id].at = "Second"]
    /\ UNCHANGED <<dialog, cache, nextId, queue, reports>>

Report(id, outcome) ==
    /\ task' = [task EXCEPT ![id].at = outcome]
    /\ reports' = Append(reports, id)
    /\ UNCHANGED <<dialog, cache, nextId, queue>>

\* Mistake: a failed search is only logged.
AllSourcesFailSilently(id) ==
    /\ task[id].at = "Second"
    /\ task' = [task EXCEPT ![id].at = "Failed"]
    /\ UNCHANGED <<dialog, cache, nextId, queue, reports>>

AllSourcesFail(id) ==
    /\ task[id].at = "Second"
    /\ Report(id, "Failed")

\* buffer_unordered keeps at most MaxProbes connections.
StartProbe(id) ==
    /\ task[id].at = "Probing"
    /\ Cardinality(task[id].probing) < MaxProbes
    /\ \E peer \in task[id].todo :
         task' = [task EXCEPT ![id].todo = @ \ {peer}, ![id].probing = @ \cup {peer}]
    /\ UNCHANGED <<dialog, cache, nextId, queue, reports>>

\* probe_peer: QUIC peers are not tried, the others connect within three seconds ...
ProbeSucceeds(id) ==
    /\ \E peer \in task[id].probing :
         task' = [task EXCEPT ![id].probing = @ \ {peer}, ![id].found = @ \cup {peer}]
    /\ UNCHANGED <<dialog, cache, nextId, queue, reports>>

\* ... or do not.
ProbeFails(id) ==
    /\ \E peer \in task[id].probing :
         /\ ProtocolOf[peer.address] # "quic"
         /\ task' = [task EXCEPT ![id].probing = @ \ {peer}]
    /\ UNCHANGED <<dialog, cache, nextId, queue, reports>>

SearchEnds(id) ==
    /\ task[id].at = "Probing"
    /\ task[id].todo = {}
    /\ task[id].probing = {}
    /\ Report(id, "Found")

SearchStep(id) ==
    \/ Fetch(id) \/ FirstSourceFails(id) \/ AllSourcesFail(id)
    \/ StartProbe(id) \/ ProbeSucceeds(id) \/ ProbeFails(id)
    \/ SearchEnds(id)

DialogStep ==
    \/ OpenDialog \/ Refresh \/ Respond
    \/ \E protocol \in Protocols : ToggleFilter(protocol)

DiscoveryNext ==
    \/ DialogStep
    \/ Deliver
    \/ Spawn
    \/ \E id \in Ids : SearchStep(id)

\* Every request and every probe has a time limit, and nobody has to do anything.
DiscoverySpec ==
    /\ DiscoveryInit
    /\ [][DiscoveryNext]_discoveryVars
    /\ WF_discoveryVars(Deliver)
    /\ WF_discoveryVars(Spawn)
    /\ \A id \in Ids : WF_discoveryVars(SearchStep(id))

(***************************************************************************)
(* Properties.                                                             *)
(***************************************************************************)

DiscoveryTypeOK ==
    /\ dialog \in Dialog \cup {NoDialog}
    /\ DOMAIN cache \subseteq SUBSET Protocols
    /\ nextId \in 1..(MaxSearches + 1)
    /\ task \in [Ids -> Task]

\* What the cache has for some protocols is what one search for exactly these
\* protocols found, whatever the filters were when its result came and whichever
\* searches ended in between (app.rs:904-921, 1064-1082).
CacheTruthful ==
    \A key \in DOMAIN cache : \E id \in Ids :
        /\ task[id].at = "Found"
        /\ task[id].wanted = key
        /\ task[id].found = cache[key]

\* A dialog shows what its last own search found, filtered as its filters are now;
\* before it has searched, what an earlier search of the same protocols found
\* (app.rs:470-475, 873-881, 926-973).
DialogCurrent ==
    dialog.open =>
        /\ dialog.visible = Listed(dialog.peers, dialog.filters)
        /\ IF dialog.id # 0
           THEN dialog.peers = IF dialog.refreshable THEN task[dialog.id].found ELSE {}
           ELSE \E id \in Ids : /\ task[id].wanted = dialog.requested
                                /\ task[id].found = dialog.peers

\* The refresh button waits for exactly the search whose result will free it: an
\* older dialog's search neither holds nor frees it (app.rs:895, 900).
RefreshWaitsForOwnSearch ==
    dialog.open =>
        (~dialog.refreshable <=>
            /\ dialog.id # 0
            /\ \/ task[dialog.id].at \notin {"Found", "Failed"}
               \/ \E i \in 1..Len(reports) : reports[i] = dialog.id)

\* The peers of a search: still to be probed, being probed, found.
Known(t) == t.todo \cup t.probing \cup t.found

EachOnce(peers) ==
    \A peer, other \in peers : peer.address = other.address => peer = other

ListedUp(peer, listing) ==
    \E entry \in listing :
        entry.up /\ entry.address = peer.address /\ entry.region = peer.region

\* Peers are of a wanted protocol and stand, as up, in the list of one source.
OfOneList(peers, wanted) ==
    peers = {} \/ \E listing \in Listings : \A peer \in peers :
        ListedUp(peer, listing) /\ ProtocolOf[peer.address] \in wanted

\* What a search finds, and probes, is what the one source that answered lists as
\* up, in the region it is shown with, and of a protocol that was asked for: the
\* source that failed adds nothing, and a peer that several regions list, up in
\* some and down in others, comes once (discovery.rs:46-59, 75-92).
FoundAsListed ==
    \A id \in Ids :
        EachOnce(Known(task[id])) /\ OfOneList(Known(task[id]), task[id].wanted)

\* A dialog that searches gets its result, or is closed (app.rs:899-924).
SearchAnswered ==
    dialog.open /\ ~dialog.refreshable ~> ~dialog.open \/ dialog.refreshable

=============================================================================
