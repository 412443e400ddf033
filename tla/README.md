# Drosophila: specification, model checking and proofs

Drosophila is a GTK application that runs an Yggdrasil node: inside its own
process behind a local HTTP/SOCKS5 proxy, or in a second, elevated process that
owns a TUN interface. This directory holds TLA+ models of the parts whose
correctness depends on ordering, failure and time, the TLC runs that check them
and the TLAPS proofs about them. Paths are relative to the repository; line
numbers of `backend.rs` and so on mean `src/backend.rs`. `PROJECT.json` maps
every definition to the lines it models.

## 1. The system

| Part | Source | State | Operations | Talks to |
|---|---|---|---|---|
| main window | `app.rs` | `running`, `transitioning`, the switch, sensitivity of the controls, the configuration | flip switch, choose mode, add/remove peer, close; one handler per backend event | commands to and events from the network thread, both unbounded channels; saves the configuration |
| network thread | `backend.rs` | `node` (none, in process, TUN session), `next_remote_session` | `backend_loop` selects a command, a worker report or a timer, and handles it to the end, awaits included | window; TUN sessions; spawned discovery tasks |
| TUN session | `privileged.rs` | per session: listener/socket, `PrivilegedNode`, its command queue, `shutdown_sent`, `startup_failure_reported` | launch, accept, send, close with a 10 s limit; task `parent_connection` | the worker over a loopback TCP stream, the loop over a channel of `RemoteEnvelope`s |
| TUN worker | `privileged.rs` | its node, its peers | connect, start, edit peers, status tick, shutdown, exit at end of file | the GUI process over TCP |
| system proxy settings | `system_proxy.rs` | the desktop's settings, a recovery file | `enable`, `close`, `Drop`, `recover_stale` | called when a node starts or closes and when the process starts; shared with the user and with other processes |
| local proxy server | `proxy.rs`, `backend.rs` | listener, accept task with its `JoinSet`, one task per client, two bridge tasks | `start`, `close` with a 2 s limit; per client: SOCKS5 or HTTP conversation, choice of network, connection, relay; DNS query and answer | in-process node; overlay and system DNS; the desktop settings point at it |
| peer discovery | `discovery.rs`, `app.rs`, `backend.rs` | open dialog with its request id, cache, one task per search | open, refresh, filter, respond; fetch from one of two sources, probe, report | `Discover` commands and `DiscoveryFinished` events on the same two channels |
| configuration file | `config.rs`, `app.rs` | the file, the settings in memory, the key row | load or create, migrate, edit, save by temporary file, sync and rename | window, at start and at every edit |
| process entry, launcher, privileges, console, dialogs | `main.rs`, `privileged.rs`, `windows_console.rs`, `resources/` | none that changes | dispatch, pkexec/UAC command lines, capability calls, declarative data | - |

What is hard here:

* **Two crossing channels.** Clicks travel one way and events the other; the
  window gives `Failed` a meaning by its own flag (`app.rs:464`).
* **Sessions that outlive their owner.** After ten seconds `close()` goes on
  while the old worker may still run; its reports arrive in the next session
  (`backend.rs:276` drops them by number).
* **A second process that can end at any moment**: refused authorization, a
  crash, an error at start, a failure to drop capabilities, a TCP reset that
  discards a report; and the GUI process may die as well, leaving an elevated
  process behind.
* **A `select!` with no order among its ready arms** in `parent_connection`,
  which then has to say whether the end was expected.
* **Settings without transactions**: keys are written one at a time with a
  crash, a failure, the user or another process possible between any two.
* **Three resources in one order**: listener, accept task and desktop settings
  are taken and given back by code that can fail at each step, with clients
  that may never say anything.
* **Answers that come late**: searches outlive the dialog that asked for them,
  and their results share a cache with later dialogs.
* **Octets from outside**: offsets and lengths of DNS answers, and requests cut
  into reads anywhere.
* **A file that must survive its writing**: it holds the node's identity.

What makes each part correct, in brief: the thread tells the window the truth
and resolves every start; only one tunnel exists at a time and none after a stop;
a session that was given up ends; shutdown terminates; an orphaned worker exits;
the window ends in agreement with the thread and the node has the peers shown;
the user's proxy settings are in force or remembered, and Drosophila never
mistakes its own for the user's; the desktop never points at a port nobody
listens on, a closed proxy frees its port and its clients, says only what is
true and passes on everything in order; a search's result reaches its own dialog
and cache entry; the parsers stay inside what they were given and find what its
layout says; no crash leaves a broken configuration, or another key once there was one.

## 2. The modules

```
Messages                     constants, commands, events, wire messages
  |-- Privileged             TUN sessions and workers
  |-- Handle                 the two channels between window and thread
  |     |
  |     +-- Window           app.rs: user, controls, events
  +-- Backend                Privileged + Handle + the loop
        |-- NodeLifecycle    (abstract) what the thread promises the window
        |-- BackendProofs    theorems: types, one tunnel
        |     +-- StoryProofs  theorems: what the window is told, NodeLifecycle
        +-- Drosophila       Backend + Window
              +-- AppProofs  theorems: window and thread agree (on StoryProofs)
SystemProxy -- SysProofs     desktop settings, recovery file, processes
ProxyServer -- ProxyProofs   the local proxy: node, accept task, clients
DnsAnswer, DnsMessage, HttpHead
  +-- Parsers                both, on what they may be given
        +-- ParserProofs     theorems about the two parsers
Discovery -- DiscoveryProofs dialog, cache, searches
ConfigFile -- ConfigProofs   the configuration in memory and on disk
MC*                          instances for TLC
```

**Messages.** The command, event and report sets. A configuration is reduced to
what a start depends on: the mode and the peer list. Texts, addresses and keys
are dropped.

**Privileged.** One record of state per session number. `conn[s]` is the GUI's
end: `Listening` while `accept_authenticated` waits, `Open` while
`parent_connection` runs, `Ended` after it returned (the oneshot `closed` has
resolved) or the listener was dropped. `attached[s]` says that the
`PrivilegedNode` exists: when it does not, both of `parent_connection`'s
receivers resolve, which enables `DisconnectFires` and a `Shutdown` of its own
(`NextRequest`). `requests`, `down`, `up` and `remote` are the mpsc channel, the
two directions of the TCP stream and the channel to the loop. `worker[s]` is the
program counter of `worker_loop`. `ParentConnection` has one action per arm of
its `select!`, and `EndConnection` is the code after its loop. A TCP stream
closed with unread input is reset and discards what was sent: that is why
`StreamEnds` is possible with `up` not empty.

**Handle.** The commands posted, the events waiting and a count of the user's
inputs.

**Backend.** `pc` says where the loop awaits: `Select`, `Closing` (a node's
`close()`), `Launching`, `Accepting`, `Sending` (the three awaits of `launch`),
`StartingLocal`; and, after a `Shutdown`, where its thread is: `Exiting`, `Joining`,
`Done`. `Exit` is the return of `backend_loop` and the beginning of the runtime's end,
which drops every task and then waits, without limit, for `spawn_blocking`. A Windows
build (`Builds`) runs `runas` there, from the UAC prompt until the elevated worker
has exited (`LauncherBlocks`, `privileged.rs:573-585`), so its thread stays in
`Joining` until then (`ThreadWaits`, `ThreadEnds`); a Linux build waits for pkexec in
a task, which is dropped. `HandleLifecycle` takes the node and starts
to close it; `CloseLocal`, `CloseCompletes` and `CloseTimesOut` end that and
`Resume` the command. `announced` is the phase the window has been told, a
function of the events sent. `OtherInput` is a click that sends nothing, such as
a change of mode; `Drosophila` says what it does to the window. `GuiCrash` is the death of the whole process: all
channels and sockets go, workers stay. The constant `Faults` says which failures
the environment may produce.

**NodeLifecycle.** Three phases and an end, with fairness for resolving a start.
`Backend` is checked to implement it with `phase <- announced` and
`over <- LoopGone`, safety and liveness separately.

**Window** and **Drosophila.** The window's fields and handlers; `User` is one
click, `Pump` one event. The real pump drains its channel in one callback
(`app.rs:430`); the model allows a click between any two events, which happens
when the second is sent just after the queue was found empty. Suppressed
notifications (`suppress_ygg_switch`, `suppress_mode_change`) are folded into
the action that causes them. Adding a peer is possible at any time, because the
button is never disabled; deleting is possible when the buttons are sensitive,
and rebuilding the list makes new, sensitive ones. The history variable
`missed` records the two known ways in which window and node part (below).

**SystemProxy.** `desktop` and `stateFile` are shared; each process has a place
`at` and a `goal`. `apply()` is one action per key written (`WriteOrder`) on
GSettings, so that anything can happen between two; on WinInet it is one call,
which leaves out options the user never set (`absent`), and a broadcast that can
fail after everything was written. `UserSettings` are what the user or another
program may choose on each platform; the user's own values are abstract tokens
per key. `ChangeOutside` edits all of the settings or one part of them: on
GSettings a key, on WinInet the flags, the server or the bypass list (`Parts`).
Settings that a dialog would not allow, such as a manual proxy without a server,
are left out (`Sensible`). `SameHosts` is the second half of `is_owned`. The history
`chosen` is what is to be in force once no proxy is enabled: the settings as they
are after a change outside, unless `is_owned` still takes them for Drosophila's
(`Known`), in which case it is what the recovery file remembers. `revived` records
that somebody else pointed the desktop at Drosophila's proxy where no recovery
file knew of it: a user who switches the mode back on over the hosts that
Drosophila left behind does.

**ProxyServer.** `node` is where `start_proxy` or `RunningNode::close` is,
`server` the accept task, `listening` its listener, `client[c]` the place of
connection c in `serve_client`: `Backlog` before it is accepted, then one place
per await. A task that was told to stop (`aborted`) may stop at any of them.
`enabled` says that the node has a `SystemProxy` to close; the settings
themselves are reduced to `pointed`, and the ways in which `enable` and `close`
can leave them are those that `SystemProxy` has. A target is an overlay address,
another address or a name. `via` records the network and address chosen, `sent`
what the proxy itself tells the client, `passed` which parts of the client's
stream the target was given. The history `excused` names the failures the code
has no answer to: an accept that failed, settings that could not be taken back,
a close that gave up.

**DnsAnswer** is `parse_aaaa_response` with `skip_dns_name`: every test, read
and move of the offset is a step on a datagram of any octets. **DnsMessage** has
the layout of the query that `build_aaaa_query` sends and of answers to it, with
the address that a datagram of this layout holds if it is cut after any octet
(`FirstAddress`); it is the reference. `IsMessage` bounds what an answer may be:
names of any labels with a pointer, the root or an octet of no meaning behind them,
any types, classes and data, and a count that need not be that of the records; any
other datagram is `DnsAnswer`'s alone. **HttpHead** is the loop of
`read_http_request`; of the request's octets only the place of the first empty
line matters. **Parsers** puts both to work on what they may be given.

**Discovery.** `dialog` is the window's `DiscoveryDialog` with the id of its
last search (0 when the cache answered), the protocols it asked for, its
filters, peers and visible rows; `cache` maps sets of protocols to peers. The
network thread is reduced to its part in this: it takes `Discover` commands in
order and spawns tasks (`Backend` has the loop itself). `Chosen` is the set of
results of a deduplication that follows the order of a hash map, `Candidates`
what it makes of a list: the peers that are up and of a protocol asked for.

**ConfigFile.** `file` is what programs see, `durable` the set of contents a
loss of power may leave: `rename` adds the new content, and a torn one if the
temporary file was not synced; `WriteBack` is the system writing everything
out. `settled` remembers that a configuration has been on the disk for good: one was
there from the beginning, was written back, or survived a loss of power.
`memory` and `keyText` are the window's configuration and the key row.
The edit handlers run on one thread, so nothing but a crash or a failure comes
between an edit and the end of its `save()`.

Operators whose comment begins with "Mistake:" are not part of any next-state
relation. Each is a plausible wrong version of the definition that follows it,
used to confirm that a property notices: `PROJECT.json` lists which property
must fail when the definition is replaced.

## 3. The runs

| Run | Question | Bounds |
|---|---|---|
| `backend_faults` | Is what the window is told true (`AnnouncementTruthful`), is status reported only while running (`StatusOnlyWhileRunning`), do the events follow `NodeLifecycle` (`LifecycleSafe`)? Types (`TypeInv`). | any 2 commands, also ones the window would not send; 2 sessions; every fault; status ticks; one discovery |
| `backend_liveness` | Does a shutdown end the thread even if workers hang, but for the one wait of a Windows build, and always if they and the prompts do not (`ShutdownCompletes`)? If they are scheduled: is every start resolved (`LifecycleResolved`), does an orphaned worker exit (`OrphansExit`)? | 2 commands, 2 sessions, both builds, every fault |
| `window_faults` | The whole application: one tunnel at a time (`OneTunnel`), none after a stop (`StoppedMeansDown`), the inductive invariant behind both (`SessionInv`); window against thread (`SwitchTruthful`, `WindowAgrees`, `PeersAgree`, `ModeAgrees`); ends of sessions (`EndIsReported`, `AbandonedLinksEnd`) | 4 clicks, 3 sessions, both kinds of node, every fault |
| `window_liveness` | Does every transition end (`TransitionEnds`)? | 3 clicks, 3 sessions, every fault |
| `window_lost_edit` | *violation*: an edit during a start is lost (`PeersAlwaysAgree`) | 3 clicks, no fault |
| `sysproxy_faults` | Recovery is possible while the desktop points at Drosophila (`RecoveryPossible`), which never remembers itself (`NeverRemembersItself`); the user's choice is in force or remembered (`SettingsNeverLost`), in force when nothing is enabled (`SettingsRestored`) | both platforms, 2 launches, 2 outside changes of all settings or of one part, between operations; 2 endpoints (symmetric), crashes and every failing call |
| `sysproxy_crash` | *violation*: a crash inside `apply()` (`BlameJustified`) | GSettings, 3 launches, crashes and changes at any moment |
| `sysproxy_second` | *violation*: a second launch (`OnlyStaleRecovered`) | 2 processes, 3 launches, changes at any moment, no fault |
| `proxy_server` | The port and the desktop (`EndpointFreed`, `DesktopServed`), what clients are told and what is passed on (`AnswersTruthful`, `StreamInOrder`), which network (`OverlayStaysInside`), and that `close()` ends (`CloseEnds`) | 2 connections, one of them silent, 2 starts, every fault |
| `discovery` | Cache and dialogs (`CacheTruthful`, `DialogCurrent`, `RefreshWaitsForOwnSearch`), what a search finds (`FoundAsListed`), and that it is answered (`SearchAnswered`) | 3 searches, 2 protocols, 3 addresses, two lists with a peer in two regions and one down, one probe at a time |
| `parsers` | The walk stays inside the datagram (`ReadsInBounds`) and finds what its layout says (`AnswerRight`); the headers end where they end (`HeadRight`) | some 600 messages of up to two records, whole and cut after every octet; streams of 30 octets in reads of up to 6, limit 16 |
| `config_file` | The file survives (`ConfigKept`) and is what is shown (`ShownIsSaved`) | 3 edits, 3 keys, both file formats, every fault, crash and loss of power |

**Why the bounds are enough.** Sessions interact only through the loop's single
`node` and the channel `remote`: two sessions give an old one beside a current
one, three an old one beside one being closed and one being opened. Commands are
handled one at a time, so three of them cover start-stop-start, start-start-start
and a shutdown after either; four clicks add a change of mode or peers between.
One peer and one endpoint more than one are enough, as none is compared with
another but for equality. `MaxPipe` and `MaxEvents` bound the status reports
that nobody reads; all other messages are bounded by the inputs. In `SystemProxy`
a launch enables and closes as often as it likes, so that two give a failure or a
crash in any operation with a second start to recover, and repeated attempts within
each; two changes give one before and one after the file is written, or two parts of
one. The endpoints are compared only with each other, hence the symmetry. (A change
in the middle of an operation is exempted by every property of this run but the
types, so it is left out; the proofs allow it.) Clients of the proxy share nothing but the accept task, so a talking and a silent one are
all there is to tell apart, and two starts give a bind after a close. A third
search is what it takes for a dialog, opened over the results of an older search,
to search again while another result is still on its way. The lengths in
`parsers` keep the ratios that matter: reads that do not divide the limit,
headers that end before, at and after it, records cut in the middle of every
field. Deadlock
checking is off because inputs, launches and sessions are bounded and a system
without further input rightly stops; that nothing waits forever is stated by the
liveness properties.

**Fairness.** tokio polls every ready branch of a `select!` and every ready task
eventually, and its timers fire: each kind of step of the loop and each step of
a `parent_connection` is weakly fair, the two time limits included, which keeps
`LifecycleResolved` from depending on the user. The GUI's timer dispatches the
event pump. In `ProxyServer` only the closing side is fair: its steps, its
two-second timer, and the stop of a task that was aborted; the accept task may
hang and clients, DNS servers and targets may be silent for ever. In `Discovery`
every step of a search is, as each request and each probe has a time limit. A
worker's own steps are fair except those that wait for the user (`WorkerConnects`, `AuthorizationDenied`), its crash and its ticks; under
`GuiFairSpec` workers have no fairness at all. The runtime's end is fair
(`ThreadEnds`) once nothing blocks it; the other thing the runtime may have in
`spawn_blocking` is a name lookup, which the resolver bounds. The user has no fairness,
with one exception: the second part of `ShutdownCompletes` assumes that prompts are
answered (`PromptsAnswered`), because a Windows build does not end before.

**Provisos stated in properties.** `OneTunnel`, `StoppedMeansDown` and
`SessionInv` hold only while no `close()` gives up: after its ten seconds the
next node starts beside the old worker. `PeersAgree` exempts edits the core
rejected or that fell into a start; `ModeAgrees` exempts a start whose
transition was ended by a late `Stopped` or `Failed` of an earlier node. The
proxy properties exempt a change made outside in the middle of an operation
(`raced`), which nothing could prevent, and somebody else who points the desktop at
Drosophila's proxy (`revived`). `SettingsNeverLost` and `SettingsRestored` also exempt
everything after a crash, a key that could not be written or a recovery file
that could not be removed (`mishap`); the other two only failing writes on WinInet. And
they are about `chosen`: an edit of a part of the settings that `is_owned` still
accepts is *not* kept, as section 4 says, and what these properties promise in this
case is the settings of before. `DesktopServed` exempts
a failed accept and settings that could not be taken back; `OverlayStaysInside`
names whose two lookups disagreed. `ConfigKept` exempts a new identity if `exists()`
could not see the file (`overlooked`), and promises that there is a configuration at
all only once one has been on the disk for good (`settled`): `save()` does not sync the
directory, so a loss of power can undo the rename of a first start. On Windows
`ShutdownCompletes` promises an end of the thread only after every elevated worker and
every prompt has ended. Each exemption is a history variable set by the actions
concerned, or, as the last, a predicate on the state.

## 4. What the code does that its documents do not say

1. `window_lost_edit`. While a node starts, which may include two minutes of an
   authorization prompt, the add button works; the peer is saved and listed but
   neither in the configuration the start copied nor sent to the node, and
   no later step makes up for it.
2. `sysproxy_crash`. `apply()` writes mode `none` first. A process that dies
   before the last write leaves settings that `is_owned` rejects; the next start
   says they were changed outside Drosophila and deletes the recovery file.
3. `sysproxy_second`. `recover_stale` runs before the application finds out
   that it is already running: a second launch turns the proxy of the first off
   and deletes its recovery file.

Smaller observations met on the way, for which no run expects a violation: a late
`Failed` or a second `Stopped` can end the transition of a start that is on its
way, and the mode can then be changed under it (this is what `ModeAgrees`
exempts); `enable()` leaves settings and recovery file in place when its
verifying read fails; a rollback ignores its errors and removes the file;
after a start was accepted, closing the window may take as long as the
authorization prompt, up to two minutes. On Windows the GTK main loop, which joins the
network thread (`app.rs:51`, `backend.rs:114-125`), is then blocked for as long as the
prompt is open or the elevated worker lives, with no limit: `close()` gives up on a
hung worker after ten seconds, the end of the runtime does not. An accept error ends the proxy server
silently while the node and the desktop settings stay. Reads from clients and
connections into the overlay have no time limit of their own; `close()` is what
ends them. While Drosophila's proxy is active, a change of one host or of the bypass list still
leaves settings that `is_owned` accepts (`system_proxy.rs:245-251`, `387-391`), so
closing writes the remembered settings over it and removes the file: an edit "made
outside Drosophila" is left untouched only if it reaches the mode or all hosts (on
WinInet, the flags or the server). Switching the mode off is such an edit, and it
leaves Drosophila's hosts behind: whoever switches it on again later has a proxy
nobody listens on, without a recovery file. A request whose headers are not understood is closed without an answer,
and one may exceed the limit by one read. Toggling a filter during a search, or
after it failed, replaces the message by "No peers available" (`app.rs:967`).
A new dialog has the default filters, so of the cache only their entry is ever
read. The directory is not synced after the rename, so a loss of power may bring
the old file back, or, at the first start, take the only one away: the next start then
makes another private key. A crash may leave a temporary file behind; and a configuration
that `exists()` cannot look at is replaced by one with a new key.

## 5. The proofs

Eight modules prove theorems, for all values of the constants that meet the
assumptions named.

`BackendProofs` proves for all values of the constants, under
`MessagesAssumption` alone (modes are modes, bounds are natural numbers, faults
are known ones; nothing about the sets of peers):

* `TypeCorrect`: `Spec => []TypeInv`. `TypeOK` alone is not inductive: what a
  start forwards must be a start, and its session a session (`PendingStart`).
* `SessionsOwned`: `Spec => []SessionInv`, that is `Ownership` for systems
  without the close timeout.
* `OneTunnelHolds` and `StoppedMeansDownHolds`: the two properties, from
  `Ownership`.

Neither property is inductive. That at most one worker holds a tunnel follows
from who *owns* a connection: the node held, the node being closed or the start
in progress, never two at once (`OneOwner`, `LinksOwned`). A worker without an
owner has a connection that `Ended`, and must be shown to have exited or to be
unable to start any more (`EndedIsDown`). Such a worker may still connect to a
listener that is gone, so `ListeningIsQuiet` and `FreshSessions` say that nothing
was ever sent to a session before it was accepted; `OpenIsAttached` excludes a
disconnect while the loop waits for the connection's end; `EndReportsTrue` says
that a node dropped because of a report had really ended. Each step of the
next-state relation is shown to preserve these conjuncts in `LinkStepOwnership`,
`WorkerStepOwnership` and `LoopStepOwnership`; `OwnerUnique` and `TunnelIsOwned`
turn them into the theorems.

`StoryProofs`, for the same constants and with every fault, a close that gives up
included:

* `AbandonedLinksEndHolds` and `EndIsReportedHolds`, from `PlaceInv`, the part of
  `Ownership` that survives such a close.
* `AnnouncementTruthfulHolds`, `StatusOnlyWhileRunningHolds` (an action property)
  and `LifecycleSafeHolds`, the refinement of `NodeLifecycle`'s safety part, from
  `StoryInv`. Between two awaits what was announced follows from where the loop is
  (`Told`). With a node in a session it depends on what the worker said, and on
  how much of that has been read: either it never said that its start failed
  (`Unfailed`), and then `Started`, or the end with an error, is the first thing the
  loop reads of it; or it exited after the failure, which is still in the pipe
  (`FailComing`), in the channel before anything else of the session
  (`FailReported`), or told (`FailTold`), after which only ends follow. So a quiet
  `Disconnected` never takes away a node the window believes to run. A session that
  was not accepted yet is `Blank`, which is why numbers can be trusted.

`AppProofs`, about the whole application, for any number of clicks, sessions and
faults:

* `ApplicationIsBackend`: `AppSpec => Spec`. The window sends some of the commands
  that `Backend` allows anybody to send, so everything proved of the thread holds
  of the application (`ThreadInvariants`, `EventsFollowLifecycle`).
* `SwitchTruthfulHolds`, which is inductive by itself.
* `WindowAgreesHolds` from `AgreeInv`. While a click has not been answered, its
  command is queued or in work and a `Starting` or `Stopped` will follow
  (`Unanswered`). Otherwise the events still on their way take the phase the
  window shows to the one announced (`Foretells`); a `Failed` among them means the
  same to both because the `Starting` before it is in the same queue.
* `PeersAgreeHolds` from `PeersInv`: the peers of the node, once the edits that
  are queued for the loop, for the session and for the worker are applied to
  them in this order, are those the window lists (`PeersArrive`). Edits that cannot
  arrive fell into a start, which is what `missed` records.
* `ModeAgreesHolds` from `ModeInv`. As long as every end the window was told of was
  the one it waited for, at most one start or stop is under way, as a command, in
  the loop's hands or as an event, and the window is in transition until it reads
  the answer (`InStep`). Hence the mode row cannot be changed while a start with the
  mode shown is under way or its node may be in use (`SameMode`). The proof needs
  that a worker says once, and first, that it started, and only before the window
  is told (`StartedOnce`); that the loop starts a node where its mode belongs
  (`StartsInPlace`) and holds no start while it waits (`PendingDone`); and that
  nothing was shut down while the window is open (`NoShutdown`).

These invariants were checked on the bounds of `window_faults` before they were
proved.

`ProxyProofs`, for any number of clients, starts and faults:

* `DesktopServedHolds` and `EndpointFreedHolds` from `NodeInv` and `ServedInv`.
  What makes `DesktopServed` inductive is that only a serving node holds a
  `SystemProxy`, that only this, or an excuse, lets the desktop point here, and
  that an accept task ends only after a cancellation or a failed accept. For
  `EndpointFreed`: once the accept task drains, every client is aborted, and when
  it has ended, only a close that gave up has left one behind.
* `AnswersTruthfulHolds`, `StreamInOrderHolds`, `OverlayStaysInsideHolds` from
  `TalkInv`, which says by the place of a task what was said and passed on until
  there (`AnswerOf`, `StreamOf`, `InsideOf`). A task changes nothing of another's
  (`TaskApart`), so each step is looked at for one client.
* `ProxyTypeHolds`: types, from the three.

`ConfigProofs`: `ConfigKeptHolds` from `DiskInv` (everything a loss of power may
leave is a file a start can work with, or, as long as nothing is `settled`, none; what
is about to be renamed is whole and on the disk; a start creates a file only where it
sees none, and once one is settled that is only where it overlooked it), and
`ShownIsSavedHolds` from `WindowInv` on top of it.

`ParserProofs`:

* `WalkInBounds`, that no datagram of any length makes `parse_aaaa_response` read
  outside of it, and `HeadIsRight`, for requests and reads of any size. Both need
  little more than the property itself: that the record being looked at begins
  inside the datagram, that what was read is part of the stream.
* `AnswerIsRight`, for messages of any names, records and counts, cut anywhere: the
  walk by offsets finds the address that the layout has. The invariant `WalkInv`
  places the walk in the layout: at a label or the end of a name, behind a name, at
  a record, with only whole, well-formed records of no use behind it (`Passed`). Its
  steps need to know which octet lies where. The joining of labels into names and of
  records into a message is the recursive function in `FlattenSeq`, so this is an
  induction over the parts (`JoinedIsSeq`, `JoinedBegins`, `PartOf`), and the
  induction itself is proved from finite sets (`SetInduction`: a set with 0 and
  all successors that missed a number would give a one-to-one map of a finite set
  into less of it). From there each layout has a lemma: `NameLayout`, `RecordLayout`,
  `QuestionLayout`, `MessageLayout`. The one assumption, `ParsersAssumption`, is that
  the server's messages are messages (`IsMessage`). `WalkInv` was checked on the
  bounds of `parsers` first.

`SysProofs`, under two assumptions: one process runs at a time (`OneProcess`; with
two the properties fail, as `OnlyStaleRecovered` does), and what users choose from
are settings with no host of Drosophila's in force (`OthersChoose`). They may still
edit any part of the settings, so any mixture with Drosophila's can arise: the invariants
call settings `Clean` if a dialog allows them and no local proxy owns them.

* `RecoveryPossibleHolds` and `NeverRemembersItselfHolds` from `SysInv`. As long as
  nothing outside interferes with an operation, a recovery file remembers clean
  settings and those of a local proxy (`Remembers`), and the desktop is clean or owned
  by the file's. What makes it inductive is `PlaceOf`: while keys are written the mode is
  off and the file is the process's own, and it is removed only after the
  desktop is clean again. Keys are written one at a time, so each write is
  followed through (`Applying`).
* `SettingsNeverLostHolds` and `SettingsRestoredHolds` from `ChoiceInv`: what is to be
  in force afterwards (`chosen`) is remembered while `is_owned` takes the settings for
  those of the recovery file and is in force otherwise (`Settled`), and known from the
  place in the middle of an operation.
* `SysTypeHolds`: types, for any number of processes and without either assumption.

`DiscoveryProofs`, for any number of dialogs, searches, peers and results in any
order: `CacheTruthfulHolds`, `DialogCurrentHolds`, `RefreshWaitsHolds`,
`FoundAsListedHolds` and `DiscoveryTypeHolds`, all from `DiscoveryInv`. Each command
and each report is under way once, and only for a search that is queued, or has
ended (`WaysOK`); an open dialog shows the cache or waits for a search of its own
(`DialogOK`); what a search has still to probe, probes and has found names every
address once and is taken from one source's list, where it is up (`TaskOK`).

Checked by TLC only: liveness and everything else that needs `ENABLED`, which is out
of the prover's reach. Every invariant of the passing runs has its theorem.

## 6. What is not modelled, and the plan

Left out for good: the bytes of the line protocol and its authentication
token, the continuation of `accept_authenticated` after a foreign connection,
widget layout and painting, pkexec and Flatpak command lines, capability and
console calls, the Yggdrasil core (external: its node starts, may fail, holds a
peer set) and the userspace TCP/IP stack. The packet bridge only copies packets
between two channels; what `parse_http_request` does with the text of the headers
is string handling. `main.rs` dispatches on a flag. `recover_stale` asks
`path.exists()` (`system_proxy.rs:88`), which is also false when the file cannot be
looked at; the same question is modelled in `ConfigFile`, but not here, where it would
let `enable()` remember Drosophila's stale settings as the user's. What a change outside
does in the middle of an operation is modelled, but no property is about it.

Next, in this order:

1. **The proxy inside the thread**: `ProxyServer`'s start and close in place of
   `StartLocal` and `CloseLocal`, and `SystemProxy` in place of `pointed`.
2. **The proxy card** of the window: what it accepts as an address and when.
3. **Proofs** about that composition: `DesktopServed` of the application, from
   `NodeInv` and the places of the loop.
