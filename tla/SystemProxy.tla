---------------------------- MODULE SystemProxy ----------------------------
(***************************************************************************)
(* The desktop's proxy settings, the recovery file that remembers them and *)
(* the Drosophila processes that edit both (src/src/system_proxy.rs with   *)
(* its two platforms, and its callers in app.rs and backend.rs).  On       *)
(* GSettings the settings are written key by key, so another process, the  *)
(* user or a crash can come between any two writes; WinInet takes them in  *)
(* one call, but skips what a snapshot does not have.                      *)
(***************************************************************************)
EXTENDS Naturals, Sequences, FiniteSets

CONSTANTS
    Procs,          \* processes of the application the user may launch
    Listens,        \* loopback endpoints the local proxy may listen on
    UserSettings,   \* by platform: settings a user, or another program, may choose
    MaxLaunches,    \* bound: launches of the application
    MaxChanges,     \* bound: changes made outside Drosophila
    ProxyFaults     \* what may go wrong, among AllProxyFaults

AllProxyFaults == {"crash", "snapshotError", "readStateError", "writeStateError",
                   "applyError", "broadcastError", "removeStateError", "race"}

Hosts == {"http", "https", "socks"}
Key == {"mode", "rest"} \cup Hosts

\* "rest" stands for use-same-proxy and ignore-hosts, or the bypass list; a host
\* key for its host and port, or for its part of the one WinInet proxy server;
\* the mode for itself, or the flags.  Only on WinInet a key can be absent.
IsSnapshot(t) == DOMAIN t = Key

ASSUME SystemProxyAssumption ==
    /\ DOMAIN UserSettings \subseteq {"GSettings", "WinInet"}
    /\ \A f \in DOMAIN UserSettings : \A t \in UserSettings[f] : IsSnapshot(t)
    /\ MaxLaunches \in Nat
    /\ MaxChanges \in Nat
    /\ ProxyFaults \subseteq AllProxyFaults

VARIABLES
    platform,   \* the platform of the build
    desktop,    \* the desktop's settings
    stateFile,  \* the set of RecoveryStates on disk: empty or a singleton
    at,         \* where a process is
    goal,       \* what it is restoring or applying for; at rest, how that ended
    state,      \* the RecoveryState it works with
    step,       \* the next write of apply()
    launches,   \* launches so far
    changes,    \* changes outside so far
    chosen,     \* history: what is to be in force once no proxy is enabled
    foreign,    \* history: settings changed since the recovery file was written
    raced,      \* history: they changed in the middle of an operation of ours
    revived,    \* history: a change outside put Drosophila's proxy in force
    mishap      \* history: what went wrong that the settings may not survive

sysVars == <<platform, desktop, stateFile, at, goal, state, step, launches,
             changes, chosen, foreign, raced, revived, mishap>>

(***************************************************************************)
(* platform                                                                *)
(***************************************************************************)

LocalProxy(listen) ==
    [mode |-> "manual", http |-> listen, https |-> listen, socks |-> listen,
     rest |-> "local"]

\* One of the hosts is enough on GSettings; WinInet has them in one string.
SameHosts(f, current, expected) ==
    IF f = "WinInet" THEN \A key \in Hosts : current[key] = expected[key]
                     ELSE \E key \in Hosts : current[key] = expected[key]

IsOwned(f, current, expected) ==
    \/ current = expected
    \/ current.mode = "manual" /\ SameHosts(f, current, expected)

\* GSettings: "none" is written to the mode first and the wanted mode last.
WriteOrder == <<"mode", "http", "https", "socks", "rest", "mode">>

WrittenKey(target, i) ==
    [desktop EXCEPT ![WriteOrder[i]] =
        IF i = 1 THEN "none" ELSE target[WriteOrder[i]]]

\* WinInet: an option that the snapshot does not have is not set at all.
WrittenAtOnce(target) ==
    [key \in Key |-> IF target[key] = "absent" THEN desktop[key] ELSE target[key]]

Written(target, i) ==
    IF platform = "WinInet" THEN WrittenAtOnce(target) ELSE WrittenKey(target, i)

Writes == IF platform = "WinInet" THEN 1 ELSE Len(WriteOrder)

RecoveryState(listen) == [original |-> desktop, expected |-> LocalProxy(listen)]

(***************************************************************************)
(* State of the processes.                                                 *)
(***************************************************************************)

At == {"Down", "Recover", "Check", "Apply", "Remove", "Idle", "Snapshot",
       "WriteState", "Verify", "Active"}

\* Why recover_stale or restore_if_owned runs ("launch": app.rs:23, "enable":
\* system_proxy.rs:35, "close", "drop"), or apply ("set", "rollback").  At rest,
\* "failed" says that the last one could not read or write what it had to.
Goal == {"launch", "enable", "close", "drop", "set", "rollback", "none", "failed"}

Restoring == {"launch", "enable", "close", "drop"}

NoState == [original |-> [key \in Key |-> "none"],
            expected |-> [key \in Key |-> "none"]]

SysInit ==
    /\ platform \in DOMAIN UserSettings
    /\ desktop \in UserSettings[platform]
    /\ stateFile = {}
    /\ at = [p \in Procs |-> "Down"]
    /\ goal = [p \in Procs |-> "none"]
    /\ state = [p \in Procs |-> NoState]
    /\ step = [p \in Procs |-> 1]
    /\ launches = 0
    /\ changes = 0
    /\ chosen = desktop
    /\ foreign = FALSE
    /\ raced = FALSE
    /\ revived = FALSE
    /\ mishap = "none"

Move(p, place, why) ==
    /\ at' = [at EXCEPT ![p] = place]
    /\ goal' = [goal EXCEPT ![p] = why]

Forget(p) == state' = [state EXCEPT ![p] = NoState]

historyVars == <<launches, changes, chosen, foreign, raced, revived, mishap>>

\* "crash": a process died, or the recovery file could not be removed;
\* "unwritten", which outweighs it: settings could not be written.
Mishap(kind) ==
    /\ mishap' = IF mishap = "unwritten" THEN mishap ELSE kind
    /\ UNCHANGED <<launches, changes, chosen, foreign, raced, revived>>

\* Another process runs the main window already.
IsPrimary(p) == at[p] # "Down" /\ goal[p] # "launch"
AlreadyRunning(p) == \E q \in Procs \ {p} : IsPrimary(q)

AtRest(p) == at[p] \in {"Down", "Idle", "Active"}

(***************************************************************************)
(* Where each operation goes on.                                           *)
(***************************************************************************)

Ending(ok) == IF ok THEN "none" ELSE "failed"

\* recover_stale or restore_if_owned returned, with or without an error.
RestoreReturns(p, ok) ==
    CASE goal[p] = "launch" ->     \* the error is logged; then the app registers
           /\ Move(p, IF AlreadyRunning(p) THEN "Down" ELSE "Idle", Ending(ok))
           /\ Forget(p)
      [] goal[p] = "enable" ->
           /\ Move(p, IF ok THEN "Snapshot" ELSE "Idle", IF ok THEN "set" ELSE "failed")
           /\ Forget(p)
      [] goal[p] = "close" /\ ~ok ->    \* Drop tries once more
           /\ Move(p, "Check", "drop")
           /\ UNCHANGED state
      [] OTHER ->
           /\ Move(p, "Idle", Ending(ok))
           /\ Forget(p)

StartApply(p, why) ==
    /\ Move(p, "Apply", why)
    /\ step' = [step EXCEPT ![p] = 1]

(***************************************************************************)
(* recover_stale and restore_if_owned                                      *)
(***************************************************************************)

\* The process starts: recover_stale runs before anything else.
Launch(p) ==
    /\ at[p] = "Down"
    /\ launches < MaxLaunches
    /\ launches' = launches + 1
    /\ Move(p, "Recover", "launch")
    /\ UNCHANGED <<desktop, stateFile, state, step, changes, chosen, foreign,
                   raced, revived, mishap>>

ReadStateFile(p) ==
    /\ at[p] = "Recover"
    /\ IF stateFile = {}
       THEN RestoreReturns(p, TRUE)
       ELSE /\ Move(p, "Check", goal[p])
            /\ state' = [state EXCEPT ![p] = CHOOSE t \in stateFile : TRUE]
    /\ UNCHANGED <<desktop, stateFile, step, historyVars>>

\* The recovery file cannot be read, or not parsed.
ReadStateFails(p) ==
    /\ "readStateError" \in ProxyFaults
    /\ at[p] = "Recover"
    /\ stateFile # {}
    /\ RestoreReturns(p, FALSE)
    /\ UNCHANGED <<desktop, stateFile, step, historyVars>>

Owned(p) == IsOwned(platform, desktop, state[p].expected)

CheckOwned(p) ==
    /\ at[p] = "Check"
    /\ Owned(p)
    /\ StartApply(p, goal[p])
    /\ UNCHANGED <<desktop, stateFile, state, historyVars>>

\* "system proxy settings changed outside Drosophila; leaving them untouched"
CheckNotOwned(p) ==
    /\ at[p] = "Check"
    /\ ~Owned(p)
    /\ Move(p, "Remove", goal[p])
    /\ UNCHANGED <<desktop, stateFile, state, step, historyVars>>

\* Mistake: settings that cannot be read count as changed by somebody else.
CheckFailsAsForeign(p) ==
    /\ "snapshotError" \in ProxyFaults
    /\ at[p] = "Check"
    /\ Move(p, "Remove", goal[p])
    /\ UNCHANGED <<desktop, stateFile, state, step, historyVars>>

CheckFails(p) ==
    /\ "snapshotError" \in ProxyFaults
    /\ at[p] = "Check"
    /\ RestoreReturns(p, FALSE)
    /\ UNCHANGED <<desktop, stateFile, step, historyVars>>

RemoveState(p) ==
    /\ at[p] = "Remove"
    /\ stateFile' = {}
    /\ foreign' = FALSE
    /\ RestoreReturns(p, TRUE)
    /\ UNCHANGED <<desktop, step, launches, changes, chosen, raced, revived,
                   mishap>>

RemoveStateFails(p) ==
    /\ "removeStateError" \in ProxyFaults
    /\ at[p] = "Remove"
    /\ RestoreReturns(p, FALSE)
    /\ Mishap("crash")
    /\ UNCHANGED <<desktop, stateFile, step>>

(***************************************************************************)
(* apply                                                                   *)
(***************************************************************************)

Target(p) == IF goal[p] = "set" THEN state[p].expected ELSE state[p].original

\* Mistake: one write too many.
ApplyWritesPastEnd(p) ==
    /\ at[p] = "Apply"
    /\ desktop' = Written(Target(p), step[p])
    /\ IF step[p] <= Writes
       THEN /\ step' = [step EXCEPT ![p] = @ + 1]
            /\ UNCHANGED <<at, goal>>
       ELSE /\ step' = [step EXCEPT ![p] = 1]
            /\ Move(p, IF goal[p] = "set" THEN "Verify" ELSE "Remove", goal[p])
    /\ UNCHANGED <<stateFile, state, historyVars>>

ApplyWrites(p) ==
    /\ at[p] = "Apply"
    /\ desktop' = Written(Target(p), step[p])
    /\ IF step[p] < Writes
       THEN /\ step' = [step EXCEPT ![p] = @ + 1]
            /\ UNCHANGED <<at, goal>>
       ELSE /\ step' = [step EXCEPT ![p] = 1]
            /\ Move(p, IF goal[p] = "set" THEN "Verify" ELSE "Remove", goal[p])
    /\ UNCHANGED <<stateFile, state, historyVars>>

\* apply() returns an error.  A failed set is rolled back; a failed rollback is
\* ignored; a failed restoration is reported with the file still there.
ApplyReturnsError(p) ==
    /\ at[p] = "Apply"
    /\ CASE goal[p] = "set" -> StartApply(p, "rollback") /\ UNCHANGED state
         [] goal[p] = "rollback" ->
              /\ Move(p, "Remove", "rollback")
              /\ step' = [step EXCEPT ![p] = 1]
              /\ UNCHANGED state
         [] OTHER ->
              /\ RestoreReturns(p, FALSE)
              /\ step' = [step EXCEPT ![p] = 1]
    /\ UNCHANGED stateFile

\* A key cannot be written.
ApplyFails(p) ==
    /\ "applyError" \in ProxyFaults
    /\ ApplyReturnsError(p)
    /\ Mishap("unwritten")
    /\ UNCHANGED desktop

\* WinInet has the settings, but tells nobody.
BroadcastFails(p) ==
    /\ "broadcastError" \in ProxyFaults
    /\ platform = "WinInet"
    /\ ApplyReturnsError(p)
    /\ desktop' = WrittenAtOnce(Target(p))
    /\ UNCHANGED historyVars

(***************************************************************************)
(* SystemProxy::enable                                                     *)
(***************************************************************************)

\* Mistake: enable() does not recover stale settings first.
EnableWithoutRecovery(p) ==
    /\ at[p] = "Idle"
    /\ Move(p, "Snapshot", "enable")
    /\ UNCHANGED <<desktop, stateFile, state, step, historyVars>>

\* A node starts in System Proxy mode.
Enable(p) ==
    /\ at[p] = "Idle"
    /\ Move(p, "Recover", "enable")
    /\ UNCHANGED <<desktop, stateFile, state, step, historyVars>>

TakeSnapshot(p, listen) ==
    /\ at[p] = "Snapshot"
    /\ state' = [state EXCEPT ![p] = RecoveryState(listen)]
    /\ Move(p, "WriteState", "set")
    /\ UNCHANGED <<desktop, stateFile, step, historyVars>>

WriteState(p) ==
    /\ at[p] = "WriteState"
    /\ stateFile' = {state[p]}
    /\ foreign' = FALSE
    /\ StartApply(p, "set")
    /\ UNCHANGED <<desktop, state, launches, changes, chosen, raced, revived,
                   mishap>>

\* Mistake: giving up removes the recovery file, but not the settings.
EnableFailsForgets(p) ==
    /\ \/ "snapshotError" \in ProxyFaults /\ at[p] \in {"Snapshot", "Verify"}
       \/ "writeStateError" \in ProxyFaults /\ at[p] = "WriteState"
    /\ Move(p, "Idle", "failed")
    /\ Forget(p)
    /\ stateFile' = {}
    /\ UNCHANGED <<desktop, step, historyVars>>

\* enable() gives up, leaving whatever is there.
EnableFails(p) ==
    /\ \/ "snapshotError" \in ProxyFaults /\ at[p] \in {"Snapshot", "Verify"}
       \/ "writeStateError" \in ProxyFaults /\ at[p] = "WriteState"
    /\ Move(p, "Idle", "failed")
    /\ Forget(p)
    /\ UNCHANGED <<desktop, stateFile, step, historyVars>>

VerifyOwned(p) ==
    /\ at[p] = "Verify"
    /\ Owned(p)
    /\ Move(p, "Active", "none")
    /\ UNCHANGED <<desktop, stateFile, state, step, historyVars>>

VerifyRejected(p) ==
    /\ at[p] = "Verify"
    /\ ~Owned(p)
    /\ StartApply(p, "rollback")
    /\ UNCHANGED <<desktop, stateFile, state, historyVars>>

(***************************************************************************)
(* close, quit, crash; the user.                                           *)
(***************************************************************************)

\* Mistake: closing the node leaves the desktop's settings alone.
CloseWithoutRestoring(p) ==
    /\ at[p] = "Active"
    /\ Move(p, "Idle", "none")
    /\ UNCHANGED <<desktop, stateFile, state, step, historyVars>>

Close(p) ==
    /\ at[p] = "Active"
    /\ Move(p, "Check", "close")
    /\ UNCHANGED <<desktop, stateFile, state, step, historyVars>>

Quit(p) ==
    /\ at[p] = "Idle"
    /\ Move(p, "Down", goal[p])
    /\ UNCHANGED <<desktop, stateFile, state, step, historyVars>>

Crash(p) ==
    /\ "crash" \in ProxyFaults
    /\ at[p] # "Down"
    /\ Move(p, "Down", "none")
    /\ Forget(p)
    /\ step' = [step EXCEPT ![p] = 1]
    /\ Mishap("crash")
    /\ UNCHANGED <<desktop, stateFile>>

\* Settings that the recovery file, if there is one, takes for Drosophila's.
Known(settings) == \E t \in stateFile : IsOwned(platform, settings, t.expected)

OurProxy == {LocalProxy(listen) : listen \in Listens}

\* Settings that point at Drosophila's proxy.
PointsAtUs(settings) == \E ours \in OurProxy : IsOwned(platform, settings, ours)

\* What can be edited without the rest.
Parts == IF platform = "WinInet" THEN {{"mode"}, Hosts, {"rest"}}
                                 ELSE {{key} : key \in Key}

\* There is always a mode, and a manual proxy has a server.
Sensible(settings) ==
    /\ settings.mode # "absent"
    /\ settings.mode = "manual" => \A key \in Hosts : settings[key] # "absent"

\* The user, or another program, edits one part of the settings or all.
ChangeOutside(settings, keys) ==
    /\ changes < MaxChanges
    /\ "race" \in ProxyFaults \/ \A p \in Procs : AtRest(p)
    /\ desktop' = [key \in Key |-> IF key \in keys THEN settings[key] ELSE desktop[key]]
    /\ desktop' # desktop
    /\ Sensible(desktop')
    /\ changes' = changes + 1
    /\ chosen' = IF Known(desktop') THEN (CHOOSE t \in stateFile : TRUE).original
                                   ELSE desktop'
    /\ foreign' = TRUE
    /\ raced' = (raced \/ \E p \in Procs : ~AtRest(p))
    /\ revived' = (revived \/ (PointsAtUs(desktop') /\ ~Known(desktop')))
    /\ UNCHANGED <<stateFile, at, goal, state, step, launches, mishap>>

ProcStep(p) ==
    \/ Launch(p)
    \/ ReadStateFile(p) \/ ReadStateFails(p)
    \/ CheckOwned(p) \/ CheckNotOwned(p) \/ CheckFails(p)
    \/ RemoveState(p) \/ RemoveStateFails(p)
    \/ ApplyWrites(p) \/ ApplyFails(p) \/ BroadcastFails(p)
    \/ Enable(p) \/ EnableFails(p)
    \/ \E listen \in Listens : TakeSnapshot(p, listen)
    \/ WriteState(p)
    \/ VerifyOwned(p) \/ VerifyRejected(p)
    \/ Close(p) \/ Quit(p) \/ Crash(p)

SysNext ==
    /\ \/ \E p \in Procs : ProcStep(p)
       \/ \E settings \in UserSettings[platform], keys \in Parts \cup {Key} :
            ChangeOutside(settings, keys)
    /\ UNCHANGED platform

SysSpec == SysInit /\ [][SysNext]_sysVars

(***************************************************************************)
(* Properties.                                                             *)
(***************************************************************************)

SysTypeOK ==
    /\ platform \in DOMAIN UserSettings
    /\ IsSnapshot(desktop)
    /\ \A t \in stateFile : IsSnapshot(t.original) /\ IsSnapshot(t.expected)
    /\ Cardinality(stateFile) <= 1
    /\ at \in [Procs -> At]
    /\ goal \in [Procs -> Goal]
    /\ step \in [Procs -> 1..Writes]
    /\ {foreign, raced, revived} \subseteq BOOLEAN
    /\ mishap \in {"none", "crash", "unwritten"}

\* Nothing outside interferes with an operation, and nobody but Drosophila points
\* the desktop at its proxy: whoever switches the proxy mode on again over hosts
\* that Drosophila left behind does.  And on WinInet, where settings that were
\* written may count as failed because nobody was told, no write fails: if the
\* rollback does, Drosophila's settings stay without a recovery file.
Undisturbed ==
    ~raced /\ ~revived /\ ~(platform = "WinInet" /\ mishap = "unwritten")

\* Whenever the desktop points at Drosophila's proxy, the recovery file is
\* there to undo it: it is written before the first key and removed after the
\* last one, whatever fails in between and whatever part of the settings is
\* edited meanwhile (system_proxy.rs:44-56, 103-111).
RecoveryPossible == Undisturbed /\ PointsAtUs(desktop) => Known(desktop)

\* Drosophila never remembers its own proxy as the settings to go back to:
\* stale settings are recovered before a new snapshot is taken
\* (system_proxy.rs:35-38).
NeverRemembersItself ==
    Undisturbed => \A t \in stateFile : ~PointsAtUs(t.original)

\* On WinInet what the user had not set at all may keep what Drosophila put there.
Honours(settings, choice) ==
    \A key \in Key : choice[key] \in {settings[key], "absent"}

\* What is to be in force afterwards (`chosen`) is in force or remembered whenever
\* no operation is under way, if nobody changed anything in the middle of one and
\* nothing went wrong but reading, the first write of the file and Windows'
\* broadcast.  That is what was last chosen outside, with one exception that is
\* the code's own: an edit after which is_owned (system_proxy.rs:245-251, 387-391)
\* still takes the settings for Drosophila's - on GSettings any edit that leaves it
\* one host of the manual proxy, on WinInet one of the bypass list - counts as an
\* edit of Drosophila's settings.  close() writes the remembered settings over it.
SettingsNeverLost ==
    (\A p \in Procs : AtRest(p)) /\ ~raced /\ ~revived /\ mishap = "none" =>
        \/ Honours(desktop, chosen)
        \/ \E t \in stateFile : Honours(t.original, chosen)

\* ... and it is in force whenever no proxy is enabled and the last operation
\* succeeded, however the ones before it failed: the settings of before, if what
\* was edited meanwhile is_owned still took for Drosophila's, the edited ones if
\* it did not.
SettingsRestored ==
    (\A p \in Procs : at[p] \in {"Down", "Idle"} /\ goal[p] # "failed")
        /\ ~raced /\ ~revived /\ mishap = "none" => Honours(desktop, chosen)

\* The warning "system proxy settings changed outside Drosophila; leaving them
\* untouched" (system_proxy.rs:108) tells the truth.  (Drop's second attempt may
\* repeat a restoration that only failed to remove the file.)
BlameJustified ==
    \A p \in Procs : at[p] = "Check" /\ ~Owned(p) => foreign

\* Only stale settings are recovered at launch (app.rs:23-25): those of a
\* process that is no longer there.
OnlyStaleRecovered ==
    \A p, q \in Procs :
        at[p] = "Apply" /\ goal[p] = "launch" => at[q] # "Active"

=============================================================================
