----------------------------- MODULE SysProofs -----------------------------
(***************************************************************************)
(* Proofs about the system proxy settings, on both platforms and for any   *)
(* endpoints, users' settings, launches and failures.  As long as one      *)
(* process runs at a time, Drosophila's settings can be taken back and are *)
(* never taken for the user's; and what is to be in force afterwards is in *)
(* force or remembered, as long as nothing goes wrong that cannot be       *)
(* undone.  Others may edit any part of the settings meanwhile.            *)
(***************************************************************************)
EXTENDS SystemProxy, FiniteSetTheorems, TLAPS

\* A second process may recover what the first has just set (OnlyStaleRecovered).
OneProcess == \A p, q \in Procs : p = q

\* Settings in which nothing of Drosophila's is in force.
Clean(f, t) == Sensible(t) /\ \A ours \in OurProxy : ~IsOwned(f, t, ours)

OthersChoose ==
    /\ \A f \in DOMAIN UserSettings : \A t \in UserSettings[f] : Clean(f, t)
    /\ "absent" \notin Listens

(***************************************************************************)
(* Operators.                                                              *)
(***************************************************************************)

\* What it is to be owned by a local proxy.
LEMMA OwnedByLocal ==
    ASSUME NEW f, NEW t, NEW listen
    PROVE  IsOwned(f, t, LocalProxy(listen)) <=>
             /\ t.mode = "manual"
             /\ IF f = "WinInet" THEN \A key \in Hosts : t[key] = listen
                                 ELSE \E key \in Hosts : t[key] = listen
<1> DEFINE e == LocalProxy(listen)
<1>1. e.mode = "manual" /\ \A key \in Hosts : e[key] = listen
  BY DEF LocalProxy, Hosts
<1>2. \E key \in Hosts : TRUE
  BY DEF Hosts
<1> HIDE DEF e
<1>3. IsOwned(f, t, e) <=> t.mode = "manual" /\ SameHosts(f, t, e)
  BY <1>1, <1>2 DEF IsOwned, SameHosts
<1>4. SameHosts(f, t, e) <=> IF f = "WinInet" THEN \A key \in Hosts : t[key] = listen
                                             ELSE \E key \in Hosts : t[key] = listen
  BY <1>1 DEF SameHosts
<1> QED BY <1>3, <1>4 DEF e

LEMMA CleanNotOwned ==
    ASSUME NEW f, NEW t, Clean(f, t), NEW listen \in Listens
    PROVE  ~IsOwned(f, t, LocalProxy(listen))
BY DEF Clean, OurProxy

\* With the mode off, nothing is.
LEMMA OffIsClean ==
    ASSUME NEW f, NEW t, t.mode = "none"
    PROVE  Clean(f, t)
<1>1. \A listen : ~IsOwned(f, t, LocalProxy(listen))
  BY OwnedByLocal
<1> QED BY <1>1 DEF Clean, Sensible, OurProxy

\* Settings that agree in mode and, if they are manual, in hosts are as clean.
LEMMA CleanAlike ==
    ASSUME NEW f, NEW t, Clean(f, t), NEW u, u.mode = t.mode,
           t.mode = "manual" => \A key \in Hosts : u[key] = t[key]
    PROVE  Clean(f, u)
<1>1. Sensible(u)
  BY DEF Clean, Sensible
<1>2. ASSUME NEW listen \in Listens PROVE ~IsOwned(f, u, LocalProxy(listen))
  <2>1. ~IsOwned(f, t, LocalProxy(listen))
    BY CleanNotOwned
  <2>2. CASE t.mode = "manual"
    BY <2>1, <2>2, OwnedByLocal
  <2>3. CASE t.mode # "manual"
    BY <2>3, OwnedByLocal
  <2> QED BY <2>2, <2>3
<1> QED BY <1>1, <1>2 DEF Clean, OurProxy

\* The single write of WinInet leaves the target's mode and, if the target is
\* manual, its hosts.
LEMMA WrittenClean ==
    ASSUME NEW target, Clean(platform, target)
    PROVE  Clean(platform, WrittenAtOnce(target))
<1> DEFINE u == WrittenAtOnce(target)
<1>1. \A key \in Key : u[key] = IF target[key] = "absent" THEN desktop[key] ELSE target[key]
  BY DEF WrittenAtOnce
<1>2. u.mode = target.mode
  BY <1>1 DEF Clean, Sensible, Key
<1>3. target.mode = "manual" => \A key \in Hosts : u[key] = target[key]
  BY <1>1 DEF Clean, Sensible, Key
<1> HIDE DEF u
<1>4. Clean(platform, u)
  BY <1>2, <1>3, CleanAlike
<1> QED BY <1>4 DEF u

LEMMA WrittenLocal ==
    ASSUME NEW listen \in Listens, "absent" \notin Listens
    PROVE  IsOwned(platform, WrittenAtOnce(LocalProxy(listen)), LocalProxy(listen))
<1> DEFINE e == LocalProxy(listen)
           u == WrittenAtOnce(e)
<1>1. e.mode = "manual" /\ \A key \in Hosts : e[key] = listen
  BY DEF LocalProxy, Hosts
<1>2. \A key \in Key : u[key] = IF e[key] = "absent" THEN desktop[key] ELSE e[key]
  BY DEF WrittenAtOnce
<1>3. u.mode = "manual" /\ \A key \in Hosts : u[key] = listen
  BY <1>1, <1>2 DEF Key
<1>4. \E key \in Hosts : TRUE
  BY DEF Hosts
<1> HIDE DEF u
<1>5. IsOwned(platform, u, LocalProxy(listen))
  BY <1>3, <1>4, OwnedByLocal
<1> QED BY <1>5 DEF u

\* One write of GSettings: the mode goes off, each key gets its value, the mode
\* comes last.
LEMMA KeyWritten ==
    ASSUME IsSnapshot(desktop), NEW target, NEW i \in 1..6
    PROVE  LET u == WrittenKey(target, i)
           IN  /\ IsSnapshot(u)
               /\ i = 1 => u.mode = "none"
               /\ i \in 2..5 => u.mode = desktop.mode
               /\ i = 6 => u.mode = target.mode
               /\ u.http = IF i = 2 THEN target.http ELSE desktop.http
               /\ u.https = IF i = 3 THEN target.https ELSE desktop.https
               /\ u.socks = IF i = 4 THEN target.socks ELSE desktop.socks
               /\ u.rest = IF i = 5 THEN target.rest ELSE desktop.rest
<1> DEFINE key == WriteOrder[i]
           value == IF i = 1 THEN "none" ELSE target[key]
           u == [desktop EXCEPT ![key] = value]
<1>1. /\ i = 1 => key = "mode"
      /\ i = 2 => key = "http"
      /\ i = 3 => key = "https"
      /\ i = 4 => key = "socks"
      /\ i = 5 => key = "rest"
      /\ i = 6 => key = "mode"
  BY DEF WriteOrder
<1>2. i \in {1, 2, 3, 4, 5, 6}
  OBVIOUS
<1>3. WrittenKey(target, i) = u
  BY DEF WrittenKey
<1> HIDE DEF key
<1>4. /\ IsSnapshot(u)
      /\ \A k \in Key : u[k] = IF k = key THEN value ELSE desktop[k]
  BY DEF IsSnapshot
<1> HIDE DEF u
<1>5. /\ u.mode = IF key = "mode" THEN value ELSE desktop.mode
      /\ u.http = IF key = "http" THEN value ELSE desktop.http
      /\ u.https = IF key = "https" THEN value ELSE desktop.https
      /\ u.socks = IF key = "socks" THEN value ELSE desktop.socks
      /\ u.rest = IF key = "rest" THEN value ELSE desktop.rest
  BY <1>4 DEF Key, Hosts
<1>6. /\ i = 1 => u.mode = "none"
      /\ i \in 2..5 => u.mode = desktop.mode
      /\ i = 6 => u.mode = target.mode
  BY <1>1, <1>2, <1>5
<1>7. /\ u.http = IF i = 2 THEN target.http ELSE desktop.http
      /\ u.https = IF i = 3 THEN target.https ELSE desktop.https
      /\ u.socks = IF i = 4 THEN target.socks ELSE desktop.socks
      /\ u.rest = IF i = 5 THEN target.rest ELSE desktop.rest
  BY <1>1, <1>2, <1>5
<1> QED BY <1>3, <1>4, <1>6, <1>7

(***************************************************************************)
(* The invariant.                                                          *)
(***************************************************************************)

PlacesOK ==
    /\ DOMAIN at = Procs /\ DOMAIN goal = Procs
    /\ DOMAIN state = Procs /\ DOMAIN step = Procs
    /\ IsSnapshot(desktop)
    /\ platform \in DOMAIN UserSettings

\* What a recovery file remembers: clean settings, and those of a local proxy.
Remembers(f, s) ==
    /\ Clean(f, s.original)
    /\ \E listen \in Listens : s.expected = LocalProxy(listen)

\* A process that applies: before the first write of its own settings the desktop
\* is clean, while it writes the mode is off, and what it has written is there.
Applying(p) ==
    /\ goal[p] \in Restoring \cup {"set", "rollback"}
    /\ step[p] \in 1..Writes
    /\ goal[p] = "set" /\ step[p] = 1 => Clean(platform, desktop)
    /\ goal[p] = "rollback" /\ platform # "WinInet" => Clean(platform, desktop)
    /\ step[p] > 1 => desktop.mode = "none"
    /\ step[p] > 2 => desktop.http = Target(p).http
    /\ step[p] > 3 => desktop.https = Target(p).https
    /\ step[p] > 4 => desktop.socks = Target(p).socks

\* From the writing of the recovery file to its removal it is the process's own.
PlaceOf(p) ==
    /\ at[p] \in {"Check", "Apply", "Remove", "Verify", "Active"} => stateFile = {state[p]}
    /\ at[p] \in {"Snapshot", "WriteState", "Remove"} => Clean(platform, desktop)
    /\ at[p] = "WriteState" => Remembers(platform, state[p])
    /\ at[p] = "Recover" => goal[p] \in {"launch", "enable"}
    /\ at[p] = "Check" => goal[p] \in Restoring
    /\ at[p] = "Remove" => goal[p] \in Restoring \cup {"rollback"}
    /\ at[p] = "Apply" => Applying(p)

Recoverable ==
    Clean(platform, desktop) \/ \E t \in stateFile : IsOwned(platform, desktop, t.expected)

Remembered ==
    /\ \A t \in stateFile : Remembers(platform, t)
    /\ \A t, u \in stateFile : t = u
    /\ Recoverable
    /\ \A p \in Procs : PlaceOf(p)

SysInv == PlacesOK /\ (Undisturbed => Remembered)

\* Where a restoration returns to.
LEMMA Returns ==
    ASSUME PlacesOK, NEW p \in Procs, NEW ok \in BOOLEAN, RestoreReturns(p, ok)
    PROVE  /\ DOMAIN at' = Procs /\ DOMAIN goal' = Procs /\ DOMAIN state' = Procs
           /\ at'[p] \in {"Down", "Idle", "Snapshot", "Check"}
           /\ at'[p] = "Snapshot" => goal[p] = "enable" /\ ok
           /\ at'[p] = "Check" => goal'[p] = "drop" /\ ~ok /\ UNCHANGED state
<1> USE DEF PlacesOK, RestoreReturns, Move, Forget
<1>1. CASE goal[p] = "launch"
  BY <1>1
<1>2. CASE goal[p] = "enable"
  BY <1>2
<1>3. CASE goal[p] = "close" /\ ~ok
  BY <1>3
<1>4. CASE goal[p] \notin {"launch", "enable"} /\ ~(goal[p] = "close" /\ ~ok)
  BY <1>4
<1> QED BY <1>1, <1>2, <1>3, <1>4

(***************************************************************************)
(* Every step keeps it.                                                    *)
(***************************************************************************)

\* A race and what went wrong stay on record.
LEMMA Recorded ==
    ASSUME NEW p \in Procs, ProcStep(p)
    PROVE  /\ raced' = raced /\ revived' = revived
           /\ mishap = "unwritten" => mishap' = "unwritten"
           /\ mishap' = "none" => mishap = "none"
<1> USE DEF historyVars, Mishap
<1>1. CASE Launch(p) \/ RemoveState(p) \/ WriteState(p)
  BY <1>1 DEF Launch, RemoveState, WriteState
<1>2. CASE RemoveStateFails(p) \/ ApplyFails(p) \/ Crash(p)
  BY <1>2 DEF RemoveStateFails, ApplyFails, Crash
<1>3. CASE ReadStateFile(p) \/ ReadStateFails(p) \/ CheckOwned(p) \/ CheckNotOwned(p)
           \/ CheckFails(p)
  BY <1>3 DEF ReadStateFile, ReadStateFails, CheckOwned, CheckNotOwned, CheckFails
<1>4. CASE ApplyWrites(p) \/ BroadcastFails(p) \/ Enable(p) \/ EnableFails(p)
  BY <1>4 DEF ApplyWrites, BroadcastFails, Enable, EnableFails
<1>5. CASE \E listen \in Listens : TakeSnapshot(p, listen)
  BY <1>5 DEF TakeSnapshot
<1>6. CASE VerifyOwned(p) \/ VerifyRejected(p) \/ Close(p) \/ Quit(p)
  BY <1>6 DEF VerifyOwned, VerifyRejected, Close, Quit
<1> QED BY <1>1, <1>2, <1>3, <1>4, <1>5, <1>6 DEF ProcStep

LEMMA StaysDisturbed ==
    ASSUME NEW p \in Procs, ProcStep(p), UNCHANGED platform, Undisturbed'
    PROVE  Undisturbed
BY Recorded DEF Undisturbed

LEMMA PlacesKept ==
    ASSUME PlacesOK, NEW p \in Procs, ProcStep(p), UNCHANGED platform
    PROVE  PlacesOK'
<1>1. ASSUME NEW ok \in BOOLEAN, RestoreReturns(p, ok)
      PROVE  DOMAIN at' = Procs /\ DOMAIN goal' = Procs /\ DOMAIN state' = Procs
  BY <1>1, Returns
<1>2. ASSUME NEW target, NEW i PROVE IsSnapshot(Written(target, i))
  BY DEF PlacesOK, IsSnapshot, Written, WrittenAtOnce, WrittenKey
<1>3. ASSUME ApplyReturnsError(p)
      PROVE  DOMAIN at' = Procs /\ DOMAIN goal' = Procs /\ DOMAIN state' = Procs
             /\ DOMAIN step' = Procs
  <2>1. CASE goal[p] = "set"
    BY <1>3, <2>1 DEF ApplyReturnsError, PlacesOK, StartApply, Move
  <2>2. CASE goal[p] = "rollback"
    BY <1>3, <2>2 DEF ApplyReturnsError, PlacesOK, Move
  <2>3. CASE goal[p] \notin {"set", "rollback"}
    BY <1>1, <1>3, <2>3 DEF ApplyReturnsError, PlacesOK
  <2> QED BY <2>1, <2>2, <2>3
<1> USE DEF PlacesOK, Move, StartApply, Forget, historyVars
<1>4. CASE Launch(p) \/ Enable(p) \/ Quit(p) \/ Close(p) \/ Crash(p)
  BY <1>4 DEF Launch, Enable, Quit, Close, Crash
<1>5. CASE ReadStateFile(p)
  BY <1>1, <1>5 DEF ReadStateFile
<1>6. CASE ReadStateFails(p) \/ CheckFails(p)
  BY <1>1, <1>6 DEF ReadStateFails, CheckFails
<1>7. CASE CheckOwned(p) \/ CheckNotOwned(p)
  BY <1>7 DEF CheckOwned, CheckNotOwned
<1>8. CASE RemoveState(p) \/ RemoveStateFails(p)
  BY <1>1, <1>8 DEF RemoveState, RemoveStateFails
<1>9. CASE ApplyWrites(p)
  BY <1>2, <1>9 DEF ApplyWrites
<1>10. CASE ApplyFails(p)
  BY <1>3, <1>10 DEF ApplyFails
<1>11. CASE BroadcastFails(p)
  BY <1>3, <1>11 DEF BroadcastFails, WrittenAtOnce, IsSnapshot
<1>12. CASE EnableFails(p) \/ WriteState(p) \/ VerifyOwned(p) \/ VerifyRejected(p)
  BY <1>12 DEF EnableFails, WriteState, VerifyOwned, VerifyRejected
<1>13. CASE \E listen \in Listens : TakeSnapshot(p, listen)
  BY <1>13 DEF TakeSnapshot
<1> QED BY <1>4, <1>5, <1>6, <1>7, <1>8, <1>9, <1>10, <1>11, <1>12, <1>13 DEF ProcStep

\* A step that leaves desktop and file alone has only the place to keep.
LEMMA OnlyThePlace ==
    ASSUME OneProcess, Remembered, NEW p \in Procs,
           UNCHANGED <<platform, desktop, stateFile>>, PlaceOf(p)'
    PROVE  Remembered'
BY DEF OneProcess, Remembered, Recoverable

\* Where a restoration that failed returns to, nothing is promised but, for the
\* second attempt, the file.
LEMMA FailureKeepsPlace ==
    ASSUME PlacesOK, NEW p \in Procs, RestoreReturns(p, FALSE), UNCHANGED stateFile,
           goal[p] = "close" => stateFile = {state[p]}
    PROVE  PlaceOf(p)'
<1>1. at'[p] \in {"Down", "Idle", "Check"}
  BY Returns
<1>2. at'[p] = "Check" => goal'[p] = "drop" /\ UNCHANGED state /\ goal[p] = "close"
  BY DEF RestoreReturns, Move, Forget, PlacesOK
<1> QED BY <1>1, <1>2 DEF PlaceOf, Restoring

\* apply() returns an error, with the desktop as it was or as WinInet has it.
LEMMA ErrorKeepsPlace ==
    ASSUME PlacesOK, Remembered, NEW p \in Procs, at[p] = "Apply", ApplyReturnsError(p),
           platform \in DOMAIN UserSettings, UNCHANGED platform,
           goal[p] = "set" /\ platform # "WinInet" => Clean(platform, desktop)',
           goal[p] = "rollback" => Clean(platform, desktop)'
    PROVE  PlaceOf(p)'
<1>1. stateFile = {state[p]} /\ goal[p] \in Restoring \cup {"set", "rollback"}
  BY DEF Remembered, PlaceOf, Applying
<1>2. CASE goal[p] = "set"
  <2>1. at'[p] = "Apply" /\ goal'[p] = "rollback" /\ step'[p] = 1 /\ UNCHANGED <<state, stateFile>>
    BY <1>2 DEF ApplyReturnsError, StartApply, Move, PlacesOK
  <2>2. 1 \in 1..Writes'
    BY DEF Writes, WriteOrder
  <2>3. Applying(p)'
    BY <1>2, <2>1, <2>2 DEF Applying
  <2> QED BY <1>1, <2>1, <2>3 DEF PlaceOf
<1>3. CASE goal[p] = "rollback"
  <2>1. at'[p] = "Remove" /\ goal'[p] = "rollback" /\ UNCHANGED <<state, stateFile>>
    BY <1>3 DEF ApplyReturnsError, Move, PlacesOK
  <2> QED BY <1>1, <1>3, <2>1 DEF PlaceOf
<1>4. CASE goal[p] \notin {"set", "rollback"}
  <2>1. RestoreReturns(p, FALSE) /\ UNCHANGED stateFile
    BY <1>4 DEF ApplyReturnsError
  <2> QED BY <1>1, <2>1, FailureKeepsPlace
<1> QED BY <1>2, <1>3, <1>4

\* A write of the settings themselves, and where it leads.
LEMMA WriteKeeps ==
    ASSUME OneProcess, OthersChoose, PlacesOK, Remembered,
           NEW p \in Procs, ApplyWrites(p), UNCHANGED platform
    PROVE  Remembered'
<1> DEFINE i == step[p]
           t == Target(p)
<1>1. /\ at[p] = "Apply" /\ stateFile = {state[p]} /\ Applying(p)
      /\ Clean(platform, state[p].original)
      /\ \E listen \in Listens : state[p].expected = LocalProxy(listen)
  BY DEF ApplyWrites, Remembered, PlaceOf, Remembers
<1>2. UNCHANGED <<stateFile, state>> /\ desktop' = Written(t, i)
  BY DEF ApplyWrites
<1>3. /\ goal[p] = "set" => t = state[p].expected
      /\ goal[p] # "set" => t = state[p].original
  BY DEF Target
<1>4. i < Writes => at'[p] = "Apply" /\ goal'[p] = goal[p] /\ step'[p] = i + 1
  BY <1>1 DEF ApplyWrites, PlacesOK
<1>5. i = Writes => goal'[p] = goal[p]
                    /\ at'[p] = IF goal[p] = "set" THEN "Verify" ELSE "Remove"
  BY DEF ApplyWrites, Move, PlacesOK, Writes, WriteOrder
<1>6. ASSUME i = Writes,
             goal[p] # "set" => Clean(platform, desktop'),
             goal[p] = "set" => IsOwned(platform, desktop', state[p].expected)
      PROVE  Remembered'
  <2>1. Recoverable'
    BY <1>1, <1>2, <1>6 DEF Recoverable
  <2>2. PlaceOf(p)'
    BY <1>1, <1>2, <1>5, <1>6 DEF PlaceOf, Applying
  <2> QED BY <1>2, <2>1, <2>2 DEF OneProcess, Remembered
<1>7. CASE platform = "WinInet"
  <2>1. i = Writes /\ desktop' = WrittenAtOnce(t)
    BY <1>1, <1>2, <1>7 DEF Applying, Writes, Written
  <2>2. goal[p] # "set" => Clean(platform, desktop')
    BY <1>1, <1>3, <2>1, WrittenClean
  <2>3. goal[p] = "set" => IsOwned(platform, desktop', state[p].expected)
    BY <1>1, <1>3, <2>1, WrittenLocal DEF OthersChoose
  <2> QED BY <1>6, <2>1, <2>2, <2>3
<1>8. CASE platform # "WinInet"
  <2>1. i \in 1..6 /\ Writes = 6 /\ desktop' = WrittenKey(t, i)
    BY <1>1, <1>2, <1>8 DEF Applying, Writes, WriteOrder, Written
  <2>2. /\ i = 1 => desktop'.mode = "none"
        /\ i \in 2..5 => desktop'.mode = desktop.mode
        /\ i = 6 => desktop'.mode = t.mode
        /\ desktop'.http = IF i = 2 THEN t.http ELSE desktop.http
        /\ desktop'.https = IF i = 3 THEN t.https ELSE desktop.https
        /\ desktop'.socks = IF i = 4 THEN t.socks ELSE desktop.socks
    BY <2>1, KeyWritten DEF PlacesOK
  <2>3. /\ i > 1 => desktop.mode = "none"
        /\ i > 2 => desktop.http = t.http
        /\ i > 3 => desktop.https = t.https
        /\ i > 4 => desktop.socks = t.socks
    BY <1>1 DEF Applying
  <2>4. CASE i < 6
    <3>1. desktop'.mode = "none"
      BY <2>1, <2>2, <2>3, <2>4
    <3>2. Clean(platform, desktop')
      BY <3>1, OffIsClean
    <3>3. Target(p)' = t
      BY <1>2, <1>4, <2>1, <2>4 DEF Target
    <3>4. /\ i + 1 > 2 => desktop'.http = t.http
          /\ i + 1 > 3 => desktop'.https = t.https
          /\ i + 1 > 4 => desktop'.socks = t.socks
      BY <2>1, <2>2, <2>3, <2>4
    <3>5. i + 1 \in 1..6 /\ Writes' = 6
      BY <1>8, <2>1, <2>4 DEF Writes, WriteOrder
    <3> HIDE DEF t
    <3>6. Applying(p)'
      BY <1>1, <1>4, <2>1, <2>4, <3>1, <3>2, <3>3, <3>4, <3>5 DEF Applying
    <3>7. PlaceOf(p)'
      BY <1>1, <1>2, <1>4, <2>1, <2>4, <3>6 DEF PlaceOf
    <3> QED BY <1>2, <3>2, <3>7 DEF OneProcess, Remembered, Recoverable
  <2>5. CASE i = 6
    <3>1. desktop'.mode = t.mode /\ desktop'.http = t.http
          /\ desktop'.https = t.https /\ desktop'.socks = t.socks
      BY <2>2, <2>3, <2>5
    <3>2. goal[p] # "set" => Clean(platform, desktop')
      BY <1>1, <1>3, <3>1, CleanAlike DEF Hosts
    <3>3. goal[p] = "set" => IsOwned(platform, desktop', state[p].expected)
      <4> SUFFICES ASSUME goal[p] = "set"
                   PROVE  IsOwned(platform, desktop', state[p].expected)
        OBVIOUS
      <4>1. PICK listen \in Listens : state[p].expected = LocalProxy(listen)
        BY <1>1
      <4>2. t.mode = "manual" /\ t.http = listen
        BY <1>3, <4>1 DEF LocalProxy
      <4> HIDE DEF t
      <4>3. IsOwned(platform, desktop', LocalProxy(listen))
        BY <1>8, <3>1, <4>2, OwnedByLocal DEF Hosts
      <4> QED BY <4>1, <4>3
    <3> QED BY <1>6, <2>1, <2>5, <3>2, <3>3
  <2> QED BY <2>1, <2>4, <2>5
<1> QED BY <1>7, <1>8

\* What a process remembers, for each step of its own.
LEMMA StepKeeps ==
    ASSUME OneProcess, OthersChoose, PlacesOK, Remembered,
           NEW p \in Procs, ProcStep(p), UNCHANGED platform, Undisturbed'
    PROVE  Remembered'
<1>1. /\ PlaceOf(p) /\ Recoverable
      /\ \A t \in stateFile : Remembers(platform, t)
  BY DEF Remembered
<1> USE DEF PlacesOK
<1>2. CASE Launch(p)
  <2>1. at'[p] = "Recover" /\ goal'[p] = "launch" /\ UNCHANGED <<desktop, stateFile>>
    BY <1>2 DEF Launch, Move
  <2>2. PlaceOf(p)'
    BY <2>1 DEF PlaceOf
  <2> QED BY <2>1, <2>2, OnlyThePlace
<1>3. CASE ReadStateFile(p)
  <2>1. CASE stateFile = {}
    <3>1. RestoreReturns(p, TRUE) /\ UNCHANGED <<desktop, stateFile>>
      BY <1>3, <2>1 DEF ReadStateFile
    <3>2. at'[p] \in {"Down", "Idle", "Snapshot"}
      BY <3>1, Returns
    <3>3. Clean(platform, desktop)'
      BY <1>1, <2>1, <3>1 DEF Recoverable
    <3>4. PlaceOf(p)'
      BY <3>2, <3>3 DEF PlaceOf
    <3> QED BY <3>1, <3>4, OnlyThePlace
  <2>2. CASE stateFile # {}
    <3> DEFINE read == CHOOSE t \in stateFile : TRUE
    <3>1. read \in stateFile
      BY <2>2
    <3>2. at'[p] = "Check" /\ goal'[p] = goal[p] /\ state'[p] = read
          /\ at[p] = "Recover" /\ UNCHANGED <<desktop, stateFile>>
      BY <1>3, <2>2 DEF ReadStateFile, Move
    <3>3. stateFile = {read}
      BY <3>1 DEF Remembered
    <3> HIDE DEF read
    <3>4. PlaceOf(p)'
      BY <1>1, <3>2, <3>3 DEF PlaceOf, Restoring
    <3> QED BY <3>2, <3>4, OnlyThePlace
  <2> QED BY <2>1, <2>2
<1>4. CASE ReadStateFails(p)
  <2>1. at[p] = "Recover" /\ RestoreReturns(p, FALSE) /\ UNCHANGED <<desktop, stateFile>>
    BY <1>4 DEF ReadStateFails
  <2>2. PlaceOf(p)'
    BY <1>1, <2>1, FailureKeepsPlace DEF PlaceOf
  <2> QED BY <2>1, <2>2, OnlyThePlace
<1>5. CASE CheckOwned(p)
  <2>1. /\ at[p] = "Check" /\ at'[p] = "Apply" /\ goal'[p] = goal[p] /\ step'[p] = 1
        /\ UNCHANGED <<desktop, stateFile, state>>
    BY <1>5 DEF CheckOwned, StartApply, Move
  <2>2. 1 \in 1..Writes'
    BY DEF Writes, WriteOrder
  <2>3. Applying(p)'
    BY <1>1, <2>1, <2>2 DEF Applying, PlaceOf, Restoring
  <2>4. PlaceOf(p)'
    BY <1>1, <2>1, <2>3 DEF PlaceOf
  <2> QED BY <2>1, <2>4, OnlyThePlace
<1>6. CASE CheckNotOwned(p)
  <2>1. /\ at[p] = "Check" /\ ~Owned(p) /\ at'[p] = "Remove" /\ goal'[p] = goal[p]
        /\ UNCHANGED <<desktop, stateFile, state>>
    BY <1>6 DEF CheckNotOwned, Move
  <2>2. Clean(platform, desktop)'
    BY <1>1, <2>1 DEF Recoverable, Owned, PlaceOf
  <2>3. PlaceOf(p)'
    BY <1>1, <2>1, <2>2 DEF PlaceOf
  <2> QED BY <2>1, <2>3, OnlyThePlace
<1>7. CASE CheckFails(p)
  <2>1. at[p] = "Check" /\ RestoreReturns(p, FALSE) /\ UNCHANGED <<desktop, stateFile>>
    BY <1>7 DEF CheckFails
  <2>2. PlaceOf(p)'
    BY <1>1, <2>1, FailureKeepsPlace DEF PlaceOf
  <2> QED BY <2>1, <2>2, OnlyThePlace
<1>8. CASE RemoveState(p)
  <2>1. at[p] = "Remove" /\ RestoreReturns(p, TRUE) /\ stateFile' = {} /\ UNCHANGED desktop
    BY <1>8 DEF RemoveState
  <2>2. at'[p] \in {"Down", "Idle", "Snapshot"}
    BY <2>1, Returns
  <2>3. Clean(platform, desktop)'
    BY <1>1, <2>1 DEF PlaceOf
  <2>4. PlaceOf(p)'
    BY <2>2, <2>3 DEF PlaceOf
  <2> QED BY <2>1, <2>3, <2>4 DEF OneProcess, Remembered, Recoverable
<1>9. CASE RemoveStateFails(p)
  <2>1. at[p] = "Remove" /\ RestoreReturns(p, FALSE) /\ UNCHANGED <<desktop, stateFile>>
    BY <1>9 DEF RemoveStateFails
  <2>2. PlaceOf(p)'
    BY <1>1, <2>1, FailureKeepsPlace DEF PlaceOf
  <2> QED BY <2>1, <2>2, OnlyThePlace
<1>10. CASE ApplyWrites(p)
  BY <1>10, WriteKeeps
<1>11. CASE ApplyFails(p)
  <2>1. /\ at[p] = "Apply" /\ ApplyReturnsError(p)
        /\ UNCHANGED <<desktop, stateFile>> /\ mishap' = "unwritten"
    BY <1>11 DEF ApplyFails, ApplyReturnsError, Mishap
  <2>2. platform # "WinInet"
    BY <2>1 DEF Undisturbed
  <2>3. Applying(p)
    BY <1>1, <2>1 DEF PlaceOf
  <2>4. goal[p] = "set" => Clean(platform, desktop)
    <3>1. CASE step[p] = 1
      BY <2>3, <3>1 DEF Applying
    <3>2. CASE step[p] # 1
      <4>1. desktop.mode = "none"
        BY <2>2, <2>3, <3>2 DEF Applying, Writes, WriteOrder
      <4> QED BY <4>1, OffIsClean
    <3> QED BY <3>1, <3>2
  <2>5. goal[p] = "rollback" => Clean(platform, desktop)
    BY <2>2, <2>3 DEF Applying
  <2>6. PlaceOf(p)'
    BY <2>1, <2>4, <2>5, ErrorKeepsPlace
  <2> QED BY <2>1, <2>6, OnlyThePlace
<1>12. CASE BroadcastFails(p)
  <2>1. /\ at[p] = "Apply" /\ ApplyReturnsError(p) /\ platform = "WinInet"
        /\ UNCHANGED stateFile /\ desktop' = WrittenAtOnce(Target(p))
    BY <1>12 DEF BroadcastFails, ApplyReturnsError
  <2>2. /\ stateFile = {state[p]} /\ Clean(platform, state[p].original)
        /\ \E listen \in Listens : state[p].expected = LocalProxy(listen)
    BY <1>1, <2>1 DEF PlaceOf, Remembers
  <2>3. goal[p] # "set" => Clean(platform, desktop')
    BY <2>1, <2>2, WrittenClean DEF Target
  <2>4. goal[p] = "set" => IsOwned(platform, desktop', state[p].expected)
    BY <2>1, <2>2, WrittenLocal DEF Target, OthersChoose
  <2>5. PlaceOf(p)'
    BY <2>1, <2>3, ErrorKeepsPlace
  <2>6. Recoverable'
    BY <2>1, <2>2, <2>3, <2>4 DEF Recoverable
  <2> QED BY <1>1, <2>1, <2>2, <2>5, <2>6 DEF OneProcess, Remembered
<1>13. CASE Enable(p)
  <2>1. at'[p] = "Recover" /\ goal'[p] = "enable" /\ UNCHANGED <<desktop, stateFile>>
    BY <1>13 DEF Enable, Move
  <2>2. PlaceOf(p)'
    BY <2>1 DEF PlaceOf
  <2> QED BY <2>1, <2>2, OnlyThePlace
<1>14. CASE EnableFails(p) \/ Quit(p) \/ Crash(p)
  <2>1. at'[p] \in {"Idle", "Down"} /\ UNCHANGED <<desktop, stateFile>>
    BY <1>14 DEF EnableFails, Quit, Crash, Move
  <2>2. PlaceOf(p)'
    BY <2>1 DEF PlaceOf
  <2> QED BY <2>1, <2>2, OnlyThePlace
<1>15. CASE \E listen \in Listens : TakeSnapshot(p, listen)
  <2>1. PICK listen \in Listens : TakeSnapshot(p, listen)
    BY <1>15
  <2>2. /\ at[p] = "Snapshot" /\ at'[p] = "WriteState"
        /\ state'[p] = RecoveryState(listen) /\ UNCHANGED <<desktop, stateFile>>
    BY <2>1 DEF TakeSnapshot, Move
  <2>3. Clean(platform, desktop)
    BY <1>1, <2>2 DEF PlaceOf
  <2>4. Remembers(platform, state'[p])
    BY <2>2, <2>3 DEF Remembers, RecoveryState
  <2>5. PlaceOf(p)'
    BY <2>2, <2>3, <2>4 DEF PlaceOf
  <2> QED BY <2>2, <2>5, OnlyThePlace
<1>16. CASE WriteState(p)
  <2>1. /\ at[p] = "WriteState" /\ at'[p] = "Apply" /\ goal'[p] = "set" /\ step'[p] = 1
        /\ stateFile' = {state[p]} /\ UNCHANGED <<desktop, state>>
    BY <1>16 DEF WriteState, StartApply, Move
  <2>2. Clean(platform, desktop) /\ Remembers(platform, state[p])
    BY <1>1, <2>1 DEF PlaceOf
  <2>3. 1 \in 1..Writes'
    BY DEF Writes, WriteOrder
  <2>4. Applying(p)'
    BY <2>1, <2>2, <2>3 DEF Applying
  <2>5. PlaceOf(p)'
    BY <2>1, <2>4 DEF PlaceOf
  <2> QED BY <2>1, <2>2, <2>5 DEF OneProcess, Remembered, Recoverable
<1>17. CASE VerifyOwned(p)
  <2>1. /\ at[p] = "Verify" /\ at'[p] = "Active"
        /\ UNCHANGED <<desktop, stateFile, state>>
    BY <1>17 DEF VerifyOwned, Move
  <2>2. PlaceOf(p)'
    BY <1>1, <2>1 DEF PlaceOf
  <2> QED BY <2>1, <2>2, OnlyThePlace
<1>18. CASE VerifyRejected(p)
  <2>1. /\ at[p] = "Verify" /\ ~Owned(p) /\ at'[p] = "Apply" /\ goal'[p] = "rollback"
        /\ step'[p] = 1 /\ UNCHANGED <<desktop, stateFile, state>>
    BY <1>18 DEF VerifyRejected, StartApply, Move
  <2>2. Clean(platform, desktop)
    BY <1>1, <2>1 DEF Recoverable, Owned, PlaceOf
  <2>3. 1 \in 1..Writes'
    BY DEF Writes, WriteOrder
  <2>4. Applying(p)'
    BY <2>1, <2>2, <2>3 DEF Applying
  <2>5. PlaceOf(p)'
    BY <1>1, <2>1, <2>4 DEF PlaceOf
  <2> QED BY <2>1, <2>5, OnlyThePlace
<1>19. CASE Close(p)
  <2>1. /\ at[p] = "Active" /\ at'[p] = "Check" /\ goal'[p] = "close"
        /\ UNCHANGED <<desktop, stateFile, state>>
    BY <1>19 DEF Close, Move
  <2>2. PlaceOf(p)'
    BY <1>1, <2>1 DEF PlaceOf, Restoring
  <2> QED BY <2>1, <2>2, OnlyThePlace
<1> QED BY <1>2, <1>3, <1>4, <1>5, <1>6, <1>7, <1>8, <1>9, <1>10, <1>11, <1>12,
           <1>13, <1>14, <1>15, <1>16, <1>17, <1>18, <1>19 DEF ProcStep

\* A change outside counts only while no operation is under way.  It leaves
\* settings that are clean, or that the recovery file knows: anything else is
\* Drosophila's proxy put in force by somebody else.
LEMMA ChangeKeeps ==
    ASSUME SysInv, NEW settings, NEW keys, ChangeOutside(settings, keys), UNCHANGED platform
    PROVE  SysInv'
<1>1. PlacesOK'
  BY DEF SysInv, PlacesOK, IsSnapshot, ChangeOutside
<1>2. ASSUME Undisturbed' PROVE Remembered'
  <2>1. Remembered /\ \A p \in Procs : AtRest(p)
    BY <1>2 DEF SysInv, Undisturbed, ChangeOutside
  <2>2. ASSUME NEW p \in Procs PROVE PlaceOf(p)'
    <3>1. at[p] \in {"Down", "Idle", "Active"} /\ PlaceOf(p)
      BY <2>1 DEF AtRest, Remembered
    <3> QED BY <3>1 DEF PlaceOf, ChangeOutside
  <2>3. Sensible(desktop') /\ (~PointsAtUs(desktop') \/ Known(desktop'))
    BY <1>2 DEF ChangeOutside, Undisturbed
  <2>4. Recoverable'
    <3>1. CASE ~PointsAtUs(desktop')
      BY <2>3, <3>1 DEF Recoverable, Clean, PointsAtUs
    <3>2. CASE Known(desktop')
      BY <3>2 DEF Recoverable, Known, ChangeOutside
    <3> QED BY <2>3, <3>1, <3>2
  <2> QED BY <2>1, <2>2, <2>4 DEF Remembered, ChangeOutside
<1> QED BY <1>1, <1>2 DEF SysInv

LEMMA SysInvHolds ==
    ASSUME OneProcess, OthersChoose
    PROVE  SysSpec => []SysInv
<1>1. SysInit => SysInv
  <2> SUFFICES ASSUME SysInit PROVE SysInv
    OBVIOUS
  <2>1. PlacesOK
    BY SystemProxyAssumption DEF SysInit, PlacesOK
  <2>2. Clean(platform, desktop)
    BY DEF SysInit, OthersChoose
  <2>3. \A p \in Procs : PlaceOf(p)
    BY DEF SysInit, PlaceOf
  <2> QED BY <2>1, <2>2, <2>3 DEF SysInit, SysInv, Remembered, Recoverable
<1>2. SysInv /\ [SysNext]_sysVars => SysInv'
  <2> SUFFICES ASSUME SysInv, [SysNext]_sysVars PROVE SysInv'
    OBVIOUS
  <2>1. ASSUME NEW p \in Procs, ProcStep(p), UNCHANGED platform PROVE SysInv'
    <3>1. PlacesOK'
      BY <2>1, PlacesKept DEF SysInv
    <3>2. Undisturbed' => Remembered'
      BY <2>1, StaysDisturbed, StepKeeps DEF SysInv
    <3> QED BY <3>1, <3>2 DEF SysInv
  <2>2. ASSUME NEW settings, NEW keys, ChangeOutside(settings, keys), UNCHANGED platform
        PROVE  SysInv'
    BY <2>2, ChangeKeeps
  <2>3. CASE UNCHANGED sysVars
    <3>1. UNCHANGED <<PlacesOK, Undisturbed, Recoverable>>
      BY <2>3 DEF sysVars, PlacesOK, Undisturbed, Recoverable
    <3>2. UNCHANGED <<platform, stateFile>>
      BY <2>3 DEF sysVars
    <3>3. \A p \in Procs : PlaceOf(p)' = PlaceOf(p)
      BY <2>3 DEF sysVars, PlaceOf, Applying, Target, Writes
    <3>4. Remembered => Remembered'
      BY <3>1, <3>2, <3>3 DEF Remembered
    <3> QED BY <3>1, <3>4 DEF SysInv
  <2> QED BY <2>1, <2>2, <2>3 DEF SysNext
<1> QED BY <1>1, <1>2, PTL DEF SysSpec

(***************************************************************************)
(* What it shows.                                                          *)
(***************************************************************************)

\* Whenever the desktop points at Drosophila's proxy, the recovery file is there
\* to undo it, whatever fails and wherever the process dies
\* (system_proxy.rs:44-56, 103-111).
THEOREM RecoveryPossibleHolds ==
    ASSUME OneProcess, OthersChoose
    PROVE  SysSpec => []RecoveryPossible
<1>1. SysInv => RecoveryPossible
  <2> SUFFICES ASSUME SysInv, Undisturbed,
                      PointsAtUs(desktop)
               PROVE  Known(desktop)
    BY DEF RecoveryPossible
  <2>1. ~Clean(platform, desktop)
    BY DEF Clean, PointsAtUs
  <2> QED BY <2>1 DEF SysInv, Remembered, Recoverable, Known
<1> QED BY <1>1, SysInvHolds, PTL

\* What Drosophila remembers as the settings to go back to is never its own proxy
\* (system_proxy.rs:35-38).
THEOREM NeverRemembersItselfHolds ==
    ASSUME OneProcess, OthersChoose
    PROVE  SysSpec => []NeverRemembersItself
<1>1. SysInv => NeverRemembersItself
  <2> SUFFICES ASSUME SysInv, Undisturbed, NEW t \in stateFile
               PROVE  ~PointsAtUs(t.original)
    BY DEF NeverRemembersItself
  <2>1. Clean(platform, t.original)
    BY DEF SysInv, Remembered, Remembers
  <2> QED BY <2>1 DEF Clean, PointsAtUs
<1> QED BY <1>1, SysInvHolds, PTL

(***************************************************************************)
(* What is to be in force afterwards.                                      *)
(***************************************************************************)

\* Nothing went wrong that the settings may not survive.
Quiet == ~raced /\ ~revived /\ mishap = "none"

Owning == Known(desktop)

\* What is to be in force afterwards is remembered while is_owned takes the settings
\* for Drosophila's, and is in force otherwise.
Settled ==
    IF Owning THEN \A t \in stateFile : Honours(t.original, chosen)
              ELSE Honours(desktop, chosen)

\* In the middle of an operation one or the other is known from the place.
ChoiceOf(p) ==
    /\ at[p] \notin {"Snapshot", "WriteState", "Apply", "Remove"} => Settled
    /\ at[p] \in {"Snapshot", "WriteState", "Remove"} => Honours(desktop, chosen)
    /\ at[p] \in {"WriteState", "Apply", "Verify"} => Honours(state[p].original, chosen)
    /\ at[p] = "Apply" /\ step[p] > 5 => desktop.rest = Target(p).rest
    /\ at[p] \in {"Down", "Idle"} /\ goal[p] # "failed" => stateFile = {}

ChoiceKept ==
    /\ (\A p \in Procs : AtRest(p)) => Settled
    /\ \A p \in Procs : ChoiceOf(p)

\* Clean settings that are what is to be in force are settled.
LEMMA CleanIsSettled ==
    ASSUME Clean(platform, desktop), \A t \in stateFile : Remembers(platform, t), Honours(desktop, chosen)
    PROVE  Settled
<1>1. ~Owning
  BY CleanNotOwned DEF Owning, Known, Remembers
<1> QED BY <1>1 DEF Settled

\* What WinInet leaves of earlier settings, the user had not set.
LEMMA WrittenHonours ==
    ASSUME NEW target, NEW choice, Honours(target, choice)
    PROVE  Honours(WrittenAtOnce(target), choice)
<1>1. ASSUME NEW key \in Key
      PROVE  choice[key] \in {WrittenAtOnce(target)[key], "absent"}
  <2>1. choice[key] \in {target[key], "absent"}
    BY DEF Honours
  <2>2. WrittenAtOnce(target)[key] = IF target[key] = "absent" THEN desktop[key]
                                                             ELSE target[key]
    BY DEF WrittenAtOnce
  <2> QED BY <2>1, <2>2
<1> QED BY <1>1 DEF Honours

LEMMA HonoursAlike ==
    ASSUME NEW t, NEW choice, Honours(t, choice), NEW u, u.mode = t.mode, u.http = t.http,
           u.https = t.https, u.socks = t.socks, u.rest = t.rest
    PROVE  Honours(u, choice)
BY DEF Honours, Key, Hosts

\* A restoration that returns with the settings settled.
LEMMA ReturnsSettled ==
    ASSUME PlacesOK, NEW p \in Procs, NEW ok \in BOOLEAN, RestoreReturns(p, ok),
           Settled', ok => Honours(desktop, chosen)' /\ stateFile' = {}
    PROVE  ChoiceOf(p)'
<1>1. /\ at'[p] \in {"Down", "Idle", "Snapshot", "Check"}
      /\ at'[p] = "Snapshot" => ok
  BY Returns
<1>2. at'[p] \in {"Down", "Idle"} /\ goal'[p] # "failed" => ok
  <2> USE DEF RestoreReturns, Move, Ending, PlacesOK
  <2>1. CASE goal[p] = "launch"
    BY <2>1
  <2>2. CASE goal[p] = "enable"
    BY <2>2
  <2>3. CASE goal[p] = "close" /\ ~ok
    BY <2>3
  <2>4. CASE goal[p] \notin {"launch", "enable"} /\ ~(goal[p] = "close" /\ ~ok)
    BY <2>4
  <2> QED BY <2>1, <2>2, <2>3, <2>4
<1> QED BY <1>1, <1>2 DEF ChoiceOf

\* The last write puts the choice back, or Drosophila's settings in its place.
LEMMA WriteKeepsChoice ==
    ASSUME OneProcess, OthersChoose, PlacesOK, Remembered, Remembered', ChoiceKept,
           NEW p \in Procs, ApplyWrites(p), UNCHANGED platform
    PROVE  ChoiceOf(p)'
<1> DEFINE i == step[p]
           t == Target(p)
<1>1. /\ at[p] = "Apply" /\ stateFile = {state[p]} /\ Applying(p)
      /\ Honours(state[p].original, chosen)
      /\ i > 5 => desktop.rest = t.rest
  BY DEF ApplyWrites, Remembered, PlaceOf, ChoiceKept, ChoiceOf
<1>2. UNCHANGED <<stateFile, state, chosen>> /\ desktop' = Written(t, i)
  BY DEF ApplyWrites, historyVars
<1>3. goal[p] # "set" => t = state[p].original
  BY DEF Target
<1>4. i < Writes => at'[p] = "Apply" /\ goal'[p] = goal[p] /\ step'[p] = i + 1
  BY <1>1 DEF ApplyWrites, PlacesOK
<1>5. i = Writes => at'[p] = IF goal[p] = "set" THEN "Verify" ELSE "Remove"
  BY DEF ApplyWrites, Move, PlacesOK, Writes, WriteOrder
<1>6. ASSUME i = Writes, goal[p] # "set" => Honours(desktop', chosen),
             goal[p] = "set" => Owning'
      PROVE  ChoiceOf(p)'
  BY <1>1, <1>2, <1>5, <1>6 DEF ChoiceOf, Settled
<1>7. CASE platform = "WinInet"
  <2>1. i = Writes /\ desktop' = WrittenAtOnce(t)
    BY <1>1, <1>2, <1>7 DEF Applying, Writes, Written
  <2>2. goal[p] # "set" => Honours(desktop', chosen)
    BY <1>1, <1>3, <2>1, WrittenHonours
  <2>3. goal[p] = "set" => Owning'
    <3>1. \E listen \in Listens : state[p].expected = LocalProxy(listen)
      BY <1>1 DEF Remembered, Remembers
    <3>2. goal[p] = "set" => IsOwned(platform, desktop', state[p].expected)
      BY <2>1, <3>1, WrittenLocal DEF OthersChoose, Target
    <3> QED BY <1>1, <1>2, <3>2 DEF Owning, Known
  <2> QED BY <1>6, <2>1, <2>2, <2>3
<1>8. CASE platform # "WinInet"
  <2>1. i \in 1..6 /\ Writes = 6 /\ desktop' = WrittenKey(t, i)
    BY <1>1, <1>2, <1>8 DEF Applying, Writes, WriteOrder, Written
  <2>2. /\ i = 6 => desktop'.mode = t.mode
        /\ desktop'.http = IF i = 2 THEN t.http ELSE desktop.http
        /\ desktop'.https = IF i = 3 THEN t.https ELSE desktop.https
        /\ desktop'.socks = IF i = 4 THEN t.socks ELSE desktop.socks
        /\ desktop'.rest = IF i = 5 THEN t.rest ELSE desktop.rest
    BY <2>1, KeyWritten DEF PlacesOK
  <2>3. CASE i < 6
    <3>1. Target(p)' = t
      BY <1>2, <1>4, <2>1, <2>3 DEF Target
    <3>2. i + 1 > 5 => desktop'.rest = t.rest
      BY <2>1, <2>2, <2>3
    <3> HIDE DEF t
    <3> QED BY <1>1, <1>2, <1>4, <2>1, <2>3, <3>1, <3>2 DEF ChoiceOf
  <2>4. CASE i = 6
    <3>1. /\ desktop'.mode = t.mode /\ desktop'.http = t.http
          /\ desktop'.https = t.https /\ desktop'.socks = t.socks
          /\ desktop'.rest = t.rest
      BY <1>1, <2>2, <2>4 DEF Applying
    <3>2. goal[p] # "set" => Honours(desktop', chosen)
      BY <1>1, <1>3, <3>1, HonoursAlike
    <3>3. goal[p] = "set" => Owning'
      <4> SUFFICES ASSUME goal[p] = "set" PROVE Owning'
        OBVIOUS
      <4>1. PICK listen \in Listens : state[p].expected = LocalProxy(listen)
        BY <1>1 DEF Remembered, Remembers
      <4>2. t.mode = "manual" /\ t.http = listen
        BY <4>1 DEF LocalProxy, Target
      <4> HIDE DEF t
      <4>3. IsOwned(platform, desktop', LocalProxy(listen))
        BY <1>8, <3>1, <4>2, OwnedByLocal DEF Hosts
      <4> QED BY <1>1, <1>2, <4>1, <4>3 DEF Owning, Known
    <3> QED BY <1>6, <2>1, <2>4, <3>2, <3>3
  <2> QED BY <2>1, <2>3, <2>4
<1> QED BY <1>7, <1>8

\* As long as nothing goes wrong, every step of a process keeps the choice.
LEMMA StepKeepsChoice ==
    ASSUME OneProcess, OthersChoose, PlacesOK, Remembered, Remembered', ChoiceKept,
           NEW p \in Procs, ProcStep(p), UNCHANGED platform, Quiet'
    PROVE  ChoiceOf(p)'
<1>1. PlaceOf(p) /\ ChoiceOf(p)
  BY DEF Remembered, ChoiceKept
<1>2. Clean(platform, desktop) /\ Honours(desktop, chosen) => Settled
  BY CleanIsSettled DEF Remembered
<1>3. /\ RemoveStateFails(p) \/ ApplyFails(p) \/ Crash(p) => FALSE
  BY DEF Quiet, RemoveStateFails, ApplyFails, Crash, Mishap
<1> USE DEF PlacesOK, historyVars
<1>4. CASE Launch(p) \/ Enable(p)
  <2>1. /\ at[p] \in {"Down", "Idle"} /\ at'[p] = "Recover"
        /\ UNCHANGED <<desktop, stateFile, chosen>>
    BY <1>4 DEF Launch, Enable, Move
  <2> QED BY <1>1, <2>1 DEF ChoiceOf, Settled, Owning, Known
<1>5. CASE ReadStateFile(p)
  <2>1. at[p] = "Recover" /\ Settled /\ UNCHANGED <<desktop, stateFile, chosen>>
    BY <1>1, <1>5 DEF ReadStateFile, ChoiceOf
  <2>2. Settled'
    BY <2>1 DEF Settled, Owning, Known
  <2>3. CASE stateFile = {}
    <3>1. RestoreReturns(p, TRUE) /\ stateFile' = {}
      BY <1>5, <2>3 DEF ReadStateFile
    <3>2. Honours(desktop, chosen)'
      BY <2>1, <2>3 DEF Settled, Owning, Known
    <3> QED BY <2>2, <3>1, <3>2, ReturnsSettled
  <2>4. CASE stateFile # {}
    <3>1. at'[p] = "Check"
      BY <1>5, <2>4 DEF ReadStateFile, Move
    <3> QED BY <2>2, <3>1 DEF ChoiceOf
  <2> QED BY <2>3, <2>4
<1>6. CASE ReadStateFails(p) \/ CheckFails(p)
  <2>1. /\ at[p] \in {"Recover", "Check"} /\ RestoreReturns(p, FALSE)
        /\ UNCHANGED <<desktop, stateFile, chosen>>
    BY <1>6 DEF ReadStateFails, CheckFails
  <2>2. Settled'
    BY <1>1, <2>1 DEF ChoiceOf, Settled, Owning, Known
  <2> QED BY <2>1, <2>2, ReturnsSettled
<1>7. CASE CheckOwned(p)
  <2>1. /\ at[p] = "Check" /\ Owned(p) /\ at'[p] = "Apply" /\ step'[p] = 1
        /\ UNCHANGED <<desktop, stateFile, state, chosen>>
    BY <1>7 DEF CheckOwned, StartApply, Move
  <2>2. Settled /\ Owning /\ stateFile = {state[p]}
    BY <1>1, <2>1 DEF ChoiceOf, PlaceOf, Owned, Owning, Known
  <2> QED BY <2>1, <2>2 DEF ChoiceOf, Settled
<1>8. CASE CheckNotOwned(p)
  <2>1. /\ at[p] = "Check" /\ ~Owned(p) /\ at'[p] = "Remove"
        /\ UNCHANGED <<desktop, chosen>>
    BY <1>8 DEF CheckNotOwned, Move
  <2>2. Settled /\ ~Owning
    BY <1>1, <2>1 DEF ChoiceOf, PlaceOf, Owned, Owning, Known
  <2> QED BY <2>1, <2>2 DEF ChoiceOf, Settled
<1>9. CASE RemoveState(p)
  <2>1. at[p] = "Remove" /\ RestoreReturns(p, TRUE) /\ stateFile' = {}
        /\ UNCHANGED <<desktop, chosen>>
    BY <1>9 DEF RemoveState
  <2>2. Honours(desktop, chosen)' /\ Settled'
    BY <1>1, <2>1 DEF ChoiceOf, Settled, Owning, Known
  <2> QED BY <2>1, <2>2, ReturnsSettled
<1>10. CASE ApplyWrites(p)
  BY <1>10, WriteKeepsChoice
<1>11. CASE BroadcastFails(p)
  <2>1. /\ at[p] = "Apply" /\ ApplyReturnsError(p)
        /\ UNCHANGED <<stateFile, chosen>> /\ desktop' = WrittenAtOnce(Target(p))
    BY <1>11 DEF BroadcastFails, ApplyReturnsError
  <2>2. Honours(state[p].original, chosen)
    BY <1>1, <2>1 DEF ChoiceOf
  <2>3. goal[p] # "set" => Honours(desktop, chosen)'
    BY <2>1, <2>2, WrittenHonours DEF Target
  <2>4. CASE goal[p] = "set"
    <3>1. at'[p] = "Apply" /\ step'[p] = 1 /\ UNCHANGED state
      BY <2>1, <2>4 DEF ApplyReturnsError, StartApply, Move
    <3> QED BY <2>1, <2>2, <3>1 DEF ChoiceOf
  <2>5. CASE goal[p] = "rollback"
    <3>1. at'[p] = "Remove"
      BY <2>1, <2>5 DEF ApplyReturnsError, Move
    <3> QED BY <2>3, <2>5, <3>1 DEF ChoiceOf
  <2>6. CASE goal[p] \notin {"set", "rollback"}
    <3>1. RestoreReturns(p, FALSE)
      BY <2>1, <2>6 DEF ApplyReturnsError
    <3>2. stateFile = {state[p]} /\ Clean(platform, state[p].original)
      BY <1>1, <2>1 DEF PlaceOf, Remembered, Remembers
    <3>3. Clean(platform, desktop')
      BY <2>1, <2>6, <3>2, WrittenClean DEF Target
    <3>4. \A t \in stateFile' : Remembers(platform, t)
      BY DEF Remembered
    <3>5. Settled'
      BY <2>3, <2>6, <3>3, <3>4, CleanNotOwned DEF Settled, Owning, Known, Remembers
    <3> QED BY <3>1, <3>5, ReturnsSettled
  <2> QED BY <2>4, <2>5, <2>6
<1>12. CASE EnableFails(p)
  <2>1. /\ at[p] \in {"Snapshot", "WriteState", "Verify"} /\ at'[p] = "Idle"
        /\ goal'[p] = "failed" /\ UNCHANGED <<desktop, stateFile, chosen>>
    BY <1>12 DEF EnableFails, Move
  <2>2. Settled
    BY <1>1, <1>2, <2>1 DEF ChoiceOf, PlaceOf
  <2> QED BY <2>1, <2>2 DEF ChoiceOf, Settled, Owning, Known
<1>13. CASE \E listen \in Listens : TakeSnapshot(p, listen)
  <2>1. PICK listen \in Listens : TakeSnapshot(p, listen)
    BY <1>13
  <2>2. /\ at[p] = "Snapshot" /\ at'[p] = "WriteState"
        /\ state'[p] = RecoveryState(listen) /\ UNCHANGED <<desktop, chosen>>
    BY <2>1 DEF TakeSnapshot, Move
  <2>3. state'[p].original = desktop
    BY <2>2 DEF RecoveryState
  <2> QED BY <1>1, <2>2, <2>3 DEF ChoiceOf
<1>14. CASE WriteState(p)
  <2>1. /\ at[p] = "WriteState" /\ at'[p] = "Apply" /\ step'[p] = 1
        /\ UNCHANGED <<state, chosen>>
    BY <1>14 DEF WriteState, StartApply, Move
  <2> QED BY <1>1, <2>1 DEF ChoiceOf
<1>15. CASE VerifyOwned(p) \/ Close(p)
  <2>1. /\ at[p] \in {"Verify", "Active"} /\ at'[p] \in {"Active", "Check"}
        /\ UNCHANGED <<desktop, stateFile, chosen>>
    BY <1>15 DEF VerifyOwned, Close, Move
  <2> QED BY <1>1, <2>1 DEF ChoiceOf, Settled, Owning, Known
<1>16. CASE VerifyRejected(p)
  <2>1. /\ at[p] = "Verify" /\ at'[p] = "Apply" /\ step'[p] = 1
        /\ UNCHANGED <<state, chosen>>
    BY <1>16 DEF VerifyRejected, StartApply, Move
  <2> QED BY <1>1, <2>1 DEF ChoiceOf
<1>17. CASE Quit(p)
  <2>1. /\ at[p] = "Idle" /\ at'[p] = "Down" /\ goal'[p] = goal[p]
        /\ UNCHANGED <<desktop, stateFile, chosen>>
    BY <1>17 DEF Quit, Move
  <2> QED BY <1>1, <2>1 DEF ChoiceOf, Settled, Owning, Known
<1> QED BY <1>3, <1>4, <1>5, <1>6, <1>7, <1>8, <1>9, <1>10, <1>11, <1>12, <1>13,
           <1>14, <1>15, <1>16, <1>17 DEF ProcStep

ChoiceInv == Quiet => ChoiceKept

LEMMA ChoiceInvHolds ==
    ASSUME OneProcess, OthersChoose
    PROVE  SysSpec => []ChoiceInv
<1>1. SysInit => ChoiceInv
  <2> SUFFICES ASSUME SysInit PROVE ChoiceKept
    BY DEF ChoiceInv
  <2>1. Honours(desktop, chosen) /\ stateFile = {}
    BY DEF SysInit, Honours
  <2>2. Settled
    BY <2>1 DEF Settled, Owning, Known
  <2>3. \A p \in Procs : at[p] = "Down"
    BY DEF SysInit
  <2> QED BY <2>1, <2>2, <2>3 DEF ChoiceKept, ChoiceOf
<1>2. SysInv /\ SysInv' /\ ChoiceInv /\ [SysNext]_sysVars => ChoiceInv'
  <2> SUFFICES ASSUME SysInv, SysInv', ChoiceInv, [SysNext]_sysVars, Quiet'
               PROVE  ChoiceKept'
    BY DEF ChoiceInv
  <2> USE DEF SysInv, ChoiceInv
  <2>1. Remembered'
    BY DEF Quiet, Undisturbed
  <2>2. ASSUME NEW p \in Procs, ProcStep(p), UNCHANGED platform PROVE ChoiceKept'
    <3>1. Quiet /\ Remembered
      BY <2>2, Recorded DEF Quiet, Undisturbed
    <3>2. ChoiceOf(p)'
      BY <2>1, <2>2, <3>1, StepKeepsChoice
    <3> QED BY <3>2 DEF OneProcess, ChoiceKept, ChoiceOf, AtRest
  <2>3. ASSUME NEW settings, NEW keys, ChangeOutside(settings, keys), UNCHANGED platform
        PROVE  ChoiceKept'
    <3>1. ChoiceKept /\ Remembered /\ UNCHANGED <<at, goal, stateFile>>
      BY <2>3 DEF Quiet, Undisturbed, ChangeOutside
    <3>2. Settled'
      <4>1. CASE Known(desktop')
        <5>1. \A t \in stateFile : chosen' = t.original
          BY <2>3, <3>1, <4>1 DEF ChangeOutside, Remembered
        <5> QED BY <2>3, <3>1, <4>1, <5>1 DEF Settled, Owning, Known, Honours
      <4>2. CASE ~Known(desktop')
        <5>1. chosen' = desktop'
          BY <2>3, <4>2 DEF ChangeOutside
        <5> QED BY <2>3, <3>1, <4>2, <5>1 DEF Settled, Owning, Known, Honours
      <4> QED BY <4>1, <4>2
    <3>3. \A p \in Procs : at'[p] \in {"Down", "Idle", "Active"}
      BY <2>3 DEF ChangeOutside, AtRest, Quiet
    <3> QED BY <3>1, <3>2, <3>3 DEF ChoiceKept, ChoiceOf
  <2>4. CASE UNCHANGED sysVars
    <3>1. ChoiceKept
      BY <2>4 DEF sysVars, Quiet
    <3>2. UNCHANGED Settled
      BY <2>4 DEF sysVars, Settled, Owning, Known
    <3>3. \A p \in Procs : AtRest(p)' = AtRest(p) /\ ChoiceOf(p)' = ChoiceOf(p)
      BY <2>4, <3>2 DEF sysVars, AtRest, ChoiceOf, Target
    <3> QED BY <3>1, <3>2, <3>3 DEF ChoiceKept
  <2> QED BY <2>2, <2>3, <2>4 DEF SysNext
<1> QED BY <1>1, <1>2, SysInvHolds, PTL DEF SysSpec

\* What is to be in force afterwards is in force or remembered whenever no
\* operation is under way (system_proxy.rs:35-76, 94-131): the settings last chosen
\* outside, or those of before if is_owned still took the last edit, of one host or
\* of the bypass list, for Drosophila's settings (system_proxy.rs:245-251, 387-391).
\* Such an edit itself is overwritten.
THEOREM SettingsNeverLostHolds ==
    ASSUME OneProcess, OthersChoose
    PROVE  SysSpec => []SettingsNeverLost
<1>1. ChoiceInv => SettingsNeverLost
  <2> SUFFICES ASSUME ChoiceInv, \A p \in Procs : AtRest(p), Quiet
               PROVE  \/ Honours(desktop, chosen)
                      \/ \E t \in stateFile : Honours(t.original, chosen)
    BY DEF SettingsNeverLost, Quiet
  <2>1. Settled
    BY DEF ChoiceInv, ChoiceKept
  <2> QED BY <2>1 DEF Settled, Owning, Known
<1> QED BY <1>1, ChoiceInvHolds, PTL

\* ... and in force whenever no proxy is enabled and the last operation succeeded:
\* the settings of before enabling, or the edited ones if is_owned no longer took
\* them for Drosophila's.
THEOREM SettingsRestoredHolds ==
    ASSUME OneProcess, OthersChoose, Procs # {}
    PROVE  SysSpec => []SettingsRestored
<1>1. ChoiceInv => SettingsRestored
  <2> SUFFICES ASSUME ChoiceInv, Quiet,
                      \A p \in Procs : at[p] \in {"Down", "Idle"} /\ goal[p] # "failed"
               PROVE  Honours(desktop, chosen)
    BY DEF SettingsRestored, Quiet
  <2>1. stateFile = {} /\ Settled
    BY DEF ChoiceInv, ChoiceKept, ChoiceOf
  <2> QED BY <2>1 DEF Settled, Owning, Known
<1> QED BY <1>1, ChoiceInvHolds, PTL

(***************************************************************************)
(* Types, for any number of processes.                                     *)
(***************************************************************************)

Shaped(s) == IsSnapshot(s.original) /\ IsSnapshot(s.expected)

ProcTypes ==
    /\ at \in [Procs -> At]
    /\ goal \in [Procs -> Goal]
    /\ step \in [Procs -> 1..Writes]
    /\ DOMAIN state = Procs
    /\ \A p \in Procs : Shaped(state[p])

DeskTypes ==
    /\ platform \in DOMAIN UserSettings
    /\ IsSnapshot(desktop)
    /\ stateFile = {} \/ \E t : stateFile = {t} /\ Shaped(t)
    /\ foreign \in BOOLEAN /\ raced \in BOOLEAN /\ revived \in BOOLEAN
    /\ mishap \in {"none", "crash", "unwritten"}

SysTypes == DeskTypes /\ ProcTypes

LEMMA ReturnsTyped ==
    ASSUME ProcTypes, NEW p \in Procs, NEW ok \in BOOLEAN, RestoreReturns(p, ok)
    PROVE  /\ at' \in [Procs -> At] /\ goal' \in [Procs -> Goal]
           /\ DOMAIN state' = Procs /\ \A q \in Procs : Shaped(state'[q])
<1> USE DEF ProcTypes, RestoreReturns, Move, Forget, Ending, At, Goal
<1>1. Shaped(NoState)
  BY DEF Shaped, NoState, IsSnapshot
<1>2. CASE goal[p] = "launch"
  BY <1>1, <1>2
<1>3. CASE goal[p] = "enable"
  BY <1>1, <1>3
<1>4. CASE goal[p] = "close" /\ ~ok
  BY <1>4
<1>5. CASE goal[p] \notin {"launch", "enable"} /\ ~(goal[p] = "close" /\ ~ok)
  BY <1>1, <1>5
<1> QED BY <1>2, <1>3, <1>4, <1>5

LEMMA ErrorTyped ==
    ASSUME ProcTypes, NEW p \in Procs, ApplyReturnsError(p), UNCHANGED platform
    PROVE  ProcTypes' /\ UNCHANGED stateFile
<1>1. 1 \in 1..Writes' /\ Writes' = Writes
  BY DEF Writes, WriteOrder
<1> USE DEF ApplyReturnsError, StartApply, Move, At, Goal
<1>2. CASE goal[p] = "set"
  BY <1>1, <1>2 DEF ProcTypes
<1>3. CASE goal[p] = "rollback"
  BY <1>1, <1>3 DEF ProcTypes
<1>4. CASE goal[p] \notin {"set", "rollback"}
  <2>1. /\ RestoreReturns(p, FALSE) /\ step' = [step EXCEPT ![p] = 1]
        /\ UNCHANGED stateFile
    BY <1>4
  <2> QED BY <1>1, <2>1, ReturnsTyped DEF ProcTypes
<1> QED BY <1>2, <1>3, <1>4

LEMMA TypesKept ==
    ASSUME SysTypes, NEW p \in Procs, ProcStep(p), UNCHANGED platform
    PROVE  SysTypes'
<1>1. 1 \in 1..Writes /\ Writes' = Writes /\ Writes \in Nat
  BY DEF Writes, WriteOrder
<1>2. \A target, i : IsSnapshot(Written(target, i))
  BY DEF SysTypes, DeskTypes, IsSnapshot, Written, WrittenAtOnce, WrittenKey
<1>3. Shaped(NoState)
  BY DEF Shaped, NoState, IsSnapshot
<1> USE DEF SysTypes, DeskTypes, Move, StartApply, Forget, historyVars, Mishap
<1>4. CASE Launch(p) \/ Enable(p) \/ Quit(p) \/ Close(p)
  BY <1>1, <1>4 DEF Launch, Enable, Quit, Close, ProcTypes, At, Goal
<1>5. CASE ReadStateFile(p)
  <2>1. UNCHANGED <<desktop, stateFile, step, foreign, raced, revived, mishap>>
    BY <1>5 DEF ReadStateFile
  <2>2. CASE stateFile = {}
    BY <1>1, <1>5, <2>1, <2>2, ReturnsTyped DEF ReadStateFile, ProcTypes
  <2>3. CASE stateFile # {}
    <3> DEFINE read == CHOOSE t \in stateFile : TRUE
    <3>1. Shaped(read)
      BY <2>3
    <3>2. /\ at' = [at EXCEPT ![p] = "Check"] /\ goal' = [goal EXCEPT ![p] = goal[p]]
          /\ state' = [state EXCEPT ![p] = read]
      BY <1>5, <2>3 DEF ReadStateFile
    <3> HIDE DEF read
    <3> QED BY <1>1, <2>1, <3>1, <3>2 DEF ProcTypes, At
  <2> QED BY <2>2, <2>3
<1>6. CASE ReadStateFails(p) \/ CheckFails(p)
  BY <1>1, <1>6, ReturnsTyped DEF ReadStateFails, CheckFails, ProcTypes
<1>7. CASE CheckOwned(p) \/ CheckNotOwned(p)
  BY <1>1, <1>7 DEF CheckOwned, CheckNotOwned, ProcTypes, At
<1>8. CASE RemoveState(p) \/ RemoveStateFails(p)
  BY <1>1, <1>8, ReturnsTyped DEF RemoveState, RemoveStateFails, ProcTypes
<1>9. CASE ApplyWrites(p)
  BY <1>1, <1>2, <1>9 DEF ApplyWrites, ProcTypes, At
<1>10. CASE ApplyFails(p)
  BY <1>10, ErrorTyped DEF ApplyFails
<1>11. CASE BroadcastFails(p)
  BY <1>11, ErrorTyped DEF BroadcastFails, WrittenAtOnce, IsSnapshot
<1>12. CASE EnableFails(p) \/ Crash(p)
  BY <1>1, <1>3, <1>12 DEF EnableFails, Crash, ProcTypes, At, Goal
<1>13. CASE \E listen \in Listens : TakeSnapshot(p, listen)
  <2>1. PICK listen \in Listens : TakeSnapshot(p, listen)
    BY <1>13
  <2>2. Shaped(RecoveryState(listen))
    BY DEF Shaped, RecoveryState, LocalProxy, IsSnapshot, Key, Hosts
  <2> QED BY <1>1, <2>1, <2>2 DEF TakeSnapshot, ProcTypes, At, Goal
<1>14. CASE WriteState(p)
  BY <1>1, <1>14 DEF WriteState, ProcTypes, At, Goal
<1>15. CASE VerifyOwned(p) \/ VerifyRejected(p)
  BY <1>1, <1>15 DEF VerifyOwned, VerifyRejected, ProcTypes, At, Goal
<1> QED BY <1>4, <1>5, <1>6, <1>7, <1>8, <1>9, <1>10, <1>11, <1>12, <1>13, <1>14, <1>15
        DEF ProcStep

\* Every variable keeps its type, with however many processes.
THEOREM SysTypeHolds == SysSpec => []SysTypeOK
<1>1. SysInit => SysTypes
  <2>1. 1 \in 1..Writes /\ Shaped(NoState)
    BY DEF Writes, WriteOrder, Shaped, NoState, IsSnapshot
  <2> QED BY <2>1, SystemProxyAssumption
          DEF SysInit, SysTypes, DeskTypes, ProcTypes, At, Goal
<1>2. SysTypes /\ [SysNext]_sysVars => SysTypes'
  <2> SUFFICES ASSUME SysTypes, [SysNext]_sysVars PROVE SysTypes'
    OBVIOUS
  <2>1. ASSUME NEW p \in Procs, ProcStep(p), UNCHANGED platform PROVE SysTypes'
    BY <2>1, TypesKept
  <2>2. ASSUME NEW settings, NEW keys, ChangeOutside(settings, keys), UNCHANGED platform
        PROVE  SysTypes'
    <3>1. raced' \in BOOLEAN /\ foreign' \in BOOLEAN /\ revived' \in BOOLEAN
      BY <2>2 DEF ChangeOutside
    <3>2. IsSnapshot(desktop') /\ Writes' = Writes
      BY <2>2 DEF ChangeOutside, IsSnapshot, Writes
    <3> QED BY <2>2, <3>1, <3>2 DEF ChangeOutside, SysTypes, DeskTypes, ProcTypes
  <2>3. CASE UNCHANGED sysVars
    BY <2>3 DEF sysVars, SysTypes, DeskTypes, ProcTypes, Writes
  <2> QED BY <2>1, <2>2, <2>3 DEF SysNext
<1>3. SysTypes => SysTypeOK
  <2> SUFFICES ASSUME SysTypes PROVE SysTypeOK
    OBVIOUS
  <2>1. Cardinality(stateFile) <= 1
    <3>1. CASE stateFile = {}
      BY <3>1, FS_EmptySet
    <3>2. CASE \E t : stateFile = {t}
      <4>1. Cardinality(stateFile) = 1
        BY <3>2, FS_Singleton
      <4> QED BY <4>1
    <3> QED BY <3>1, <3>2 DEF SysTypes, DeskTypes
  <2> QED BY <2>1 DEF SysTypes, DeskTypes, ProcTypes, Shaped, SysTypeOK
<1> QED BY <1>1, <1>2, <1>3, PTL DEF SysSpec

=============================================================================
