----------------------------- MODULE ConfigProofs -----------------------------
(***************************************************************************)
(* Proofs about the stored configuration, for any number of edits, keys    *)
(* and failures: no crash and no loss of power leaves a file that a start  *)
(* cannot read or that holds a key nobody chose, or no file once there has *)
(* been one for good, and the window at rest shows what is saved.          *)
(***************************************************************************)
EXTENDS ConfigFile, TLAPS

\* What a start can work with: no file at all, or one with a key of the user's.
Kept(content) ==
    \/ content = Absent
    \/ \E settings \in Settings :
         content = Current(settings) /\ settings.key \in chosen
    \/ \E key \in chosen, flag \in {"true", "false", "missing"} :
         content = Legacy(key, flag)

ConfigTypeOK ==
    /\ at \in {"Off", "Creating", "Running", "Refused"}
    /\ memory \in Settings
    /\ saving \in {"No", "Create", "Write", "Sync", "Rename"}
    /\ temp \in [whole : BOOLEAN, synced : BOOLEAN]
    /\ keys \in Nat
    /\ chosen \subseteq Nat
    /\ settled \in BOOLEAN

\* What may be on the disk is kept, and so is what the program works with; what is
\* about to be renamed is whole and on the disk; only a start that sees no file
\* makes one, and what was on the disk for good is not taken off it.
DiskInv ==
    /\ ConfigTypeOK
    /\ file \in durable
    /\ \A content \in durable : Kept(content)
    /\ at \in {"Creating", "Running"} => memory.key \in chosen
    /\ saving # "No" => at \in {"Creating", "Running"}
    /\ saving \in {"Sync", "Rename"} => temp.whole
    /\ saving = "Rename" => temp.synced
    /\ at = "Creating" /\ ~overlooked => file = Absent
    /\ settled => Absent \notin durable
    /\ file = Absent => durable = {Absent}

\* A form tells what a file is.
LEMMA Forms ==
    ASSUME chosen \subseteq Nat, NEW content, Kept(content)
    PROVE  /\ content # Torn
           /\ content # Absent =>
                Parsed(content) \in Settings /\ Parsed(content).key \in chosen
           /\ content = Absent \/ Readable(content)
<1>1. CASE content = Absent
  BY <1>1 DEF Absent, Torn
<1>2. ASSUME NEW settings \in Settings, content = Current(settings), settings.key \in chosen
      PROVE  /\ content # Torn /\ Readable(content)
             /\ Parsed(content) \in Settings /\ Parsed(content).key \in chosen
  <2>1. content.form = "current" /\ content.settings = settings
    BY <1>2 DEF Current
  <2> QED BY <1>2, <2>1 DEF Torn, Readable, Parsed
<1>3. ASSUME NEW key \in chosen, NEW flag, content = Legacy(key, flag)
      PROVE  /\ content # Torn /\ Readable(content)
             /\ Parsed(content) \in Settings /\ Parsed(content).key \in chosen
  <2>1. content.form = "legacy" /\ content.key = key
    BY <1>3 DEF Legacy
  <2>2. content # Torn /\ Readable(content)
    BY <2>1 DEF Torn, Readable
  <2>3. PICK mode \in Mode : Parsed(content) = [key |-> key, rest |-> DefaultRest, mode |-> mode]
    BY <2>1 DEF Parsed, Mode
  <2> QED BY <2>2, <2>3, ConfigFileAssumption DEF Settings
<1> QED BY <1>1, <1>2, <1>3 DEF Kept

\* Keys that were chosen stay so, and with them what is kept.
LEMMA KeptStays ==
    ASSUME chosen \subseteq chosen', NEW content, Kept(content)
    PROVE  Kept(content)'
BY DEF Kept

LEMMA DiskInit == ConfigInit => DiskInv
<1> SUFFICES ASSUME ConfigInit PROVE DiskInv
  OBVIOUS
<1> USE DEF ConfigInit
<1>1. NoSettings \in Settings
  BY ConfigFileAssumption DEF NoSettings, Settings, Mode
<1>2. ConfigTypeOK
  <2>1. keys \in {0, 1} /\ chosen = 1..keys
    OBVIOUS
  <2>2. chosen \subseteq Nat
    BY <2>1
  <2> QED BY <1>1, <2>1, <2>2 DEF ConfigTypeOK, NoTemp
<1>3. CASE file = Absent
  BY <1>2, <1>3 DEF DiskInv, Kept
<1>4. CASE file # Absent
  <2>1. 1 \in chosen
    BY <1>4
  <2>2. [NoSettings EXCEPT !.key = 1] \in Settings /\ [NoSettings EXCEPT !.key = 1].key = 1
    BY <1>1 DEF Settings
  <2>3. Kept(file)
    BY <2>1, <2>2, <1>4 DEF Kept
  <2> QED BY <1>2, <2>3 DEF DiskInv
<1> QED BY <1>3, <1>4

\* One step of any kind.
LEMMA DiskStep ==
    ASSUME DiskInv, [ConfigNext]_configVars
    PROVE  DiskInv'
<1> USE DEF DiskInv, ConfigTypeOK
<1>1. CASE Load
  <2>1. Parsed(file) \in Settings /\ Parsed(file).key \in chosen
    BY <1>1, Forms DEF Load, Readable, Absent
  <2>2. \A content \in durable' : Kept(content)'
    BY <1>1, KeptStays DEF Load
  <2> QED BY <1>1, <2>1, <2>2 DEF Load, Show
<1>2. CASE LoadFails
  <2>1. \A content \in durable' : Kept(content)'
    BY <1>2, KeptStays DEF LoadFails
  <2> QED BY <1>2, <2>1 DEF LoadFails
<1>3. CASE Create
  <2>1. \A content \in durable' : Kept(content)'
    BY <1>3, KeptStays DEF Create
  <2>2. memory' \in Settings /\ memory'.key = keys + 1 /\ keys + 1 \in Nat
    <3>1. NoSettings \in Settings /\ keys + 1 \in Nat
      BY ConfigFileAssumption DEF NoSettings, Settings, Mode
    <3> QED BY <1>3, <3>1 DEF Create, Settings
  <2>3. /\ keys' = keys + 1
        /\ chosen' = chosen \cup {keys + 1}
        /\ at' = "Creating" /\ saving' = "Create"
        /\ UNCHANGED <<temp, file, durable, settled>>
    BY <1>3 DEF Create, NewKey
  <2>4. ConfigTypeOK'
    BY <2>2, <2>3
  <2>5. ~overlooked' => file' = Absent
    BY <1>3 DEF Create
  <2> QED BY <2>1, <2>2, <2>3, <2>4, <2>5
<1>4. CASE CreateTemp \/ WriteTemp \/ SyncTemp
  <2>1. \A content \in durable' : Kept(content)'
    BY <1>4, KeptStays DEF CreateTemp, WriteTemp, SyncTemp
  <2>2. CASE CreateTemp
    BY <2>1, <2>2 DEF CreateTemp, NoTemp
  <2>3. CASE WriteTemp
    BY <2>1, <2>3 DEF WriteTemp
  <2>4. CASE SyncTemp
    BY <2>1, <2>4 DEF SyncTemp
  <2> QED BY <1>4, <2>2, <2>3, <2>4
<1>5. CASE Rename
  <2>1. file' = Current(memory) /\ durable' = durable \cup {file'}
    <3>1. temp.whole /\ temp.synced
      BY <1>5 DEF Rename
    <3>2. file' = Current(memory)
      BY <1>5, <3>1 DEF Rename
    <3>3. durable' = durable \cup {file'} \cup {}
      BY <1>5, <3>1 DEF Rename
    <3> QED BY <3>2, <3>3
  <2>2. memory.key \in chosen
    BY <1>5 DEF Rename
  <2>3. Kept(file)'
    BY <1>5, <2>1, <2>2 DEF Kept, Rename
  <2>4. \A content \in durable : Kept(content)'
    BY <1>5, KeptStays DEF Rename
  <2>5. \A content \in durable' : Kept(content)'
    BY <2>1, <2>3, <2>4
  <2>6. file' # Absent /\ settled' = settled
    BY <1>5, <2>1 DEF Rename, Current, Absent
  <2> QED BY <1>5, <2>1, <2>2, <2>5, <2>6 DEF Rename, Show
<1>6. CASE SaveFails
  <2>1. \A content \in durable' : Kept(content)'
    BY <1>6, KeptStays DEF SaveFails
  <2> QED BY <1>6, <2>1 DEF SaveFails
<1>7. CASE ChangeMode \/ ChangeRest \/ TypeInvalidKey \/ TypeKey \/ RegenerateKey
  <2>1. /\ UNCHANGED <<at, temp, file, durable, overlooked, settled>>
        /\ at = "Running" /\ saving = "No" /\ saving' \in {"No", "Create"}
    <3>1. CanEdit
      BY <1>7 DEF ChangeMode, ChangeRest, TypeInvalidKey, TypeKey, RegenerateKey
    <3>2. saving' = saving \/ saving' = "Create"
      <4>1. CASE ChangeMode \/ ChangeRest \/ RegenerateKey
        BY <4>1 DEF ChangeMode, ChangeRest, RegenerateKey, Persist
      <4>2. CASE TypeInvalidKey
        BY <4>2 DEF TypeInvalidKey
      <4>3. CASE TypeKey
        BY <4>3 DEF TypeKey, Persist
      <4> QED BY <1>7, <4>1, <4>2, <4>3
    <3> QED BY <3>1, <3>2 DEF CanEdit
  <2>2. \/ UNCHANGED <<keys, chosen>> /\ memory' \in Settings /\ memory'.key = memory.key
        \/ /\ keys' = keys + 1 /\ chosen' = chosen \cup {keys + 1}
           /\ memory' \in Settings /\ memory'.key = keys + 1
    BY <1>7 DEF ChangeMode, ChangeRest, TypeInvalidKey, TypeKey, RegenerateKey, NewKey,
                Settings
  <2>3. /\ keys' \in Nat /\ chosen' \subseteq Nat /\ chosen \subseteq chosen'
        /\ memory'.key \in chosen'
    <3>1. keys \in Nat /\ keys + 1 \in Nat /\ chosen \subseteq Nat /\ memory.key \in chosen
      BY <2>1
    <3>2. CASE UNCHANGED <<keys, chosen>> /\ memory'.key = memory.key
      BY <3>1, <3>2
    <3>3. CASE /\ keys' = keys + 1 /\ chosen' = chosen \cup {keys + 1}
               /\ memory'.key = keys + 1
      BY <3>1, <3>3
    <3> QED BY <2>2, <3>2, <3>3
  <2>4. \A content \in durable' : Kept(content)'
    BY <2>1, <2>3, KeptStays
  <2> QED BY <2>1, <2>2, <2>3, <2>4
<1>8. CASE WriteBack
  <2>1. \A content \in durable' : Kept(content)'
    BY <1>8, KeptStays DEF WriteBack
  <2>2. file # Absent
    BY <1>8 DEF WriteBack
  <2> QED BY <1>8, <2>1, <2>2 DEF WriteBack
<1>9. CASE Quit \/ Crash \/ PowerLoss
  <2>1. Stop /\ file' \in durable /\ file' \in durable' /\ durable' \subseteq durable
    BY <1>9 DEF Quit, Crash, PowerLoss
  <2>2. \A content \in durable' : Kept(content)'
    BY <2>1, KeptStays DEF Stop
  <2>3. NoSettings \in Settings
    BY ConfigFileAssumption DEF NoSettings, Settings, Mode
  <2>4. /\ settled' \in BOOLEAN
        /\ settled' => Absent \notin durable'
        /\ file' = Absent => durable' = {Absent}
    <3>1. CASE Quit \/ Crash
      BY <3>1 DEF Quit, Crash
    <3>2. CASE PowerLoss
      BY <3>2 DEF PowerLoss
    <3> QED BY <1>9, <3>1, <3>2
  <2> QED BY <2>1, <2>2, <2>3, <2>4 DEF Stop, NoTemp
<1>10. CASE UNCHANGED configVars
  <2>1. \A content \in durable' : Kept(content)'
    BY <1>10, KeptStays DEF configVars
  <2> QED BY <1>10, <2>1 DEF configVars
<1> QED BY <1>1, <1>2, <1>3, <1>4, <1>5, <1>6, <1>7, <1>8, <1>9, <1>10 DEF ConfigNext

LEMMA Disk == ConfigSpec => []DiskInv
BY DiskInit, DiskStep, PTL DEF ConfigSpec

\* No crash and no loss of power, at any point of save(), leaves half a
\* configuration or one with a key nobody had; and from when a configuration has
\* once been on the disk for good there is one, with the user's key, unless
\* exists() overlooks it.  What a first start made may be lost until then, and its
\* key with it (load_or_create, save).
THEOREM ConfigKeptHolds == ConfigSpec => []ConfigKept
<1>1. DiskInv => ConfigKept
  <2> SUFFICES ASSUME DiskInv PROVE ConfigKept
    OBVIOUS
  <2>1. \A content \in durable \cup {file} :
           content # Torn /\ (content # Absent => Parsed(content).key \in chosen)
    BY Forms DEF DiskInv, ConfigTypeOK
  <2> QED BY <2>1 DEF DiskInv, ConfigKept
<1> QED BY <1>1, Disk, PTL

(***************************************************************************)
(* What the window shows.                                                  *)
(***************************************************************************)

WindowInv ==
    /\ at = "Running" => keyText \in {0, memory.key}
    /\ at = "Running" /\ saving = "No" /\ ~unsaved =>
         Readable(file) /\ Parsed(file) = memory

LEMMA WindowStep ==
    ASSUME DiskInv, WindowInv, [ConfigNext]_configVars
    PROVE  WindowInv'
<1> USE DEF WindowInv
<1>1. CASE Load
  BY <1>1 DEF Load, Show, Readable, Parsed
<1>2. CASE LoadFails \/ Create
  BY <1>2 DEF LoadFails, Create
<1>3. CASE CreateTemp \/ WriteTemp \/ SyncTemp
  BY <1>3 DEF CreateTemp, WriteTemp, SyncTemp
<1>4. CASE Rename
  <2>1. file' = Current(memory)
    BY <1>4 DEF Rename, DiskInv
  <2>2. Readable(file') /\ Parsed(file') = memory
    BY <2>1 DEF Current, Readable, Parsed
  <2>3. at' = "Running" => memory' = memory /\ keyText' \in {0, memory.key}
    BY <1>4 DEF Rename, Show
  <2>4. at' = "Running" => Readable(file') /\ Parsed(file') = memory'
    BY <2>2, <2>3
  <2> QED BY <2>3, <2>4 DEF Readable, Parsed
<1>5. CASE SaveFails
  BY <1>5 DEF SaveFails
<1>6. CASE ChangeMode \/ ChangeRest
  BY <1>6 DEF ChangeMode, ChangeRest, CanEdit, Persist, DiskInv, ConfigTypeOK, Settings
<1>7. CASE TypeInvalidKey
  BY <1>7 DEF TypeInvalidKey, CanEdit, Readable, Parsed
<1>8. CASE TypeKey \/ RegenerateKey
  <2>1. UNCHANGED <<at, file, unsaved>>
    BY <1>8 DEF TypeKey, RegenerateKey, CanEdit
  <2>2. CASE keyText' = memory.key /\ UNCHANGED <<memory, saving>>
    BY <2>1, <2>2 DEF Readable, Parsed
  <2>3. CASE /\ keyText' = keys + 1 /\ memory' = [memory EXCEPT !.key = keys + 1]
             /\ saving' = "Create"
    <3>1. memory'.key = keys + 1
      BY <2>3 DEF DiskInv, ConfigTypeOK, Settings
    <3> QED BY <2>3, <3>1
  <2> QED BY <1>8, <2>2, <2>3 DEF TypeKey, RegenerateKey, Persist
<1>9. CASE WriteBack
  BY <1>9 DEF WriteBack, Readable, Parsed
<1>10. CASE Quit \/ Crash \/ PowerLoss
  BY <1>10 DEF Quit, Crash, PowerLoss, Stop
<1>11. CASE UNCHANGED configVars
  BY <1>11 DEF configVars, Readable, Parsed
<1> QED BY <1>1, <1>2, <1>3, <1>4, <1>5, <1>6, <1>7, <1>8, <1>9, <1>10, <1>11
    DEF ConfigNext

\* What the window shows at rest, without an error, is what is saved (the edit
\* handlers of app.rs and persist_config).
THEOREM ShownIsSavedHolds == ConfigSpec => []ShownIsSaved
<1>1. ConfigInit => WindowInv
  BY DEF ConfigInit, WindowInv
<1>2. WindowInv => ShownIsSaved
  BY DEF WindowInv, ShownIsSaved
<1> QED BY <1>1, <1>2, WindowStep, Disk, PTL DEF ConfigSpec

=============================================================================
