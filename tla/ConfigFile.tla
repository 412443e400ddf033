------------------------------ MODULE ConfigFile ------------------------------
(***************************************************************************)
(* The stored configuration: load_or_create, the edits of the main window  *)
(* that persist_config writes at once, and save, step by step, on a file   *)
(* system that a crash leaves as it is seen and that a power loss takes    *)
(* back to what has reached the disk.                                      *)
(***************************************************************************)
EXTENDS Naturals

CONSTANTS
    Rests,         \* values of the other settings: peers, listen address, DNS
    DefaultRest,
    MaxKeys,       \* bound on the private keys made or typed
    MaxEdits,      \* bound on the edits
    ConfigFaults   \* what may go wrong

AllConfigFaults == {"saveError", "readError", "existsError", "crash", "powerLoss"}

ASSUME ConfigFileAssumption ==
    /\ DefaultRest \in Rests
    /\ MaxKeys \in Nat
    /\ MaxEdits \in Nat
    /\ ConfigFaults \subseteq AllConfigFaults

VARIABLES
    at,        \* "Off", "Creating", "Running" or "Refused"
    memory,    \* Ui.config, while the program runs
    keyText,   \* the key row: a key, or 0 when it shows an error
    saving,    \* where save() is
    temp,      \* the temporary file
    file,      \* the configuration file as programs see it
    durable,   \* what it may be after a loss of power
    edits,
    keys,      \* the keys there have been are 1..keys
    unsaved,   \* history: the latest save failed
    chosen,    \* history: the keys that a first start made or the user chose
    overlooked, \* history: exists() did not see the file
    settled    \* history: a configuration has been on the disk for good

configVars == <<at, memory, keyText, saving, temp, file, durable, edits, keys,
                unsaved, chosen, overlooked, settled>>

Mode == {"system_proxy", "proxy", "tun"}

Settings == [key : Nat, mode : Mode, rest : Rests]

\* A file of this version, one of version 2.0, whose boolean may be missing, a
\* file that was not written to its end, or none.
Current(settings) == [form |-> "current", settings |-> settings]
Legacy(key, proxy_enabled) ==
    [form |-> "legacy", key |-> key, proxy_enabled |-> proxy_enabled]
Torn == [form |-> "torn"]
Absent == [form |-> "absent"]

NoSettings == [key |-> 0, mode |-> "tun", rest |-> DefaultRest]
NoTemp == [whole |-> FALSE, synced |-> FALSE]

ConfigInit ==
    /\ at = "Off"
    /\ memory = NoSettings
    /\ keyText = 0
    /\ saving = "No"
    /\ temp = NoTemp
    /\ file \in {Absent, Current([NoSettings EXCEPT !.key = 1])}
                \cup {Legacy(1, flag) : flag \in {"true", "false", "missing"}}
    /\ durable = {file}
    /\ edits = 0
    /\ keys = IF file = Absent THEN 0 ELSE 1
    /\ unsaved = FALSE
    /\ chosen = 1..keys
    /\ overlooked = FALSE
    /\ settled = (file # Absent)

(***************************************************************************)
(* Reading: the deserializers of StoredConfig and GuiConfig.               *)
(***************************************************************************)

Parsed(content) ==
    IF content.form = "current" THEN content.settings
    ELSE [key |-> content.key, rest |-> DefaultRest,
          mode |-> IF content.proxy_enabled = "true" THEN "proxy" ELSE "tun"]

Readable(content) == content.form \in {"current", "legacy"}

\* Ui::new and initialize_widgets.
Show(settings) ==
    /\ at' = "Running"
    /\ memory' = settings
    /\ keyText' = settings.key

Load ==
    /\ at = "Off"
    /\ Readable(file)
    /\ Show(Parsed(file))
    /\ UNCHANGED <<saving, temp, file, durable, edits, keys, unsaved, chosen, overlooked, settled>>

\* The program says so and quits; the file is left alone.
LoadFails ==
    /\ at = "Off"
    /\ file # Absent
    /\ Readable(file) => "readError" \in ConfigFaults
    /\ at' = "Refused"
    /\ UNCHANGED <<memory, keyText, saving, temp, file, durable, edits, keys,
                   unsaved, chosen, overlooked, settled>>

(***************************************************************************)
(* Writing.                                                                *)
(***************************************************************************)

NewKey == keys < MaxKeys /\ keys' = keys + 1

\* StoredConfig::default: path.exists() is false of a file that is not there, and
\* of one that cannot be looked at.
Create ==
    /\ at = "Off"
    /\ file # Absent => "existsError" \in ConfigFaults
    /\ NewKey
    /\ memory' = [NoSettings EXCEPT !.key = keys + 1]
    /\ at' = "Creating"
    /\ saving' = "Create"
    /\ overlooked' = (overlooked \/ file # Absent)
    /\ chosen' = chosen \cup {keys + 1}
    /\ UNCHANGED <<keyText, temp, file, durable, edits, unsaved, settled>>

CreateTemp ==
    /\ saving = "Create"
    /\ saving' = "Write"
    /\ temp' = NoTemp
    /\ UNCHANGED <<at, memory, keyText, file, durable, edits, keys, unsaved,
                   chosen, overlooked, settled>>

WriteTemp ==
    /\ saving = "Write"
    /\ saving' = "Sync"
    /\ temp' = [temp EXCEPT !.whole = TRUE]
    /\ UNCHANGED <<at, memory, keyText, file, durable, edits, keys, unsaved,
                   chosen, overlooked, settled>>

\* Mistake: the temporary file is renamed without being synced.
SyncTempForgotten ==
    /\ saving = "Sync"
    /\ saving' = "Rename"
    /\ UNCHANGED <<at, memory, keyText, temp, file, durable, edits, keys, unsaved,
                   chosen, overlooked, settled>>

SyncTemp ==
    /\ saving = "Sync"
    /\ saving' = "Rename"
    /\ temp' = [temp EXCEPT !.synced = TRUE]
    /\ UNCHANGED <<at, memory, keyText, file, durable, edits, keys, unsaved,
                   chosen, overlooked, settled>>

\* The directory is not synced: until the system writes it back, a loss of power
\* may undo the rename, and finds of the new file what was synced of it.
Rename ==
    /\ saving = "Rename"
    /\ file' = IF temp.whole THEN Current(memory) ELSE Torn
    /\ durable' = durable \cup {file'} \cup (IF temp.synced THEN {} ELSE {Torn})
    /\ saving' = "No"
    /\ IF at = "Creating" THEN Show(memory) ELSE UNCHANGED <<at, memory, keyText>>
    /\ unsaved' = FALSE
    /\ UNCHANGED <<temp, edits, keys, chosen, overlooked, settled>>

\* Any step may fail; the temporary file is removed, and the window says so, or
\* never opens.
SaveFails ==
    /\ saving # "No"
    /\ "saveError" \in ConfigFaults
    /\ saving' = "No"
    /\ at' = IF at = "Creating" THEN "Refused" ELSE at
    /\ unsaved' = TRUE
    /\ UNCHANGED <<memory, keyText, temp, file, durable, edits, keys, chosen, overlooked, settled>>

WriteBack ==
    /\ durable # {file}
    /\ durable' = {file}
    /\ settled' = TRUE
    /\ UNCHANGED <<at, memory, keyText, saving, temp, file, edits, keys, unsaved,
                   chosen, overlooked>>

(***************************************************************************)
(* Edits: each handler assigns and calls persist_config, on one thread.    *)
(***************************************************************************)

CanEdit ==
    /\ at = "Running"
    /\ saving = "No"
    /\ edits < MaxEdits
    /\ edits' = edits + 1
    /\ UNCHANGED <<at, temp, file, durable, unsaved, overlooked, settled>>

Persist == saving' = "Create"

\* on_connection_mode_changed
ChangeMode ==
    /\ CanEdit
    /\ \E mode \in Mode \ {memory.mode} : memory' = [memory EXCEPT !.mode = mode]
    /\ Persist
    /\ UNCHANGED <<keyText, keys, chosen>>

\* add_peer, remove_peer and the handlers of the proxy rows
ChangeRest ==
    /\ CanEdit
    /\ \E rest \in Rests : memory' = [memory EXCEPT !.rest = rest]
    /\ Persist
    /\ UNCHANGED <<keyText, keys, chosen>>

\* on_private_key_changed, with a text that is no key ...
TypeInvalidKey ==
    /\ CanEdit
    /\ keyText' = 0
    /\ UNCHANGED <<memory, saving, keys, chosen>>

\* Mistake: a key is shown as accepted without being saved.
TypeKeyUnsaved ==
    /\ CanEdit
    /\ NewKey
    /\ keyText' = keys + 1
    /\ memory' = [memory EXCEPT !.key = keys + 1]
    /\ chosen' = chosen \cup {keys + 1}
    /\ UNCHANGED saving

\* ... with the key it has, or with another one.
TypeKey ==
    /\ CanEdit
    /\ \/ /\ keyText' = memory.key
          /\ UNCHANGED <<memory, saving, keys, chosen>>
       \/ /\ NewKey
          /\ keyText' = keys + 1
          /\ memory' = [memory EXCEPT !.key = keys + 1]
          /\ chosen' = chosen \cup {keys + 1}
          /\ Persist

\* regenerate_private_key: set_text runs on_private_key_changed, which finds the
\* key it already has.
RegenerateKey ==
    /\ CanEdit
    /\ NewKey
    /\ memory' = [memory EXCEPT !.key = keys + 1]
    /\ keyText' = keys + 1
    /\ chosen' = chosen \cup {keys + 1}
    /\ Persist

(***************************************************************************)
(* Ends.                                                                   *)
(***************************************************************************)

Stop ==
    /\ at' = "Off"
    /\ memory' = NoSettings
    /\ keyText' = 0
    /\ saving' = "No"
    /\ temp' = NoTemp
    /\ unsaved' = FALSE
    /\ UNCHANGED <<edits, keys, chosen, overlooked>>

Quit ==
    /\ \/ at = "Running" /\ saving = "No"
       \/ at = "Refused"
    /\ Stop
    /\ UNCHANGED <<file, durable, settled>>

Crash ==
    /\ "crash" \in ConfigFaults
    /\ at # "Off"
    /\ Stop
    /\ UNCHANGED <<file, durable, settled>>

PowerLoss ==
    /\ "powerLoss" \in ConfigFaults
    /\ Stop
    /\ file' \in durable
    /\ durable' = {file'}
    /\ settled' = (settled \/ file' # Absent)

ConfigNext ==
    \/ Load \/ LoadFails \/ Create
    \/ CreateTemp \/ WriteTemp \/ SyncTemp \/ Rename \/ SaveFails
    \/ ChangeMode \/ ChangeRest \/ TypeInvalidKey \/ TypeKey \/ RegenerateKey
    \/ WriteBack \/ Quit \/ Crash \/ PowerLoss

ConfigSpec == ConfigInit /\ [][ConfigNext]_configVars

(***************************************************************************)
(* Properties.                                                             *)
(***************************************************************************)

\* Whenever the program dies, and whatever the disk loses with it, the next start
\* does not find half a configuration, and what it finds has a key that the user
\* had.  Once a configuration has been on the disk for good there is always one,
\* and the program never makes another identity, unless exists() overlooked the
\* file (config.rs:126-134, 144-158).  Until then a first start's configuration
\* may be lost as a whole: save() does not sync the directory (155-158), so a loss
\* of power soon after can undo the rename, and the next start makes another key.
ConfigKept ==
    /\ \A content \in durable \cup {file} :
          /\ content # Torn
          /\ IF content = Absent THEN ~settled ELSE Parsed(content).key \in chosen
    /\ at \in {"Creating", "Running"} => memory.key \in chosen
    /\ settled /\ ~overlooked => at # "Creating"

\* Whenever the window is at rest and has not said otherwise, what it shows is
\* what the next start will load, a file of the old form included; a key row
\* without its error mark shows the key in use (app.rs:403-425, 535-540).
ShownIsSaved ==
    at = "Running" /\ saving = "No" =>
        /\ ~unsaved => Readable(file) /\ Parsed(file) = memory
        /\ keyText \in {0, memory.key}

=============================================================================
