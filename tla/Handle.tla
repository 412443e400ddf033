------------------------------- MODULE Handle -------------------------------
(***************************************************************************)
(* The two channels between the window (GTK's main thread) and the network *)
(* thread: BackendHandle's unbounded command channel and the event channel *)
(* the window polls every 100 ms (backend.rs:55-126, app.rs:427-435).      *)
(***************************************************************************)
EXTENDS Messages

VARIABLES
    commands,   \* commands sent and not yet received
    events,     \* events sent and not yet polled
    inputs      \* how many inputs the user gave

handleVars == <<commands, events, inputs>>

HandleTypeOK ==
    /\ commands \in Seq(BackendCommand)
    /\ events \in Seq(BackendEvent)
    /\ inputs \in Nat

HandleInit ==
    /\ commands = <<>>
    /\ events = <<>>
    /\ inputs = 0

\* One more input, within the bound.
Input == inputs < MaxInputs /\ inputs' = inputs + 1

\* start, stop, add_peer, remove_peer, discover and shutdown all do this.
Post(command) == commands' = Append(commands, command)

=============================================================================
