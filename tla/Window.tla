------------------------------- MODULE Window -------------------------------
(***************************************************************************)
(* The main window (src/src/app.rs): what the user can do at any moment,   *)
(* which commands it turns into, and what each event from the network      *)
(* thread does to the window.  GTK callbacks run one at a time on the main *)
(* thread; the event pump is one of them.                                  *)
(***************************************************************************)
EXTENDS Handle

CONSTANT InitialConfigs   \* configurations load_or_create may return

ASSUME WindowAssumption == InitialConfigs \subseteq Config

VARIABLES
    open,             \* the application runs (FALSE after connect_shutdown)
    running,          \* Ui::running
    transitioning,    \* Ui::transitioning
    switchOn,         \* ygg_card.enables_expansion
    cardSensitive,    \* the node card accepts input
    modeSensitive,    \* the mode row and the proxy card accept input
    deleteSensitive,  \* the peers' delete buttons accept input
    config            \* the configuration shown and saved

windowVars == <<open, running, transitioning, switchOn, cardSensitive,
                modeSensitive, deleteSensitive, config>>

WindowInit ==
    /\ open = TRUE
    /\ running = FALSE
    /\ transitioning = FALSE
    /\ switchOn = FALSE
    /\ cardSensitive = TRUE
    /\ modeSensitive = TRUE
    /\ deleteSensitive = TRUE
    /\ config \in InitialConfigs

\* Mistake: the mode row follows the card, running or not.
SetControlsSensitiveAlways(sensitive) ==
    /\ cardSensitive' = sensitive
    /\ modeSensitive' = sensitive
    /\ deleteSensitive' = sensitive

\* set_controls_sensitive, called once `running` has its new value.
SetControlsSensitive(sensitive) ==
    /\ cardSensitive' = sensitive
    /\ modeSensitive' = (sensitive /\ ~running')
    /\ deleteSensitive' = sensitive

(***************************************************************************)
(* The user.                                                               *)
(***************************************************************************)

\* The switch flips, then on_ygg_switch starts, stops, or flips it back.  (The
\* notification that set_ygg_switch causes is swallowed by suppress_ygg_switch.)
FlipSwitch ==
    LET desired == ~switchOn
    IN  /\ open /\ cardSensitive
        /\ IF transitioning \/ desired = running
           THEN /\ switchOn' = running
                /\ UNCHANGED <<running, transitioning, cardSensitive,
                               modeSensitive, deleteSensitive, commands>>
           ELSE /\ switchOn' = desired
                /\ transitioning' = TRUE
                /\ UNCHANGED running
                /\ SetControlsSensitive(FALSE)
                /\ Post(IF desired THEN [command |-> "Start", config |-> config]
                        ELSE [command |-> "Stop"])
        /\ UNCHANGED <<open, config, events>>

\* on_connection_mode_changed, for a selection the user made.
SelectMode(mode) ==
    /\ open /\ modeSensitive
    /\ mode # config.mode
    /\ config' = [config EXCEPT !.mode = mode]
    /\ UNCHANGED <<open, running, transitioning, switchOn, cardSensitive,
                   modeSensitive, deleteSensitive, commands, events>>

\* add_peer and remove_peer: edit the list, rebuild its rows with fresh, hence
\* sensitive, buttons, and tell the backend if a node runs.
EditPeerList(edit) ==
    /\ config' = [config EXCEPT !.peers = EditPeers(@, edit)]
    /\ deleteSensitive' = TRUE
    /\ IF running THEN Post(edit) ELSE UNCHANGED commands
    /\ UNCHANGED <<open, running, transitioning, switchOn, cardSensitive,
                   modeSensitive, events>>

\* The add button is never disabled; a peer already listed is ignored.
AddPeer(peer) ==
    /\ open
    /\ peer \notin config.peers
    /\ EditPeerList([command |-> "AddPeer", peer |-> peer])

RemovePeer(peer) ==
    /\ open /\ deleteSensitive
    /\ peer \in config.peers
    /\ EditPeerList([command |-> "RemovePeer", peer |-> peer])

\* The last window closes: connect_shutdown joins the network thread.
CloseWindow ==
    /\ open
    /\ open' = FALSE
    /\ Post(ShutdownCommand)
    /\ UNCHANGED <<running, transitioning, switchOn, cardSensitive,
                   modeSensitive, deleteSensitive, config, events>>

UserStep ==
    \/ FlipSwitch
    \/ \E mode \in Modes : SelectMode(mode)
    \/ \E peer \in Peers : AddPeer(peer) \/ RemovePeer(peer)
    \/ CloseWindow

(***************************************************************************)
(* handle_backend_event                                                    *)
(***************************************************************************)

ShowStarting ==
    /\ transitioning' = TRUE
    /\ UNCHANGED <<running, switchOn>>
    /\ SetControlsSensitive(FALSE)

\* Mistake: the transition is not over when the node has started.
ShowStartedInTransition ==
    /\ running' = TRUE
    /\ switchOn' = TRUE
    /\ UNCHANGED transitioning
    /\ SetControlsSensitive(TRUE)

ShowStarted ==
    /\ running' = TRUE
    /\ transitioning' = FALSE
    /\ switchOn' = TRUE
    /\ SetControlsSensitive(TRUE)

\* Mistake: the switch stays where it was.
ShowStoppedSwitchLeft ==
    /\ running' = FALSE
    /\ transitioning' = FALSE
    /\ UNCHANGED switchOn
    /\ SetControlsSensitive(TRUE)

ShowStopped ==
    /\ running' = FALSE
    /\ transitioning' = FALSE
    /\ switchOn' = FALSE
    /\ SetControlsSensitive(TRUE)

ShowNothing == UNCHANGED <<running, transitioning, switchOn, cardSensitive,
                           modeSensitive, deleteSensitive>>

\* One event of the pump.  PeerStatus repaints icons and DiscoveryFinished goes
\* to the discovery dialog: neither touches this state.
HandleEvent ==
    /\ open
    /\ events # <<>>
    /\ events' = Tail(events)
    /\ LET event == Head(events).event
       IN  CASE event = "Starting" -> ShowStarting
             [] event = "Started" -> ShowStarted
             [] event = "Stopped" -> ShowStopped
             [] event = "Failed" ->
                  IF transitioning THEN ShowStopped ELSE ShowNothing
             [] OTHER -> ShowNothing
    /\ UNCHANGED <<open, config, commands, inputs>>

=============================================================================
