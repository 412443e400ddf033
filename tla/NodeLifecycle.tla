---------------------------- MODULE NodeLifecycle ----------------------------
(***************************************************************************)
(* What the network thread promises the window about the node's life, in   *)
(* the BackendEvents it sends: a start is announced first, ends once, as a *)
(* success or a failure, and never hangs; a running node is announced only *)
(* by the start it belongs to; anything may be stopped at any time.        *)
(***************************************************************************)
VARIABLES
    phase,    \* what the window has been told
    over      \* the thread has ended and tells nothing any more

lifecycleVars == <<phase, over>>

Init == phase = "Stopped" /\ over = FALSE

Tell(p) == ~over /\ phase' = p /\ UNCHANGED over

Begin == Tell("Starting")
Succeed == phase = "Starting" /\ Tell("Running")
Fail == phase = "Starting" /\ Tell("Stopped")
End == phase = "Running" /\ Tell("Stopped")
Quit == over' = TRUE /\ UNCHANGED phase

Next == Begin \/ Succeed \/ Fail \/ End \/ Quit

Safe == Init /\ [][Next]_lifecycleVars

\* A start is resolved unless the application ends first.
Resolves == WF_lifecycleVars(Succeed \/ Fail)

Spec == Safe /\ Resolves

=============================================================================
