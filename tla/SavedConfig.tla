----------------------------- MODULE SavedConfig -----------------------------
(***************************************************************************)
(* What the configuration store promises: a process runs what is saved,    *)
(* or what is saved with the overrides of its command line, a change is    *)
(* saved before it runs, and whatever runs has passed the checks.  Once    *)
(* changes are muddled, only the last of these is left, until a process    *)
(* starts from what is saved.                                              *)
(***************************************************************************)
CONSTANTS
    None,          \* nothing runs
    Checked(_),    \* the checks of a configuration
    Overridden(_)  \* what the command line makes of one

VARIABLES saved, running, muddled

Init == running = None /\ muddled = FALSE

\* A process starts, or takes over what was saved.
Adopt ==
    /\ Checked(saved)
    /\ running' \in {saved, Overridden(saved)}
    /\ muddled' = (muddled /\ running # None)
    /\ UNCHANGED saved

Save ==
    /\ Checked(saved')
    /\ UNCHANGED <<running, muddled>>

Stop == running' = None /\ UNCHANGED <<saved, muddled>>

Muddle ==
    /\ running # None /\ muddled'
    /\ running' = running \/ Checked(running')

\* A process that starts clears what was muddled, once it has loaded the file.
Clear == running = None /\ Checked(saved) /\ ~muddled' /\ UNCHANGED <<saved, running>>

Next == Adopt \/ Save \/ Stop \/ Muddle \/ Clear

Spec == Init /\ [][Next]_<<saved, running, muddled>>
=============================================================================
