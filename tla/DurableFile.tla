----------------------------- MODULE DurableFile -----------------------------
(***************************************************************************)
(* What a catalogue on the card promises to the code that loads and saves  *)
(* it: a stored value that a save replaces in one step or not at all and   *)
(* that survives a reset.  The promise has one gap, which the variable     *)
(* alone marks: the value may be left in the backup only, by a reset       *)
(* inside a save or by a save whose undoing failed too.  From there a load *)
(* may put it back or miss it, and a save destroys it before it publishes. *)
(* CatalogueFile shows that the three files of a catalogue keep this       *)
(* promise.                                                                *)
(***************************************************************************)
CONSTANTS Values, Empty

VARIABLES
    stored,   \* what a load after a reset would find
    alone,    \* the stored value is in the backup only
    state,    \* "closed", "open", "saving", or "saved" before the answer
    arg,      \* the value being saved
    view      \* the copy in memory

durableVars == <<stored, alone, state, arg, view>>

DurableInit ==
    /\ stored \in Values /\ alone = FALSE
    /\ state = "closed" /\ arg = Empty /\ view = Empty

\* A load finds the backup and puts it back.
Restore ==
    /\ state = "closed" /\ alone /\ alone' = FALSE
    /\ UNCHANGED <<stored, state, arg, view>>

\* A load that succeeds shows the stored value...
Load ==
    /\ state = "closed" /\ state' = "open"
    /\ ~alone /\ view' = stored
    /\ UNCHANGED <<stored, alone, arg>>

\* ...unless only the backup holds it, and the load misses that.
LoadBlind ==
    /\ state = "closed" /\ state' = "open"
    /\ alone /\ view' = Empty
    /\ UNCHANGED <<stored, alone, arg>>

\* The copy in memory may be edited ahead of the save.
Begin ==
    /\ state = "open" /\ state' = "saving"
    /\ arg' \in Values
    /\ view' \in {view, arg'}
    /\ UNCHANGED <<stored, alone>>

\* Only these two steps change what is stored.
Publish ==
    /\ state = "saving" /\ state' = "saved"
    /\ stored' = arg /\ alone' = FALSE
    /\ UNCHANGED <<arg, view>>

Lose ==
    /\ state = "saving"
    /\ alone /\ stored' = Empty /\ alone' = FALSE
    /\ UNCHANGED <<state, arg, view>>

SaveSucceeds ==
    /\ state = "saved" /\ state' = "open"
    /\ view' = arg
    /\ UNCHANGED <<stored, alone, arg>>

SaveFails ==
    /\ state = "saving" /\ state' = "open"
    /\ alone' \in {alone, TRUE}
    /\ UNCHANGED <<stored, arg, view>>

\* A release or a reset at any moment.
Close ==
    /\ state' = "closed" /\ arg' = Empty /\ view' = Empty
    /\ alone' \in {alone, state = "saving" \/ alone}
    /\ UNCHANGED stored

DurableNext ==
    \/ Restore \/ Load \/ LoadBlind \/ Begin \/ Publish \/ Lose
    \/ SaveSucceeds \/ SaveFails \/ Close

DurableSpec == DurableInit /\ [][DurableNext]_durableVars
=============================================================================
