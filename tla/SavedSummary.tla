---------------------------- MODULE SavedSummary ----------------------------
(***************************************************************************)
(* What a summary promises its reader: it is saved once, and every message *)
(* that was kept of the collection is either used by it or excluded from   *)
(* it with a reason.  Nothing is said of clusters, batches or models.      *)
(***************************************************************************)
VARIABLES
    kept,
    state,      \* open, saved or failed
    used, excluded

vars == <<kept, state, used, excluded>>

Init == state = "open" /\ used = {} /\ excluded = {}

Save == /\ state = "open"
        /\ state' = "saved"
        /\ used' \cup excluded' = kept
        /\ used' \cap excluded' = {}
        /\ UNCHANGED kept

Fail == /\ state = "open"
        /\ state' = "failed"
        /\ UNCHANGED <<kept, used, excluded>>

Spec == Init /\ [][Save \/ Fail]_vars
=============================================================================
