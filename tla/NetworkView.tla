----------------------------- MODULE NetworkView -----------------------------
(***************************************************************************)
(* What revlink_network_runtime.h promises the tasks that look at the      *)
(* network or ask it for a station: a call has the network to itself, ends *)
(* in the end, and leaves a hotspot half started only while there is no    *)
(* credential to start it with.  NetworkRuntime implements it.             *)
(***************************************************************************)
VARIABLES
    view,      \* the coordinator's state, as far as its users tell states apart
    holder,    \* who has runtime_mutex: a call for a station, another, or nobody
    creds      \* the hotspot's credential has been configured

viewVars == <<view, holder, creds>>

Views == {"HOTSPOT_STARTING", "HOTSPOT_READY", "CLIENT_READY", "OTHER"}

ViewTypeOK ==
    /\ view \in Views
    /\ holder \in {"off", "free", "join", "other"}
    /\ creds \in BOOLEAN

ViewInit == view = "OTHER" /\ holder = "off" /\ creds = FALSE

Held == holder \in {"join", "other"}

view_boots ==
    /\ holder = "off" /\ holder' = "other"
    /\ UNCHANGED <<view, creds>>

\* A call takes the mutex, and may change the network from there on.
view_take(who) ==
    /\ holder = "free" /\ holder' = who
    /\ view' \in Views
    /\ UNCHANGED creds

view_work ==
    /\ Held /\ view' \in Views
    /\ UNCHANGED <<holder, creds>>

view_release ==
    /\ Held /\ holder' = "free"
    /\ view' \in Views /\ (view' = "HOTSPOT_STARTING" => ~creds)
    /\ UNCHANGED creds

\* The credential comes: a hotspot that waited for it is started by the same call.
view_credential ==
    /\ holder = "free" /\ creds' = TRUE
    /\ holder' = IF view = "HOTSPOT_STARTING" THEN "other" ELSE "free"
    /\ UNCHANGED view

view_restarts ==
    /\ holder # "off" /\ holder' = "off"
    /\ view' = "OTHER" /\ creds' = FALSE

ViewNext ==
    \/ view_boots \/ view_work \/ view_release \/ view_credential \/ view_restarts
    \/ \E who \in {"join", "other"} : view_take(who)

ViewSpec == ViewInit /\ [][ViewNext]_viewVars /\ WF_viewVars(view_boots) /\ WF_viewVars(view_release)
=============================================================================
