--------------------------- MODULE SyncCoordinator ---------------------------
(***************************************************************************)
(* The runtime sync state machine of revlink_sync                          *)
(* (firmware/components/revlink_sync/revlink_sync_coordinator.c): one      *)
(* request at a time is handed to the transport, whose progress and        *)
(* terminal events move the snapshot on.                                   *)
(*                                                                         *)
(* The snapshot keeps the state and the close-recovery mark; the counters  *)
(* it copies from the events are only displayed.                           *)
(***************************************************************************)
VARIABLES
    sync,     \* revlink_sync_snapshot_t
    policy    \* revlink_sync_policy_t.auto_sync_on_attach

SyncStates == {"IDLE", "QUEUED", "RUNNING", "CANCELLING",
               "COMPLETED", "FAILED", "CANCELLED"}
TerminalKinds == {"COMPLETED", "FAILED", "CANCELLED"}
SyncEventKinds == {"STARTED", "PROGRESS"} \union TerminalKinds

SyncSnapshot == [state : SyncStates, recovery : BOOLEAN]

(***************************************************************************)
(* An event: its kind and what the handlers read of its counters.  moved   *)
(* stands for downloaded # 0 or downloaded_bytes # 0.                      *)
(***************************************************************************)
SyncEvent == [kind : SyncEventKinds, recovery : BOOLEAN,
              dataDone : BOOLEAN, closeAck : BOOLEAN, moved : BOOLEAN]

SyncTypeOK == sync \in SyncSnapshot /\ policy \in BOOLEAN

SyncInit == sync = [state |-> "IDLE", recovery |-> FALSE] /\ policy \in BOOLEAN

is_active(state) == state \in {"QUEUED", "RUNNING", "CANCELLING"}

\* request_operation once the transport has accepted the request.
Queued(recovery) == [state |-> "QUEUED", recovery |-> recovery]

\* revlink_sync_coordinator_cancel is refused outside these states.
Cancellable(s) == s.state \in {"QUEUED", "RUNNING"}

\* revlink_sync_coordinator_cancel once the transport has accepted it.
Cancelling(s) == [s EXCEPT !.state = "CANCELLING"]

\* The guards of revlink_sync_coordinator_handle_event.
SyncAccepts(s, ev) ==
    /\ ev.kind = "STARTED" => s.state \in {"QUEUED", "CANCELLING"}
    /\ ev.kind = "PROGRESS" => s.state \in {"RUNNING", "CANCELLING"}
    /\ ev.kind = "COMPLETED" => s.state = "RUNNING"
    /\ ev.kind \in {"FAILED", "CANCELLED"} => is_active(s.state)

\* The snapshot after an accepted event.  A started or progressing transfer
\* does not take a cancelling sync back to running.
SyncAfter(s, ev) ==
    [state |-> CASE ev.kind \in TerminalKinds -> ev.kind
                 [] ev.kind = "STARTED" /\ s.state = "QUEUED" -> "RUNNING"
                 [] OTHER -> s.state,
     recovery |-> ev.recovery]
=============================================================================
