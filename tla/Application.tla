----------------------------- MODULE Application -----------------------------
(***************************************************************************)
(* revlink_application (firmware/components/revlink_application): the      *)
(* product policy that joins the device lifecycle to the sync coordinator. *)
(* It decides when a sync starts by itself, which attach boundary re-arms  *)
(* it, what a second AccessPort disarms, and when an unclean read-only     *)
(* close earns its one recovery session.                                   *)
(*                                                                         *)
(* Every handler runs to completion on the task that calls it, so each is  *)
(* one action here; the interleavings of the tasks inside the handlers are *)
(* the subject of UsbSync.  previous_device_state always equals the state  *)
(* the snapshot had before the event and is read from there.               *)
(***************************************************************************)
EXTENDS DeviceService, SyncCoordinator

CONSTANTS
    AUTO_SYNC_RETRY_LIMIT,              \* REVLINK_AUTO_SYNC_RETRY_LIMIT
    retry_unclean_readonly_close_once   \* the configuration flag of that name

ASSUME RetryLimitAssumption == AUTO_SYNC_RETRY_LIMIT \in Nat
ASSUME RecoveryFlagAssumption == retry_unclean_readonly_close_once \in BOOLEAN

VARIABLES
    app,    \* the flags of revlink_application_t
    hist    \* history: what was started since the last boundary or request

vars == <<device, sync, policy, app, hist>>

AppFlags == [attempted : BOOLEAN,          \* auto_sync_attempted
             active : BOOLEAN,             \* auto_sync_active
             retryEligible : BOOLEAN,      \* auto_sync_retry_eligible
             retryCount : Nat,             \* auto_sync_retry_count
             disarmed : BOOLEAN,           \* auto_sync_disarmed_by_conflict
             preserve : BOOLEAN,           \* preserve_attachment_across_reenumeration
             recovered : BOOLEAN]          \* unclean_close_recovery_attempted

(***************************************************************************)
(* hist.autoRuns counts the automatic requests the transport accepted      *)
(* since the last genuine attach or detach; hist.recoveries the            *)
(* close-recovery sessions started since the last ordinary request;        *)
(* hist.conflict tells that a second AccessPort was reported since the     *)
(* owner last asked for a sync.                                            *)
(***************************************************************************)
History == [autoRuns : Nat, recoveries : Nat, conflict : BOOLEAN]

AppTypeOK ==
    /\ DeviceTypeOK
    /\ SyncTypeOK
    /\ app \in AppFlags
    /\ hist \in History

Init ==
    /\ DeviceInit
    /\ SyncInit
    /\ app = [attempted |-> FALSE, active |-> FALSE, retryEligible |-> FALSE,
              retryCount |-> 0, disarmed |-> FALSE, preserve |-> FALSE,
              recovered |-> FALSE]
    /\ hist = [autoRuns |-> 0, recoveries |-> 0, conflict |-> FALSE]

(***************************************************************************)
(* The device events the USB adapter publishes: an attach report of a      *)
(* device whose configuration does not match carries no revision, every    *)
(* other topology report does; a conflict report counts at least two.      *)
(* Fields that no handler reads are fixed.                                 *)
(***************************************************************************)
AdapterEvents ==
    {ev \in DeviceEvent :
        /\ ev.kind \in PlainKinds =>
              ev.identity = NoIdentity /\ ev.count = 0 /\ ev.revision = 0 /\ ~ev.soft
        /\ ev.kind \in {"ATTACHED", "ACCEPTED"} => ev.identity # NoIdentity /\ ev.count = 1
        /\ ev.kind = "ACCEPTED" => ~ev.soft /\ ev.revision # 0
        /\ ev.kind = "DETACHED" => ev.identity = NoIdentity /\ ev.revision # 0
        /\ ev.kind = "MULTIPLE_DETECTED" =>
              ev.identity = NoIdentity /\ ev.revision # 0 /\ ev.count >= 2 /\ ~ev.soft}

(***************************************************************************)
(* The sync events it publishes: progress only in an ordinary session,     *)
(* completion and cancellation only after an acknowledged close, a data    *)
(* phase only outside a close recovery.                                    *)
(***************************************************************************)
AdapterSyncEvents ==
    {ev \in SyncEvent :
        /\ ev.kind \in {"STARTED", "PROGRESS"} => ~ev.dataDone /\ ~ev.closeAck
        /\ ev.kind = "STARTED" => ~ev.moved
        /\ ev.kind = "PROGRESS" => ~ev.recovery
        /\ ev.kind = "COMPLETED" => ev.closeAck /\ (ev.recovery \/ ev.dataDone)
        /\ ev.kind = "CANCELLED" => ev.closeAck
        /\ ev.recovery => ~ev.dataDone /\ ~ev.moved}

(***************************************************************************)
(* Device events                                                           *)
(***************************************************************************)

\* A plausible slip: the conflict stops the current attempt only.
DisarmOnConflictForgotten(a, ev) ==
    IF ev.kind = "MULTIPLE_DETECTED"
    THEN [a EXCEPT !.preserve = FALSE, !.attempted = TRUE, !.active = FALSE,
                   !.retryEligible = FALSE]
    ELSE a

\* The flags a conflict report sets, before the device service sees it.
DisarmOnConflict(a, ev) ==
    IF ev.kind = "MULTIPLE_DETECTED"
    THEN [a EXCEPT !.preserve = FALSE, !.attempted = TRUE, !.active = FALSE,
                   !.retryEligible = FALSE, !.disarmed = TRUE]
    ELSE a

\* A software re-enumeration keeps the attachment, a genuine boundary ends it.
ClassifyBoundary(a, ev) ==
    IF ev.kind \in {"ATTACHED", "DETACHED"} THEN [a EXCEPT !.preserve = ev.soft] ELSE a

\* handle_device_snapshot: the boundary re-arms automatic sync.
\* before is the state of the device ahead of the event, after the one it left.
RearmAtBoundary(a, before, after) ==
    IF /\ after = "WAITING" \/ (after = "INSPECTING" /\ before = "WAITING")
       /\ ~a.preserve
       /\ ~a.disarmed
    THEN [a EXCEPT !.attempted = FALSE, !.active = FALSE,
                   !.retryEligible = FALSE, !.retryCount = 0]
    ELSE a

\* request_automatic_sync: the flags after the coordinator's answer.
request_automatic_sync(a, retry, granted) ==
    LET counted == [a EXCEPT !.retryCount = IF retry THEN @ + 1 ELSE @,
                             !.retryEligible = FALSE]
    IN IF granted
       THEN [counted EXCEPT !.attempted = TRUE, !.active = TRUE, !.recovered = FALSE]
       ELSE [counted EXCEPT !.retryEligible = ~retry]

\* The coordinator hands a request to the transport only when it is idle.
Granted(ok) == ok /\ ~is_active(sync.state)

Accepts(ev) == DeviceAccepts(device, ev)

\* The attach-time automatic request of handle_device_snapshot.
AttachSync(a, ev) ==
    /\ Accepts(ev)
    /\ device.state = "INSPECTING"
    /\ DeviceAfter(device, ev).state = "AVAILABLE"
    /\ policy
    /\ ~a.attempted

\* The conflict report cancels the sync in flight.
ConflictCancels(ev) == ev.kind = "MULTIPLE_DETECTED" /\ Cancellable(sync)

(***************************************************************************)
(* revlink_application_handle_device_event.  ok is the transport's answer  *)
(* to whichever call the handler makes.                                    *)
(***************************************************************************)
handle_device_event(ev, ok) ==
    LET flags   == ClassifyBoundary(DisarmOnConflict(app, ev), ev)
        after   == DeviceAfter(device, ev).state
        rearmed == IF Accepts(ev) THEN RearmAtBoundary(flags, device.state, after) ELSE flags
        request == AttachSync(rearmed, ev)
        asked   == IF request THEN request_automatic_sync(rearmed, FALSE, Granted(ok))
                              ELSE rearmed
        settled == Accepts(ev) /\ device.state = "INSPECTING" /\ after = "AVAILABLE"
        genuine == Accepts(ev) /\ ev.kind \in {"ATTACHED", "DETACHED"} /\ ~ev.soft
    IN /\ ~(ev.revision # 0 /\ ev.revision < device.revision)
       /\ device_service_handle(ev)
       /\ app' = IF settled THEN [asked EXCEPT !.preserve = FALSE] ELSE asked
       /\ sync' = CASE ConflictCancels(ev) /\ ok -> Cancelling(sync)
                    [] request /\ Granted(ok) -> Queued(FALSE)
                    [] OTHER -> sync
       /\ hist' = [autoRuns |-> IF genuine THEN 0
                                ELSE IF request /\ Granted(ok) THEN hist.autoRuns + 1
                                ELSE hist.autoRuns,
                   recoveries |-> IF request /\ Granted(ok) THEN 0 ELSE hist.recoveries,
                   conflict |-> hist.conflict \/ ev.kind = "MULTIPLE_DETECTED"]
       /\ UNCHANGED policy

(***************************************************************************)
(* Requests                                                                *)
(***************************************************************************)

\* The flags an accepted manual request leaves.
ManualFlags(a) ==
    [a EXCEPT !.attempted = TRUE, !.active = FALSE, !.retryEligible = FALSE,
              !.disarmed = FALSE, !.recovered = FALSE]

\* revlink_application_request_sync: a manual request, which also re-arms
\* automatic sync after a conflict.
request_sync(ok) ==
    /\ device.state = "AVAILABLE"
    /\ Granted(ok)
    /\ sync' = Queued(FALSE)
    /\ app' = ManualFlags(app)
    /\ hist' = [hist EXCEPT !.recoveries = 0, !.conflict = FALSE]
    /\ UNCHANGED <<device, policy>>

auto_sync_retry_needed ==
    /\ policy
    /\ ~app.disarmed
    /\ app.retryEligible
    /\ app.retryCount < AUTO_SYNC_RETRY_LIMIT
    /\ device.state = "AVAILABLE"
    /\ ~device.recoveryRequired
    /\ ~is_active(sync.state)

\* revlink_application_retry_auto_sync
retry_auto_sync(ok) ==
    /\ auto_sync_retry_needed
    /\ app' = request_automatic_sync(app, TRUE, Granted(ok))
    /\ sync' = IF Granted(ok) THEN Queued(FALSE) ELSE sync
    /\ hist' = IF Granted(ok) THEN [hist EXCEPT !.autoRuns = @ + 1, !.recoveries = 0] ELSE hist
    /\ UNCHANGED <<device, policy>>

\* revlink_application_cancel_sync
cancel_sync(ok) ==
    /\ Cancellable(sync)
    /\ ok
    /\ sync' = Cancelling(sync)
    /\ UNCHANGED <<device, policy, app, hist>>

\* revlink_application_set_sync_policy
set_sync_policy(enabled) ==
    /\ policy' = enabled
    /\ app' = IF enabled THEN app ELSE [app EXCEPT !.active = FALSE, !.retryEligible = FALSE]
    /\ UNCHANGED <<device, sync, hist>>

(***************************************************************************)
(* Sync events                                                             *)
(***************************************************************************)

\* An attach-time sync that moved nothing may be tried once more; every other
\* terminal event ends the automatic attempt.
AutoAfterSyncEvent(a, ev) ==
    IF /\ ev.kind = "FAILED" /\ a.active /\ ~ev.recovery /\ ~ev.dataDone /\ ~ev.moved
       /\ a.retryCount < AUTO_SYNC_RETRY_LIMIT
    THEN [a EXCEPT !.retryEligible = TRUE]
    ELSE IF ev.kind \in TerminalKinds
         THEN [a EXCEPT !.active = FALSE, !.retryEligible = FALSE]
         ELSE a

\* The data phase finished but the AccessPort did not acknowledge the close.
RecoverableClose(ev) ==
    ev.kind = "FAILED" /\ ~ev.recovery /\ ev.dataDone /\ ~ev.closeAck

\* A plausible slip: recovery is due whenever a close is unclean.
RecoveryDueAlways(a, ev) ==
    /\ retry_unclean_readonly_close_once
    /\ RecoverableClose(ev)
    /\ device.state = "AVAILABLE"

\* Whether handle_sync_event starts the one close-recovery session.
RecoveryDue(a, ev) ==
    /\ retry_unclean_readonly_close_once
    /\ RecoverableClose(ev)
    /\ ~a.recovered
    /\ device.state = "AVAILABLE"
    /\ ~device.recoveryRequired

\* revlink_application_handle_sync_event
handle_sync_event(ev, ok) ==
    LET flags == AutoAfterSyncEvent(app, ev)
        due   == RecoveryDue(flags, ev)
    IN /\ SyncAccepts(sync, ev)
       /\ sync' = IF due /\ ok THEN Queued(TRUE) ELSE SyncAfter(sync, ev)
       /\ app' = IF due THEN [flags EXCEPT !.recovered = TRUE] ELSE flags
       /\ hist' = IF due /\ ok THEN [hist EXCEPT !.recoveries = @ + 1] ELSE hist
       /\ UNCHANGED <<device, policy>>

(***************************************************************************)
(* Specification                                                           *)
(***************************************************************************)

Next ==
    \/ \E ev \in AdapterEvents, ok \in BOOLEAN : handle_device_event(ev, ok)
    \/ \E ok \in BOOLEAN : request_sync(ok)
    \/ \E ok \in BOOLEAN : retry_auto_sync(ok)
    \/ \E ok \in BOOLEAN : cancel_sync(ok)
    \/ \E enabled \in BOOLEAN : set_sync_policy(enabled)
    \/ \E ev \in AdapterSyncEvents, ok \in BOOLEAN : handle_sync_event(ev, ok)

Spec == Init /\ [][Next]_vars

(***************************************************************************)
(* Properties                                                              *)
(***************************************************************************)

\* One physical attachment gets one automatic sync and at most the configured
\* number of retries, whatever re-enumerations, policy changes, cancellations
\* and refused requests happen meanwhile (request_automatic_sync,
\* handle_device_snapshot).
AutoSyncBounded == hist.autoRuns <= 1 + AUTO_SYNC_RETRY_LIMIT

\* After a second AccessPort was seen no automatic sync starts until the owner
\* asks for one, through any number of detaches and attaches.
ConflictDisarms ==
    [][hist'.autoRuns > hist.autoRuns => ~hist.conflict]_vars

\* Each ordinary request earns at most one close-recovery session, so a
\* recovery that fails uncleanly itself cannot start another.
OneRecovery == hist.recoveries <= 1

\* No sync, automatic, manual, retried or recovering, is queued unless exactly
\* one accepted AccessPort is idle.
QueuedOnlyWhenAvailable ==
    [][sync'.state = "QUEUED" /\ sync.state # "QUEUED"
          => device'.state = "AVAILABLE" /\ device'.count = 1]_vars

\* The recovery mark of the snapshot and the conflict state are set and cleared
\* together, so that every reader of either one blocks the same operations.
ConflictMarked == device.recoveryRequired <=> device.state = "CONFLICT"

\* A conflict ends only with a report that no eligible device is left.
ConflictLatched ==
    [][device.state = "CONFLICT" /\ device'.state # "CONFLICT"
          => device'.state = "WAITING" /\ device'.count = 0]_vars

\* 1 when a flag is set: the first, uncounted automatic run.
One(flag) == IF flag THEN 1 ELSE 0

(***************************************************************************)
(* The inductive invariant.  AutoSyncBounded and OneRecovery are not       *)
(* inductive: what bounds the runs is that each of them is accounted for   *)
(* by auto_sync_attempted or auto_sync_retry_count, and those are cleared  *)
(* only where the attachment ends.                                         *)
(***************************************************************************)
RunsAccounted ==
    /\ app.retryCount <= AUTO_SYNC_RETRY_LIMIT
    /\ hist.autoRuns <= One(app.attempted) + app.retryCount
    /\ device.state = "STOPPED" => hist.autoRuns = 0

RecoveriesAccounted == hist.recoveries <= One(app.recovered)

\* A conflict disarms, and what is disarmed counts as attempted.
DisarmedIsAttempted == (hist.conflict => app.disarmed) /\ (app.disarmed => app.attempted)

OpenDeviceIsSingle == device.state \in {"AVAILABLE", "SESSION_ACTIVE"} => device.count = 1

IInv ==
    /\ AppTypeOK
    /\ RunsAccounted
    /\ RecoveriesAccounted
    /\ DisarmedIsAttempted
    /\ ConflictMarked
    /\ OpenDeviceIsSingle
=============================================================================
