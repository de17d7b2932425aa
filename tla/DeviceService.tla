---------------------------- MODULE DeviceService ----------------------------
(***************************************************************************)
(* The AccessPort lifecycle kept by revlink_core                           *)
(* (firmware/components/revlink_core/revlink_device_service.c).  The USB   *)
(* adapter reports topology and session events; the service keeps one      *)
(* snapshot and refuses every event that does not fit it.                  *)
(*                                                                         *)
(* An identity stands for the four fields identity_matches compares        *)
(* (vendor, product, USB address, attachment generation); NoIdentity is    *)
(* the zeroed structure.  last_platform_error is only displayed and is     *)
(* left out.                                                               *)
(***************************************************************************)
EXTENDS Integers

CONSTANTS
    Identities,   \* identities of the attachments that can occur
    NoIdentity,   \* the memset(0) identity
    MaxRevision,  \* bound on the topology revision of an event, for TLC
    MaxCount      \* bound on the number of eligible devices in an event, for TLC

ASSUME IdentityAssumption == NoIdentity \notin Identities
ASSUME RevisionAssumption == MaxRevision \in Nat
ASSUME CountAssumption == MaxCount \in Nat /\ MaxCount >= 2

VARIABLE device   \* revlink_device_snapshot_t

DeviceStates == {"STOPPED", "WAITING", "INSPECTING", "AVAILABLE",
                 "SESSION_ACTIVE", "CONFLICT", "FAULTED"}

(***************************************************************************)
(* The events of revlink_device_event_t, and those among them that a       *)
(* bounded run enumerates.  Revision 0 means that the event carries none.  *)
(***************************************************************************)
TopologyKinds == {"ATTACHED", "ACCEPTED", "DETACHED", "MULTIPLE_DETECTED"}
PlainKinds == {"MONITOR_STARTED", "SESSION_OPENED", "SESSION_CLOSED", "FAILURE"}

DeviceEventOver(counts, revisions) ==
    [kind : TopologyKinds \union PlainKinds, identity : Identities \union {NoIdentity},
     count : counts, revision : revisions, soft : BOOLEAN]

AnyDeviceEvent == DeviceEventOver(Nat, Nat)
DeviceEvent == DeviceEventOver(0..MaxCount, 0..MaxRevision)

DeviceSnapshot == [state : DeviceStates,
                   identity : Identities \union {NoIdentity},
                   count : Nat,
                   revision : Nat,
                   recoveryRequired : BOOLEAN]

DeviceTypeOK == device \in DeviceSnapshot

DeviceInit ==
    device = [state |-> "STOPPED", identity |-> NoIdentity, count |-> 0,
              revision |-> 0, recoveryRequired |-> FALSE]

event_has_topology_revision(ev) == ev.kind \in TopologyKinds

\* A revisioned event older than the snapshot is refused before anything else.
StaleRevision(d, ev) ==
    /\ event_has_topology_revision(ev)
    /\ ev.revision # 0
    /\ ev.revision < d.revision

\* The guards of the switch: the transitions that are not INVALID_TRANSITION.
DeviceAccepts(d, ev) ==
    /\ ~StaleRevision(d, ev)
    /\ ev.kind = "MONITOR_STARTED" => d.state = "STOPPED"
    /\ ev.kind = "ATTACHED" => d.state = "WAITING"
    /\ ev.kind = "ACCEPTED" => d.state = "INSPECTING" /\ ev.identity = d.identity
    /\ ev.kind = "SESSION_OPENED" => d.state = "AVAILABLE"
    /\ ev.kind = "SESSION_CLOSED" => d.state \in {"SESSION_ACTIVE", "CONFLICT"}
    /\ ev.kind = "DETACHED" => d.state \notin {"STOPPED", "WAITING"}
    /\ ev.kind = "MULTIPLE_DETECTED" => d.state # "STOPPED" /\ ev.count >= 2

\* A plausible slip: any detach opens the conflict latch.
AfterDetachAlwaysOpens(d, ev) ==
    [d EXCEPT !.count = ev.count, !.recoveryRequired = FALSE,
              !.identity = NoIdentity, !.state = "WAITING"]

\* A detach: in a conflict the latch opens only when no eligible device is left.
AfterDetach(d, ev) ==
    IF d.state = "CONFLICT"
    THEN IF ev.count # 0
         THEN [d EXCEPT !.count = ev.count]
         ELSE [d EXCEPT !.count = 0, !.recoveryRequired = FALSE,
                        !.identity = NoIdentity, !.state = "WAITING"]
    ELSE [d EXCEPT !.count = 0, !.identity = NoIdentity, !.state = "WAITING"]

\* The assignments of the switch, for an accepted event.
AfterEvent(d, ev) ==
    CASE ev.kind = "MONITOR_STARTED" -> [d EXCEPT !.state = "WAITING"]
      [] ev.kind = "ATTACHED" ->
            [d EXCEPT !.identity = ev.identity, !.count = 0, !.state = "INSPECTING"]
      [] ev.kind = "ACCEPTED" ->
            [d EXCEPT !.identity = ev.identity, !.count = 1, !.state = "AVAILABLE"]
      [] ev.kind = "SESSION_OPENED" -> [d EXCEPT !.state = "SESSION_ACTIVE"]
      [] ev.kind = "SESSION_CLOSED" ->
            IF d.state = "CONFLICT" THEN d ELSE [d EXCEPT !.state = "AVAILABLE"]
      [] ev.kind = "DETACHED" -> AfterDetach(d, ev)
      [] ev.kind = "MULTIPLE_DETECTED" ->
            [d EXCEPT !.identity = NoIdentity, !.count = ev.count,
                      !.recoveryRequired = TRUE, !.state = "CONFLICT"]
      [] ev.kind = "FAILURE" ->
            IF d.state = "CONFLICT" THEN d ELSE [d EXCEPT !.state = "FAULTED"]

\* The snapshot after an accepted event, its topology revision included.
DeviceAfter(d, ev) ==
    LET next == AfterEvent(d, ev)
    IN IF event_has_topology_revision(ev) /\ ev.revision # 0
       THEN [next EXCEPT !.revision = ev.revision]
       ELSE next

(***************************************************************************)
(* revlink_device_service_handle: an accepted event replaces the snapshot, *)
(* a refused one leaves it alone.                                          *)
(***************************************************************************)
device_service_handle(ev) ==
    device' = IF DeviceAccepts(device, ev) THEN DeviceAfter(device, ev) ELSE device
=============================================================================
