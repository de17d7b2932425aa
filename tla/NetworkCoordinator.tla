-------------------------- MODULE NetworkCoordinator --------------------------
(***************************************************************************)
(* The Wi-Fi policy of revlink_network                                     *)
(* (firmware/components/revlink_network/revlink_network_coordinator.c):    *)
(* prefer the saved network, keep a lost one for a bounded time, fall back *)
(* to the hotspot, and leave the mode alone while a file transfer runs.    *)
(*                                                                         *)
(* One action per event of revlink_network_coordinator_handle; its guard   *)
(* is what the code does not refuse with INVALID_STATE or TRANSFER_LOCKED, *)
(* and act' is the action the code returns.  Time counts in runtime ticks; *)
(* the counters are reset long before they would saturate.                 *)
(***************************************************************************)
EXTENDS Integers

CONSTANTS
    NetworkIds,                 \* opaque handles of station networks
    NoNetwork,                  \* handle 0
    STARTUP_TIMEOUT,            \* startup_timeout_ms
    STARTUP_ATTEMPT_LIMIT,      \* startup_attempt_limit
    RECONNECT_TIMEOUT,          \* reconnect_timeout_ms
    HEALTH_PROBE_INTERVAL,      \* health_probe_interval_ms
    HEALTH_FAILURE_THRESHOLD    \* health_failure_threshold

ASSUME NetworkAssumption == NoNetwork \notin NetworkIds

\* revlink_network_coordinator_init refuses a configuration with a zero.
ASSUME ConfigAssumption ==
    /\ STARTUP_TIMEOUT \in Nat \ {0}
    /\ STARTUP_ATTEMPT_LIMIT \in Nat \ {0}
    /\ RECONNECT_TIMEOUT \in Nat \ {0}
    /\ HEALTH_PROBE_INTERVAL \in Nat \ {0}
    /\ HEALTH_FAILURE_THRESHOLD \in Nat \ {0}

VARIABLES
    net,    \* revlink_network_snapshot_t
    act     \* the revlink_network_action_t handed back

NetStates == {"STOPPED", "SEARCHING", "CONNECTING", "CLIENT_READY", "RECONNECTING",
              "HOTSPOT_STARTING", "HOTSPOT_READY", "FAULTED"}

NetSnapshot == [state : NetStates, selected : NetworkIds \union {NoNetwork},
                elapsed : Nat, timeout : Nat, attempts : Nat, health : Nat,
                failures : Nat, transfer : BOOLEAN]

ActionKinds == {"NONE", "SCAN_SAVED", "CONNECT_SAVED", "RECOVER_SAVED", "PROBE_CLIENT",
                "START_HOTSPOT", "STOP_RADIO"}

Action == [kind : ActionKinds, id : NetworkIds \union {NoNetwork}]

\* An action that names no network.
Plain(kind) == [kind |-> kind, id |-> NoNetwork]

NetStopped == [state |-> "STOPPED", selected |-> NoNetwork, elapsed |-> 0, timeout |-> 0,
               attempts |-> 0, health |-> 0, failures |-> 0, transfer |-> FALSE]

PhaseTimeout(state) ==
    IF state \in {"SEARCHING", "CONNECTING"} THEN STARTUP_TIMEOUT
    ELSE IF state = "RECONNECTING" THEN RECONNECT_TIMEOUT ELSE 0

transition(n, state) ==
    [n EXCEPT !.state = state, !.elapsed = 0, !.timeout = PhaseTimeout(state),
              !.health = IF state = "CLIENT_READY" THEN @ ELSE 0]

request_hotspot(n) == [transition(n, "HOTSPOT_STARTING") EXCEPT !.selected = NoNetwork]

is_ready_state(state) == state \in {"CLIENT_READY", "HOTSPOT_READY"}

Joining(n) == n.state \in {"CONNECTING", "RECONNECTING"}

(***************************************************************************)
(* The events                                                              *)
(***************************************************************************)

net_start ==
    /\ net.state \in {"STOPPED", "FAULTED"}
    /\ net' = transition([net EXCEPT !.selected = NoNetwork, !.attempts = 0,
                                     !.transfer = FALSE], "SEARCHING")
    /\ act' = Plain("SCAN_SAVED")

net_scan_selected(id) ==
    /\ net.state = "SEARCHING"
    /\ net' = transition([net EXCEPT !.selected = id, !.attempts = 1], "CONNECTING")
    /\ act' = [kind |-> "CONNECT_SAVED", id |-> id]

net_scan_empty ==
    /\ net.state = "SEARCHING"
    /\ net' = request_hotspot(net)
    /\ act' = Plain("START_HOTSPOT")

net_client_connected ==
    /\ Joining(net)
    /\ net' = transition([net EXCEPT !.health = 0, !.failures = 0], "CLIENT_READY")
    /\ act' = Plain("NONE")

\* A failed reconnect keeps its grace period; a failed startup is retried up to
\* the limit and then gives way to the hotspot.
net_client_failed ==
    /\ Joining(net)
    /\ IF net.state = "RECONNECTING"
       THEN net' = net /\ act' = Plain("NONE")
       ELSE IF net.attempts < STARTUP_ATTEMPT_LIMIT
            THEN /\ net' = transition([net EXCEPT !.attempts = @ + 1], "CONNECTING")
                 /\ act' = [kind |-> "RECOVER_SAVED", id |-> net.selected]
            ELSE net' = request_hotspot(net) /\ act' = Plain("START_HOTSPOT")

net_client_lost ==
    /\ net.state = "CLIENT_READY" /\ net.selected # NoNetwork
    /\ net' = transition(net, "RECONNECTING")
    /\ act' = [kind |-> "CONNECT_SAVED", id |-> net.selected]

net_client_healthy ==
    /\ net.state = "CLIENT_READY"
    /\ net' = [net EXCEPT !.failures = 0]
    /\ act' = Plain("NONE")

net_client_unhealthy ==
    /\ net.state = "CLIENT_READY" /\ ~net.transfer
    /\ LET failed == [net EXCEPT !.failures = @ + 1]
       IN IF failed.failures >= HEALTH_FAILURE_THRESHOLD
          THEN /\ net' = transition(failed, "RECONNECTING")
               /\ act' = [kind |-> "RECOVER_SAVED", id |-> net.selected]
          ELSE net' = failed /\ act' = Plain("NONE")

net_hotspot_started ==
    /\ net.state = "HOTSPOT_STARTING"
    /\ net' = transition(net, "HOTSPOT_READY")
    /\ act' = Plain("NONE")

net_hotspot_failed ==
    /\ net.state = "HOTSPOT_STARTING"
    /\ net' = transition(net, "FAULTED")
    /\ act' = Plain("NONE")

\* A plausible slip: the transfer lock is not asked.
RetryAllowed_unlocked(n) == is_ready_state(n.state)

RetryAllowed(n) == is_ready_state(n.state) /\ ~n.transfer

net_retry_saved ==
    /\ RetryAllowed(net)
    /\ net' = transition([net EXCEPT !.selected = NoNetwork], "SEARCHING")
    /\ act' = Plain("SCAN_SAVED")

net_force_hotspot ==
    /\ net.state \notin {"STOPPED", "HOTSPOT_STARTING", "HOTSPOT_READY"} /\ ~net.transfer
    /\ net' = request_hotspot(net)
    /\ act' = Plain("START_HOTSPOT")

net_transfer_started ==
    /\ is_ready_state(net.state) /\ ~net.transfer
    /\ net' = [net EXCEPT !.transfer = TRUE]
    /\ act' = Plain("NONE")

net_transfer_finished ==
    /\ net.transfer
    /\ net' = [net EXCEPT !.transfer = FALSE]
    /\ act' = Plain("NONE")

\* handle_tick in CLIENT_READY: the probe interval runs outside transfers only.
tick_ready ==
    IF net.transfer
    THEN net' = [net EXCEPT !.health = 0] /\ act' = Plain("NONE")
    ELSE IF net.health + 1 >= HEALTH_PROBE_INTERVAL
         THEN /\ net' = [net EXCEPT !.health = 0]
              /\ act' = [kind |-> "PROBE_CLIENT", id |-> net.selected]
         ELSE net' = [net EXCEPT !.health = @ + 1] /\ act' = Plain("NONE")

\* handle_tick in a timed phase.
tick_phase ==
    LET later == [net EXCEPT !.elapsed = @ + 1]
    IN IF later.elapsed >= net.timeout
       THEN net' = request_hotspot(later) /\ act' = Plain("START_HOTSPOT")
       ELSE net' = later /\ act' = Plain("NONE")

\* A plausible slip: the reconnect phase is not among the timed ones.
handle_tick_forgets_reconnect ==
    IF net.state = "CLIENT_READY" THEN tick_ready
    ELSE IF net.state \in {"SEARCHING", "CONNECTING"} THEN tick_phase
    ELSE net' = net /\ act' = Plain("NONE")

handle_tick ==
    IF net.state = "CLIENT_READY" THEN tick_ready
    ELSE IF net.state \in {"SEARCHING", "CONNECTING", "RECONNECTING"} THEN tick_phase
    ELSE net' = net /\ act' = Plain("NONE")

net_stop ==
    /\ net' = NetStopped
    /\ act' = Plain("STOP_RADIO")
=============================================================================
