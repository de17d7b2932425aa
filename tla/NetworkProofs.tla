---------------------------- MODULE NetworkProofs ----------------------------
(***************************************************************************)
(* Proofs about NetworkRuntime, for every set of networks, every timeout   *)
(* and every attempt limit that leaves execute_action three iterations     *)
(* more than it has attempts, and about the two modules beside it, whose   *)
(* state and steps are their own: the radio under it (WifiRadio) and the   *)
(* setup page over its view (Onboarding).                                  *)
(***************************************************************************)
EXTENDS NetworkRuntime, WifiRadio, Onboarding, TLAPS

USE NetworkAssumption, ConfigAssumption, LimitAssumption, DelayAssumption

(***************************************************************************)
(* The coordinator                                                         *)
(***************************************************************************)

\* What a change of phase keeps and sets.
LEMMA TransitionFacts ==
    ASSUME NEW n \in NetSnapshot, NEW s \in NetStates
    PROVE  /\ transition(n, s) \in NetSnapshot
           /\ transition(n, s).state = s
           /\ transition(n, s).attempts = n.attempts
           /\ transition(n, s).transfer = n.transfer
           /\ transition(n, s).selected = n.selected
  BY DEF transition, PhaseTimeout, NetSnapshot

\* Asking for the hotspot deselects the network and keeps the transfer lock.
LEMMA HotspotFacts ==
    ASSUME NEW n \in NetSnapshot
    PROVE  /\ request_hotspot(n) \in NetSnapshot
           /\ request_hotspot(n).state = "HOTSPOT_STARTING"
           /\ request_hotspot(n).transfer = n.transfer
<1>1. "HOTSPOT_STARTING" \in NetStates
  BY DEF NetStates
<1>2. transition(n, "HOTSPOT_STARTING") \in NetSnapshot
      /\ transition(n, "HOTSPOT_STARTING").state = "HOTSPOT_STARTING"
      /\ transition(n, "HOTSPOT_STARTING").transfer = n.transfer
  BY <1>1, TransitionFacts
<1>3. QED
  BY <1>2 DEF request_hotspot, NetSnapshot

\* An action without a network is an action.
LEMMA PlainFacts ==
    ASSUME NEW kind \in ActionKinds
    PROVE  Plain(kind) \in Action /\ Plain(kind).kind = kind
  BY DEF Plain, Action

\* Starting over searches for the saved network.
LEMMA NetStart ==
    ASSUME net \in NetSnapshot, net_start
    PROVE  /\ net' \in NetSnapshot /\ act' \in Action
           /\ net'.state = "SEARCHING"
           /\ act'.kind = "SCAN_SAVED"
<1> DEFINE clear == [net EXCEPT !.selected = NoNetwork, !.attempts = 0, !.transfer = FALSE]
<1>1. clear \in NetSnapshot
  BY DEF NetSnapshot
<1>2. net' = transition(clear, "SEARCHING") /\ act' = Plain("SCAN_SAVED")
  BY DEF net_start
<1> HIDE DEF clear
<1>3. QED
  BY <1>1, <1>2, TransitionFacts, PlainFacts DEF NetStates, ActionKinds

\* The selected network is joined for the first time.
LEMMA NetScanSelected ==
    ASSUME net \in NetSnapshot, NEW id \in NetworkIds, net_scan_selected(id)
    PROVE  /\ net' \in NetSnapshot /\ act' \in Action
           /\ net'.state = "CONNECTING" /\ net'.attempts = 1
           /\ act'.kind = "CONNECT_SAVED"
<1> DEFINE first == [net EXCEPT !.selected = id, !.attempts = 1]
<1>1. first \in NetSnapshot /\ first.attempts = 1
  BY DEF NetSnapshot
<1>2. net' = transition(first, "CONNECTING") /\ act' = [kind |-> "CONNECT_SAVED", id |-> id]
  BY DEF net_scan_selected
<1> HIDE DEF first
<1>3. act' \in Action /\ act'.kind = "CONNECT_SAVED"
  BY <1>2 DEF Action, ActionKinds
<1>4. QED
  BY <1>1, <1>2, <1>3, TransitionFacts DEF NetStates

\* Without a saved network the hotspot is asked for.
LEMMA NetScanEmpty ==
    ASSUME net \in NetSnapshot, net_scan_empty
    PROVE  /\ net' \in NetSnapshot /\ act' \in Action
           /\ net'.state = "HOTSPOT_STARTING"
           /\ act'.kind = "START_HOTSPOT"
  BY TransitionFacts, HotspotFacts, PlainFacts
  DEF net_scan_empty, NetSnapshot, NetStates, Action, ActionKinds

\* A join ends the chain.
LEMMA NetConnected ==
    ASSUME net \in NetSnapshot, net_client_connected
    PROVE  /\ net' \in NetSnapshot /\ act' \in Action
           /\ net'.state = "CLIENT_READY"
           /\ act'.kind = "NONE"
<1> DEFINE well == [net EXCEPT !.health = 0, !.failures = 0]
<1>1. well \in NetSnapshot
  BY DEF NetSnapshot
<1>2. net' = transition(well, "CLIENT_READY") /\ act' = Plain("NONE")
  BY DEF net_client_connected
<1> HIDE DEF well
<1>3. QED
  BY <1>1, <1>2, TransitionFacts, PlainFacts DEF NetStates, ActionKinds

\* A lost link is joined again.
LEMMA NetLost ==
    ASSUME net \in NetSnapshot, net_client_lost
    PROVE  /\ net' \in NetSnapshot /\ act' \in Action
           /\ net'.state = "RECONNECTING"
           /\ act'.kind = "CONNECT_SAVED"
  BY TransitionFacts, HotspotFacts, PlainFacts
  DEF net_client_lost, NetSnapshot, NetStates, Action, ActionKinds

\* A healthy probe ends the chain.
LEMMA NetHealthy ==
    ASSUME net \in NetSnapshot, net_client_healthy
    PROVE  /\ net' \in NetSnapshot /\ act' \in Action
           /\ net'.state = net.state
           /\ act'.kind = "NONE"
  BY TransitionFacts, HotspotFacts, PlainFacts
  DEF net_client_healthy, NetSnapshot, NetStates, Action, ActionKinds

\* A started hotspot ends the chain.
LEMMA NetHotspotStarted ==
    ASSUME net \in NetSnapshot, net_hotspot_started
    PROVE  /\ net' \in NetSnapshot /\ act' \in Action
           /\ net'.state = "HOTSPOT_READY"
           /\ act'.kind = "NONE"
  BY TransitionFacts, HotspotFacts, PlainFacts
  DEF net_hotspot_started, NetSnapshot, NetStates, Action, ActionKinds

\* A failed hotspot ends the chain.
LEMMA NetHotspotFailed ==
    ASSUME net \in NetSnapshot, net_hotspot_failed
    PROVE  /\ net' \in NetSnapshot /\ act' \in Action
           /\ net'.state = "FAULTED"
           /\ act'.kind = "NONE"
  BY TransitionFacts, HotspotFacts, PlainFacts
  DEF net_hotspot_failed, NetSnapshot, NetStates, Action, ActionKinds

\* A retry searches again.
LEMMA NetRetry ==
    ASSUME net \in NetSnapshot, net_retry_saved
    PROVE  /\ net' \in NetSnapshot /\ act' \in Action
           /\ net'.state = "SEARCHING"
           /\ act'.kind = "SCAN_SAVED"
  BY TransitionFacts, HotspotFacts, PlainFacts
  DEF net_retry_saved, NetSnapshot, NetStates, Action, ActionKinds

\* Forcing asks for the hotspot.
LEMMA NetForce ==
    ASSUME net \in NetSnapshot, net_force_hotspot
    PROVE  /\ net' \in NetSnapshot /\ act' \in Action
           /\ net'.state = "HOTSPOT_STARTING"
           /\ act'.kind = "START_HOTSPOT"
  BY TransitionFacts, HotspotFacts, PlainFacts
  DEF net_force_hotspot, NetSnapshot, NetStates, Action, ActionKinds

\* Stopping stops the radio.
LEMMA NetStop ==
    ASSUME net \in NetSnapshot, net_stop
    PROVE  /\ net' \in NetSnapshot /\ act' \in Action
           /\ net'.state = "STOPPED"
           /\ act'.kind = "STOP_RADIO"
  BY TransitionFacts, HotspotFacts, PlainFacts
  DEF net_stop, NetStopped, NetSnapshot, NetStates, Action, ActionKinds

\* A failed join waits out its grace period, is tried again within the limit, or
\* gives way to the hotspot.
LEMMA NetFailed ==
    ASSUME net \in NetSnapshot, net_client_failed
    PROVE  /\ net' \in NetSnapshot /\ act' \in Action
           /\ \/ net.state = "RECONNECTING" /\ net' = net /\ act'.kind = "NONE"
              \/ /\ net.state = "CONNECTING" /\ net.attempts < STARTUP_ATTEMPT_LIMIT
                 /\ net'.state = "CONNECTING" /\ net'.attempts = net.attempts + 1
                 /\ act'.kind = "RECOVER_SAVED"
              \/ /\ net.state = "CONNECTING"
                 /\ net'.state = "HOTSPOT_STARTING" /\ act'.kind = "START_HOTSPOT"
<1> DEFINE more == [net EXCEPT !.attempts = @ + 1]
<1>1. more \in NetSnapshot /\ more.attempts = net.attempts + 1
  BY DEF NetSnapshot
<1> HIDE DEF more
<1>2. transition(more, "CONNECTING") \in NetSnapshot
      /\ transition(more, "CONNECTING").state = "CONNECTING"
      /\ transition(more, "CONNECTING").attempts = net.attempts + 1
  BY <1>1, TransitionFacts DEF NetStates
<1>3. CASE net.state = "RECONNECTING"
  BY <1>3, PlainFacts DEF net_client_failed, ActionKinds
<1>4. CASE net.state = "CONNECTING" /\ net.attempts < STARTUP_ATTEMPT_LIMIT
  BY <1>2, <1>4 DEF net_client_failed, more, NetSnapshot, Action, ActionKinds
<1>5. CASE net.state = "CONNECTING" /\ ~(net.attempts < STARTUP_ATTEMPT_LIMIT)
  BY <1>5, HotspotFacts, PlainFacts DEF net_client_failed, ActionKinds
<1>6. QED
  BY <1>3, <1>4, <1>5 DEF net_client_failed, Joining

\* A failed probe is counted, or starts the recovery of the link.
LEMMA NetUnhealthy ==
    ASSUME net \in NetSnapshot, net_client_unhealthy
    PROVE  /\ net' \in NetSnapshot /\ act' \in Action
           /\ \/ net'.state = net.state /\ act'.kind = "NONE"
              \/ net'.state = "RECONNECTING" /\ act'.kind = "RECOVER_SAVED"
<1> DEFINE failed == [net EXCEPT !.failures = @ + 1]
<1>1. failed \in NetSnapshot /\ failed.state = net.state
  BY DEF NetSnapshot
<1> HIDE DEF failed
<1>2. transition(failed, "RECONNECTING") \in NetSnapshot
      /\ transition(failed, "RECONNECTING").state = "RECONNECTING"
  BY <1>1, TransitionFacts DEF NetStates
<1>3. CASE failed.failures >= HEALTH_FAILURE_THRESHOLD
  BY <1>2, <1>3 DEF net_client_unhealthy, failed, NetSnapshot, Action, ActionKinds
<1>4. CASE ~(failed.failures >= HEALTH_FAILURE_THRESHOLD)
  BY <1>1, <1>4, PlainFacts DEF net_client_unhealthy, failed, ActionKinds
<1>5. QED
  BY <1>3, <1>4

\* A tick changes the phase only to give a timed one up for the hotspot, and asks
\* for a probe only outside a transfer.
LEMMA NetTick ==
    ASSUME net \in NetSnapshot, handle_tick
    PROVE  /\ net' \in NetSnapshot /\ act' \in Action
           /\ \/ /\ net'.state = net.state /\ net'.attempts = net.attempts
                 /\ net'.transfer = net.transfer /\ act'.kind = "NONE"
              \/ /\ net'.state = net.state /\ net.state = "CLIENT_READY"
                 /\ ~net'.transfer /\ act'.kind = "PROBE_CLIENT"
              \/ /\ ~is_ready_state(net.state)
                 /\ net'.state = "HOTSPOT_STARTING" /\ act'.kind = "START_HOTSPOT"
<1>1. CASE net.state = "CLIENT_READY"
  BY <1>1, PlainFacts DEF handle_tick, tick_ready, NetSnapshot, Action, ActionKinds
<1>2. CASE net.state \in {"SEARCHING", "CONNECTING", "RECONNECTING"}
  <2> DEFINE later == [net EXCEPT !.elapsed = @ + 1]
  <2>1. later \in NetSnapshot /\ later.state = net.state /\ later.attempts = net.attempts
        /\ later.transfer = net.transfer
    BY DEF NetSnapshot
  <2>2. tick_phase
    BY <1>2 DEF handle_tick
  <2> HIDE DEF later
  <2>3. CASE later.elapsed >= net.timeout
    BY <1>2, <2>1, <2>2, <2>3, HotspotFacts, PlainFacts
    DEF tick_phase, later, is_ready_state, ActionKinds
  <2>4. CASE ~(later.elapsed >= net.timeout)
    BY <2>1, <2>2, <2>4, PlainFacts DEF tick_phase, later, ActionKinds
  <2>5. QED
    BY <2>3, <2>4
<1>3. CASE net.state \notin {"CLIENT_READY", "SEARCHING", "CONNECTING", "RECONNECTING"}
  BY <1>3, PlainFacts DEF handle_tick, ActionKinds
<1>4. QED
  BY <1>1, <1>2, <1>3

\* The transfer lock changes nothing else.
LEMMA NetTransfer ==
    ASSUME net \in NetSnapshot, net_transfer_started \/ net_transfer_finished
    PROVE  /\ net' \in NetSnapshot /\ act' \in Action
           /\ net'.state = net.state /\ net'.attempts = net.attempts
           /\ act'.kind = "NONE"
<1>1. PICK b \in BOOLEAN : net' = [net EXCEPT !.transfer = b]
  BY DEF net_transfer_started, net_transfer_finished
<1>2. net' \in NetSnapshot /\ net'.state = net.state /\ net'.attempts = net.attempts
  BY <1>1 DEF NetSnapshot
<1>3. act' = Plain("NONE") /\ "NONE" \in ActionKinds
  BY DEF net_transfer_started, net_transfer_finished, ActionKinds
<1>4. QED BY <1>2, <1>3, PlainFacts

(***************************************************************************)
(* Every step keeps the invariant                                          *)
(***************************************************************************)

\* The invariant through the ways to boot again.
LEMMA Keeps_boot ==
    ASSUME NetIInv, power_cycle \/ deep_sleep \/ esp_restart
    PROVE  NetIInv'
<1>1. NetTypeOK'
  <2>1. ColdStart /\ saved' = saved /\ guard' \in {FALSE, guard} /\ reboots' \in {0, reboots}
    BY DEF power_cycle, deep_sleep, esp_restart
  <2>2. guard' \in BOOLEAN /\ reboots' \in 0..RebootsCounted
    <3>1. guard \in BOOLEAN /\ reboots \in 0..RebootsCounted BY DEF NetIInv, NetTypeOK
    <3>2. guard' \in BOOLEAN BY <2>1, <3>1
    <3>3. 0 \in 0..RebootsCounted BY DEF RebootsCounted
    <3>4. reboots' \in 0..RebootsCounted BY <2>1, <3>1, <3>3
    <3>5. QED BY <3>2, <3>4
  <2>3. act' \in Action BY <2>1, PlainFacts DEF ColdStart, ActionKinds
  <2>4. net' \in NetSnapshot BY <2>1 DEF ColdStart, NetStopped, NetSnapshot, NetStates, NetIInv, NetTypeOK
  <2>5. QED
    BY <2>1, <2>2, <2>3, <2>4 DEF NetIInv, NetTypeOK, ColdStart, Runtime, Callers
<1>2. ActionsAnswerable'
  BY PlainFacts
  DEF NetIInv, NetTypeOK, ActionsAnswerable, HeldWhileActing, Joining, ActionKinds, power_cycle, deep_sleep,
      esp_restart, RebootsCounted, ColdStart, NetStopped
<1>3. Budgeted'
  BY PlainFacts
  DEF NetIInv, NetTypeOK, ActionsAnswerable, Budgeted, Need, Joining, NetSnapshot, ActionKinds, power_cycle, deep_sleep,
      esp_restart, RebootsCounted, ColdStart, NetStopped
<1>4. SettledWhenIdle'
  BY PlainFacts
  DEF NetIInv, NetTypeOK, ActionsAnswerable, SettledWhenIdle, HeldWhileActing, Runtime, ActionKinds, power_cycle, deep_sleep,
      esp_restart, RebootsCounted, ColdStart, NetStopped
<1>5. HeldWhileActing'
  BY PlainFacts
  DEF NetIInv, NetTypeOK, ActionsAnswerable, HeldWhileActing, ActionKinds, power_cycle, deep_sleep,
      esp_restart, RebootsCounted, ColdStart, NetStopped
<1>6. QED
  BY <1>1, <1>2, <1>3, <1>4, <1>5 DEF NetIInv

\* The invariant through runtime_start.
LEMMA Keeps_runtime_start ==
    ASSUME NetIInv, NEW readable \in BOOLEAN, runtime_start(readable)
    PROVE  NetIInv'
<1>1. NetTypeOK'
  BY NetStart
  DEF NetIInv, NetTypeOK, NetSnapshot, NetStates, ActionKinds, Runtime, Callers, runtime_start, Aside
<1>2. ActionsAnswerable'
  BY NetStart
  DEF NetIInv, NetTypeOK, ActionsAnswerable, HeldWhileActing, Joining, ActionKinds, runtime_start, Aside
<1>3. Budgeted'
  BY NetStart
  DEF NetIInv, NetTypeOK, ActionsAnswerable, Budgeted, Need, Joining, NetSnapshot, ActionKinds, runtime_start, Aside
<1>4. SettledWhenIdle'
  BY NetStart
  DEF NetIInv, NetTypeOK, ActionsAnswerable, SettledWhenIdle, HeldWhileActing, Runtime, ActionKinds, runtime_start, Aside
<1>5. HeldWhileActing'
  BY NetStart
  DEF NetIInv, NetTypeOK, ActionsAnswerable, HeldWhileActing, ActionKinds, runtime_start, Aside
<1>6. QED
  BY <1>1, <1>2, <1>3, <1>4, <1>5 DEF NetIInv

\* The invariant through exec_scan_saved.
LEMMA Keeps_exec_scan_saved ==
    ASSUME NetIInv, exec_scan_saved
    PROVE  NetIInv'
<1>1. /\ net' \in NetSnapshot /\ act' \in Action
      /\ \/ /\ net'.state = "CONNECTING" /\ net'.attempts = 1
            /\ act'.kind = "CONNECT_SAVED"
         \/ net'.state = "HOTSPOT_STARTING" /\ act'.kind = "START_HOTSPOT"
  <2>1. net \in NetSnapshot /\ rt.station \in NetworkIds \union {NoNetwork}
    BY DEF NetIInv, NetTypeOK, Runtime
  <2>2. CASE rt.station # NoNetwork
    <3>1. net_scan_selected(rt.station) /\ rt.station \in NetworkIds
      BY <2>1, <2>2 DEF exec_scan_saved
    <3>2. QED
      BY <2>1, <3>1, NetScanSelected
  <2>3. CASE rt.station = NoNetwork
    BY <2>1, <2>3, NetScanEmpty DEF exec_scan_saved
  <2>4. QED
    BY <2>2, <2>3
<1>2. /\ act.kind = "SCAN_SAVED" /\ iter' = iter + 1
      /\ UNCHANGED <<caller, rt, lost, saved, timers, task, guard, reboots>>
  BY DEF exec_scan_saved, Executing, Aside
<1>3. NetTypeOK'
  BY <1>1, <1>2 DEF NetIInv, NetTypeOK
<1>4. ActionsAnswerable'
  BY <1>1 DEF ActionsAnswerable, Joining
<1>5. Budgeted'
  BY <1>1, <1>2 DEF NetIInv, NetTypeOK, Budgeted, Need
<1>6. SettledWhenIdle' /\ HeldWhileActing'
  BY <1>1, <1>2 DEF NetIInv, SettledWhenIdle, HeldWhileActing
<1>7. QED
  BY <1>3, <1>4, <1>5, <1>6 DEF NetIInv

\* The invariant through exec_connect_saved.
LEMMA Keeps_exec_connect_saved ==
    ASSUME NetIInv, NEW ok \in BOOLEAN, exec_connect_saved(ok)
    PROVE  NetIInv'
<1>1. NetTypeOK'
  <2>1. net \in NetSnapshot
    BY DEF NetIInv, NetTypeOK
  <2>2. CASE ok
    <3>1. net' \in NetSnapshot /\ act' \in Action /\ lost' \in BOOLEAN
      BY <2>1, <2>2, NetConnected DEF exec_connect_saved
    <3>2. QED
      BY <3>1 DEF NetIInv, NetTypeOK, exec_connect_saved, Executing, Aside
  <2>3. CASE ~ok
    <3>1. net' \in NetSnapshot /\ act' \in Action /\ lost' = lost
      BY <2>1, <2>3, NetFailed DEF exec_connect_saved
    <3>2. QED
      BY <3>1 DEF NetIInv, NetTypeOK, exec_connect_saved, Executing, Aside
  <2>4. QED
    BY <2>2, <2>3
<1>2. ActionsAnswerable'
  BY NetConnected, NetFailed
  DEF NetIInv, NetTypeOK, ActionsAnswerable, HeldWhileActing, Joining, ActionKinds, exec_connect_saved, Executing, Aside
<1>3. Budgeted'
  BY NetConnected, NetFailed
  DEF NetIInv, NetTypeOK, ActionsAnswerable, Budgeted, Need, Joining, NetSnapshot, ActionKinds, exec_connect_saved, Executing, Aside
<1>4. SettledWhenIdle'
  BY NetConnected, NetFailed
  DEF NetIInv, NetTypeOK, ActionsAnswerable, SettledWhenIdle, HeldWhileActing, Runtime, ActionKinds, exec_connect_saved, Executing, Aside
<1>5. HeldWhileActing'
  BY NetConnected, NetFailed
  DEF NetIInv, NetTypeOK, ActionsAnswerable, HeldWhileActing, ActionKinds, exec_connect_saved, Executing, Aside
<1>6. QED
  BY <1>1, <1>2, <1>3, <1>4, <1>5 DEF NetIInv

\* The invariant through exec_probe_client.
LEMMA Keeps_exec_probe_client ==
    ASSUME NetIInv, NEW ok \in BOOLEAN, exec_probe_client(ok)
    PROVE  NetIInv'
<1>1. NetTypeOK'
  BY NetHealthy, NetUnhealthy
  DEF NetIInv, NetTypeOK, NetSnapshot, NetStates, ActionKinds, Runtime, Callers, exec_probe_client, Executing, Aside
<1>2. ActionsAnswerable'
  BY NetHealthy, NetUnhealthy
  DEF NetIInv, NetTypeOK, ActionsAnswerable, HeldWhileActing, Joining, ActionKinds, exec_probe_client, Executing, Aside
<1>3. Budgeted'
  BY NetHealthy, NetUnhealthy
  DEF NetIInv, NetTypeOK, ActionsAnswerable, Budgeted, Need, Joining, NetSnapshot, ActionKinds, exec_probe_client, Executing, Aside
<1>4. SettledWhenIdle'
  BY NetHealthy, NetUnhealthy
  DEF NetIInv, NetTypeOK, ActionsAnswerable, SettledWhenIdle, HeldWhileActing, Runtime, ActionKinds, exec_probe_client, Executing, Aside
<1>5. HeldWhileActing'
  BY NetHealthy, NetUnhealthy
  DEF NetIInv, NetTypeOK, ActionsAnswerable, HeldWhileActing, ActionKinds, exec_probe_client, Executing, Aside
<1>6. QED
  BY <1>1, <1>2, <1>3, <1>4, <1>5 DEF NetIInv

\* The invariant through exec_start_hotspot.
LEMMA Keeps_exec_start_hotspot ==
    ASSUME NetIInv, NEW ok \in BOOLEAN, exec_start_hotspot(ok)
    PROVE  NetIInv'
<1>1. NetTypeOK'
  <2>1. net \in NetSnapshot /\ rt \in Runtime
    BY DEF NetIInv, NetTypeOK
  <2>2. rt' \in Runtime
    BY <2>1 DEF exec_start_hotspot, Runtime
  <2>3. net' \in NetSnapshot /\ act' \in Action
    BY <2>1, NetHotspotStarted, NetHotspotFailed, PlainFacts
    DEF exec_start_hotspot, ActionKinds
  <2>4. QED
    BY <2>2, <2>3 DEF NetIInv, NetTypeOK, exec_start_hotspot, Executing, Aside
<1>2. ActionsAnswerable'
  BY NetHotspotStarted, NetHotspotFailed, PlainFacts
  DEF NetIInv, NetTypeOK, ActionsAnswerable, HeldWhileActing, Joining, ActionKinds, exec_start_hotspot, Executing, Aside
<1>3. Budgeted'
  BY NetHotspotStarted, NetHotspotFailed, PlainFacts
  DEF NetIInv, NetTypeOK, ActionsAnswerable, Budgeted, Need, Joining, NetSnapshot, ActionKinds, exec_start_hotspot, Executing, Aside
<1>4. SettledWhenIdle'
  BY NetHotspotStarted, NetHotspotFailed, PlainFacts
  DEF NetIInv, NetTypeOK, ActionsAnswerable, SettledWhenIdle, HeldWhileActing, Runtime, ActionKinds, exec_start_hotspot, Executing, Aside
<1>5. HeldWhileActing'
  BY NetHotspotStarted, NetHotspotFailed, PlainFacts
  DEF NetIInv, NetTypeOK, ActionsAnswerable, HeldWhileActing, ActionKinds, exec_start_hotspot, Executing, Aside
<1>6. QED
  BY <1>1, <1>2, <1>3, <1>4, <1>5 DEF NetIInv

\* The invariant through exec_stop_radio.
LEMMA Keeps_exec_stop_radio ==
    ASSUME NetIInv, NEW ok \in BOOLEAN, exec_stop_radio(ok)
    PROVE  NetIInv'
<1>1. NetTypeOK'
  <2>1. rt' \in Runtime
    BY DEF NetIInv, NetTypeOK, Runtime, exec_stop_radio
  <2>2. net' \in NetSnapshot /\ act' \in Action
    BY NetStart, PlainFacts DEF NetIInv, NetTypeOK, ActionKinds, exec_stop_radio
  <2>3. QED BY <2>1, <2>2 DEF NetIInv, NetTypeOK, Callers, exec_stop_radio, Aside
<1>2. ActionsAnswerable'
  BY NetStart, PlainFacts
  DEF NetIInv, NetTypeOK, ActionsAnswerable, HeldWhileActing, Joining, ActionKinds, exec_stop_radio, Aside
<1>3. Budgeted'
  BY NetStart, PlainFacts
  DEF NetIInv, NetTypeOK, ActionsAnswerable, Budgeted, Need, Joining, NetSnapshot, ActionKinds, exec_stop_radio, Aside
<1>4. SettledWhenIdle'
  BY NetStart, PlainFacts
  DEF NetIInv, NetTypeOK, ActionsAnswerable, SettledWhenIdle, HeldWhileActing, Runtime, ActionKinds, exec_stop_radio, Aside
<1>5. HeldWhileActing'
  BY NetStart, PlainFacts
  DEF NetIInv, NetTypeOK, ActionsAnswerable, HeldWhileActing, ActionKinds, exec_stop_radio, Aside
<1>6. QED
  BY <1>1, <1>2, <1>3, <1>4, <1>5 DEF NetIInv

\* The invariant through call_returns.
LEMMA Keeps_call_returns ==
    ASSUME NetIInv, call_returns
    PROVE  NetIInv'
<1>1. NetTypeOK'
  BY DEF NetIInv, NetTypeOK, NetSnapshot, NetStates, ActionKinds, Runtime, Callers, call_returns, Done, Aside
<1>2. ActionsAnswerable'
  BY DEF NetIInv, NetTypeOK, ActionsAnswerable, HeldWhileActing, Joining, ActionKinds, call_returns, Done, Aside
<1>3. Budgeted'
  BY DEF NetIInv, NetTypeOK, ActionsAnswerable, Budgeted, Need, Joining, NetSnapshot, ActionKinds, call_returns, Done, Aside
<1>4. SettledWhenIdle'
  BY DEF NetIInv, NetTypeOK, ActionsAnswerable, SettledWhenIdle, HeldWhileActing, Runtime, ActionKinds, call_returns, Done, Aside
<1>5. HeldWhileActing'
  BY DEF NetIInv, NetTypeOK, ActionsAnswerable, HeldWhileActing, ActionKinds, call_returns, Done, Aside
<1>6. QED
  BY <1>1, <1>2, <1>3, <1>4, <1>5 DEF NetIInv

\* The invariant through task_tick.
LEMMA Keeps_task_tick ==
    ASSUME NetIInv, task_tick
    PROVE  NetIInv'
<1>1. NetTypeOK'
  BY NetLost, NetTick
  DEF NetIInv, NetTypeOK, NetSnapshot, NetStates, ActionKinds, Runtime, Callers, task_tick, Aside
<1>2. ActionsAnswerable'
  BY NetLost, NetTick
  DEF NetIInv, NetTypeOK, ActionsAnswerable, HeldWhileActing, Joining, ActionKinds, task_tick, Aside
<1>3. Budgeted'
  BY NetLost, NetTick
  DEF NetIInv, NetTypeOK, ActionsAnswerable, Budgeted, Need, Joining, NetSnapshot, ActionKinds, task_tick, Aside
<1>4. SettledWhenIdle'
  BY NetLost, NetTick
  DEF NetIInv, NetTypeOK, ActionsAnswerable, SettledWhenIdle, HeldWhileActing, Runtime, ActionKinds, task_tick, Aside
<1>5. HeldWhileActing'
  BY NetLost, NetTick
  DEF NetIInv, NetTypeOK, ActionsAnswerable, HeldWhileActing, ActionKinds, task_tick, Aside
<1>6. QED
  BY <1>1, <1>2, <1>3, <1>4, <1>5 DEF NetIInv

\* The invariant through task_tick_after_loss.
LEMMA Keeps_task_tick_after_loss ==
    ASSUME NetIInv, task_tick_after_loss
    PROVE  NetIInv'
<1>1. NetTypeOK'
  BY NetTick
  DEF NetIInv, NetTypeOK, NetSnapshot, NetStates, ActionKinds, Runtime, Callers, task_tick_after_loss, Done, Aside
<1>2. ActionsAnswerable'
  BY NetTick
  DEF NetIInv, NetTypeOK, ActionsAnswerable, HeldWhileActing, Joining, ActionKinds, task_tick_after_loss, Done, Aside
<1>3. Budgeted'
  BY NetTick
  DEF NetIInv, NetTypeOK, ActionsAnswerable, Budgeted, Need, Joining, NetSnapshot, ActionKinds, task_tick_after_loss, Done, Aside
<1>4. SettledWhenIdle'
  BY NetTick
  DEF NetIInv, NetTypeOK, ActionsAnswerable, SettledWhenIdle, HeldWhileActing, Runtime, ActionKinds, task_tick_after_loss, Done, Aside
<1>5. HeldWhileActing'
  BY NetTick
  DEF NetIInv, NetTypeOK, ActionsAnswerable, HeldWhileActing, ActionKinds, task_tick_after_loss, Done, Aside
<1>6. QED
  BY <1>1, <1>2, <1>3, <1>4, <1>5 DEF NetIInv

\* The invariant through task_round_ends.
LEMMA Keeps_task_round_ends ==
    ASSUME NetIInv, task_round_ends
    PROVE  NetIInv'
<1>1. NetTypeOK'
  BY DEF NetIInv, NetTypeOK, NetSnapshot, NetStates, ActionKinds, Runtime, Callers, task_round_ends, Done, AtMost, Stable, Faulted,
        RebootsCounted
<1>2. ActionsAnswerable'
  BY DEF NetIInv, NetTypeOK, ActionsAnswerable, HeldWhileActing, Joining, ActionKinds, task_round_ends, Done, AtMost, Stable, Faulted
<1>3. Budgeted'
  BY DEF NetIInv, NetTypeOK, ActionsAnswerable, Budgeted, Need, Joining, NetSnapshot, ActionKinds, task_round_ends, Done, AtMost, Stable, Faulted
<1>4. SettledWhenIdle'
  BY DEF NetIInv, NetTypeOK, ActionsAnswerable, SettledWhenIdle, HeldWhileActing, Runtime, ActionKinds, task_round_ends, Done, AtMost, Stable, Faulted
<1>5. HeldWhileActing'
  BY DEF NetIInv, NetTypeOK, ActionsAnswerable, HeldWhileActing, ActionKinds, task_round_ends, Done, AtMost, Stable, Faulted
<1>6. QED
  BY <1>1, <1>2, <1>3, <1>4, <1>5 DEF NetIInv

\* The invariant through configure_station.
LEMMA Keeps_configure_station ==
    ASSUME NetIInv, NEW id \in NetworkIds, configure_station(id)
    PROVE  NetIInv'
<1>1. NetTypeOK'
  BY NetStop, NetRetry
  DEF NetIInv, NetTypeOK, NetSnapshot, NetStates, ActionKinds, Runtime, Callers, configure_station, Aside
<1>2. ActionsAnswerable'
  BY NetStop, NetRetry
  DEF NetIInv, NetTypeOK, ActionsAnswerable, HeldWhileActing, Joining, ActionKinds, configure_station, Aside
<1>3. Budgeted'
  BY NetStop, NetRetry
  DEF NetIInv, NetTypeOK, ActionsAnswerable, Budgeted, Need, Joining, NetSnapshot, ActionKinds, configure_station, Aside
<1>4. SettledWhenIdle'
  BY NetStop, NetRetry
  DEF NetIInv, NetTypeOK, ActionsAnswerable, SettledWhenIdle, HeldWhileActing, Runtime, ActionKinds, configure_station, Aside
<1>5. HeldWhileActing'
  BY NetStop, NetRetry
  DEF NetIInv, NetTypeOK, ActionsAnswerable, HeldWhileActing, ActionKinds, configure_station, Aside
<1>6. QED
  BY <1>1, <1>2, <1>3, <1>4, <1>5 DEF NetIInv

\* The invariant through station_saved.
LEMMA Keeps_station_saved ==
    ASSUME NetIInv, NEW written \in BOOLEAN, station_saved(written)
    PROVE  NetIInv'
<1>1. NetTypeOK'
  BY DEF NetIInv, NetTypeOK, NetSnapshot, NetStates, ActionKinds, Runtime, Callers, station_saved, Done
<1>2. ActionsAnswerable'
  BY DEF NetIInv, NetTypeOK, ActionsAnswerable, HeldWhileActing, Joining, ActionKinds, station_saved, Done
<1>3. Budgeted'
  BY DEF NetIInv, NetTypeOK, ActionsAnswerable, Budgeted, Need, Joining, NetSnapshot, ActionKinds, station_saved, Done
<1>4. SettledWhenIdle'
  BY DEF NetIInv, NetTypeOK, ActionsAnswerable, SettledWhenIdle, HeldWhileActing, Runtime, ActionKinds, station_saved, Done
<1>5. HeldWhileActing'
  BY DEF NetIInv, NetTypeOK, ActionsAnswerable, HeldWhileActing, ActionKinds, station_saved, Done
<1>6. QED
  BY <1>1, <1>2, <1>3, <1>4, <1>5 DEF NetIInv

\* The invariant through configure_hotspot_ephemeral.
LEMMA Keeps_configure_hotspot_ephemeral ==
    ASSUME NetIInv, configure_hotspot_ephemeral
    PROVE  NetIInv'
<1>1. NetTypeOK'
  <2>1. rt' \in Runtime
    BY DEF NetIInv, NetTypeOK, Runtime, configure_hotspot_ephemeral
  <2>2. act' \in Action
    BY PlainFacts DEF NetIInv, NetTypeOK, ActionKinds, configure_hotspot_ephemeral
  <2>3. QED BY <2>1, <2>2 DEF NetIInv, NetTypeOK, Callers, configure_hotspot_ephemeral, Aside
<1>2. ActionsAnswerable'
  BY PlainFacts
  DEF NetIInv, NetTypeOK, ActionsAnswerable, HeldWhileActing, Joining, ActionKinds, configure_hotspot_ephemeral, Aside
<1>3. Budgeted'
  BY PlainFacts
  DEF NetIInv, NetTypeOK, ActionsAnswerable, Budgeted, Need, Joining, NetSnapshot, ActionKinds, configure_hotspot_ephemeral, Aside
<1>4. SettledWhenIdle'
  BY PlainFacts
  DEF NetIInv, NetTypeOK, ActionsAnswerable, SettledWhenIdle, HeldWhileActing, Runtime, ActionKinds, configure_hotspot_ephemeral, Aside
<1>5. HeldWhileActing'
  BY PlainFacts
  DEF NetIInv, NetTypeOK, ActionsAnswerable, HeldWhileActing, ActionKinds, configure_hotspot_ephemeral, Aside
<1>6. QED
  BY <1>1, <1>2, <1>3, <1>4, <1>5 DEF NetIInv

\* The invariant through force_hotspot.
LEMMA Keeps_force_hotspot ==
    ASSUME NetIInv, force_hotspot
    PROVE  NetIInv'
<1>1. NetTypeOK'
  BY NetForce
  DEF NetIInv, NetTypeOK, NetSnapshot, NetStates, ActionKinds, Runtime, Callers, force_hotspot, Aside
<1>2. ActionsAnswerable'
  BY NetForce
  DEF NetIInv, NetTypeOK, ActionsAnswerable, HeldWhileActing, Joining, ActionKinds, force_hotspot, Aside
<1>3. Budgeted'
  BY NetForce
  DEF NetIInv, NetTypeOK, ActionsAnswerable, Budgeted, Need, Joining, NetSnapshot, ActionKinds, force_hotspot, Aside
<1>4. SettledWhenIdle'
  BY NetForce
  DEF NetIInv, NetTypeOK, ActionsAnswerable, SettledWhenIdle, HeldWhileActing, Runtime, ActionKinds, force_hotspot, Aside
<1>5. HeldWhileActing'
  BY NetForce
  DEF NetIInv, NetTypeOK, ActionsAnswerable, HeldWhileActing, ActionKinds, force_hotspot, Aside
<1>6. QED
  BY <1>1, <1>2, <1>3, <1>4, <1>5 DEF NetIInv

\* The invariant through set_transfer_active.
LEMMA Keeps_set_transfer_active ==
    ASSUME NetIInv, NEW active \in BOOLEAN, set_transfer_active(active)
    PROVE  NetIInv'
<1>1. NetTypeOK'
  BY NetTransfer
  DEF NetIInv, NetTypeOK, NetSnapshot, NetStates, ActionKinds, Runtime, Callers, set_transfer_active, Aside
<1>2. ActionsAnswerable'
  BY NetTransfer
  DEF NetIInv, NetTypeOK, ActionsAnswerable, HeldWhileActing, Joining, ActionKinds, set_transfer_active, Aside
<1>3. Budgeted'
  BY NetTransfer
  DEF NetIInv, NetTypeOK, ActionsAnswerable, Budgeted, Need, Joining, NetSnapshot, ActionKinds, set_transfer_active, Aside
<1>4. SettledWhenIdle'
  BY NetTransfer
  DEF NetIInv, NetTypeOK, ActionsAnswerable, SettledWhenIdle, HeldWhileActing, Runtime, ActionKinds, set_transfer_active, Aside
<1>5. HeldWhileActing'
  BY NetTransfer
  DEF NetIInv, NetTypeOK, ActionsAnswerable, HeldWhileActing, ActionKinds, set_transfer_active, Aside
<1>6. QED
  BY <1>1, <1>2, <1>3, <1>4, <1>5 DEF NetIInv

\* The invariant through link_lost.
LEMMA Keeps_link_lost ==
    ASSUME NetIInv, link_lost
    PROVE  NetIInv'
<1>1. NetTypeOK'
  BY DEF NetIInv, NetTypeOK, NetSnapshot, NetStates, ActionKinds, Runtime, Callers, link_lost, Aside
<1>2. ActionsAnswerable'
  BY DEF NetIInv, NetTypeOK, ActionsAnswerable, HeldWhileActing, Joining, ActionKinds, link_lost, Aside
<1>3. Budgeted'
  BY DEF NetIInv, NetTypeOK, ActionsAnswerable, Budgeted, Need, Joining, NetSnapshot, ActionKinds, link_lost, Aside
<1>4. SettledWhenIdle'
  BY DEF NetIInv, NetTypeOK, ActionsAnswerable, SettledWhenIdle, HeldWhileActing, Runtime, ActionKinds, link_lost, Aside
<1>5. HeldWhileActing'
  BY DEF NetIInv, NetTypeOK, ActionsAnswerable, HeldWhileActing, ActionKinds, link_lost, Aside
<1>6. QED
  BY <1>1, <1>2, <1>3, <1>4, <1>5 DEF NetIInv

(***************************************************************************)
(* Theorems                                                                *)
(***************************************************************************)

\* The inductive invariant of the network runtime.
THEOREM NetInvariance == NetSpec => []NetIInv
<1>1. NetInit => NetIInv
  <2> SUFFICES ASSUME NetInit PROVE NetIInv
    OBVIOUS
  <2>1. /\ net = NetStopped /\ act = Plain("NONE") /\ caller = "off" /\ iter = 0
        /\ rt = [station |-> NoNetwork, hotspot |-> FALSE, awaiting |-> FALSE]
        /\ lost = FALSE /\ timers = [fault |-> 0, stable |-> 0] /\ task = "ticking"
        /\ saved \in NetworkIds \union {NoNetwork} /\ guard = FALSE /\ reboots = 0
    BY DEF NetInit, BootRam
  <2>2. net \in NetSnapshot /\ net.state = "STOPPED" /\ net.transfer = FALSE
    BY <2>1 DEF NetStopped, NetSnapshot, NetStates
  <2>3. act \in Action /\ act.kind = "NONE"
    BY <2>1, PlainFacts DEF ActionKinds
  <2>4. NetTypeOK
    <3>1. 0 \in 0..RebootsCounted BY DEF RebootsCounted
    <3>2. QED BY <2>1, <2>2, <2>3, <3>1 DEF NetTypeOK, Callers, Runtime
  <2>5. ActionsAnswerable /\ SettledWhenIdle /\ HeldWhileActing
    BY <2>1, <2>2, <2>3
       DEF ActionsAnswerable, SettledWhenIdle, HeldWhileActing
  <2>6. Budgeted
    BY <2>1, <2>2, <2>3 DEF Budgeted, Need
  <2>7. QED
    BY <2>4, <2>5, <2>6 DEF NetIInv
<1>2. NetIInv /\ [NetNext]_netVars => NetIInv'
  <2> SUFFICES ASSUME NetIInv, [NetNext]_netVars PROVE NetIInv'
    OBVIOUS
  <2>1. CASE power_cycle \/ deep_sleep \/ esp_restart
    BY <2>1, Keeps_boot
  <2>2. ASSUME NEW readable \in BOOLEAN, runtime_start(readable) PROVE NetIInv'
    BY <2>2, Keeps_runtime_start
  <2>3. CASE exec_scan_saved
    BY <2>3, Keeps_exec_scan_saved
  <2>4. ASSUME NEW ok \in BOOLEAN, exec_connect_saved(ok) PROVE NetIInv'
    BY <2>4, Keeps_exec_connect_saved
  <2>5. ASSUME NEW ok \in BOOLEAN, exec_probe_client(ok) PROVE NetIInv'
    BY <2>5, Keeps_exec_probe_client
  <2>6. ASSUME NEW ok \in BOOLEAN, exec_start_hotspot(ok) PROVE NetIInv'
    BY <2>6, Keeps_exec_start_hotspot
  <2>7. ASSUME NEW ok \in BOOLEAN, exec_stop_radio(ok) PROVE NetIInv'
    BY <2>7, Keeps_exec_stop_radio
  <2>8. CASE call_returns
    BY <2>8, Keeps_call_returns
  <2>9. CASE task_tick
    BY <2>9, Keeps_task_tick
  <2>10. CASE task_tick_after_loss
    BY <2>10, Keeps_task_tick_after_loss
  <2>11. CASE task_round_ends
    BY <2>11, Keeps_task_round_ends
  <2>13. ASSUME NEW id \in NetworkIds, configure_station(id) PROVE NetIInv'
    BY <2>13, Keeps_configure_station
  <2>14. ASSUME NEW written \in BOOLEAN, station_saved(written) PROVE NetIInv'
    BY <2>14, Keeps_station_saved
  <2>15. CASE configure_hotspot_ephemeral
    BY <2>15, Keeps_configure_hotspot_ephemeral
  <2>16. CASE force_hotspot
    BY <2>16, Keeps_force_hotspot
  <2>17. ASSUME NEW active \in BOOLEAN, set_transfer_active(active) PROVE NetIInv'
    BY <2>17, Keeps_set_transfer_active
  <2>18. CASE link_lost
    BY <2>18, Keeps_link_lost
  <2>19. CASE UNCHANGED netVars
    BY <2>19 DEF netVars, NetIInv, NetTypeOK, ActionsAnswerable, Budgeted, Need, Joining,
       SettledWhenIdle, HeldWhileActing
  <2>20. QED
    BY <2>1, <2>2, <2>3, <2>4, <2>5, <2>6, <2>7, <2>8, <2>9, <2>10, <2>11, <2>13, <2>14, <2>15, <2>16, <2>17, <2>18, <2>19
       DEF NetNext, Execute, TaskStep
<1>3. QED
  BY <1>1, <1>2, PTL DEF NetSpec

\* Type correctness of the runtime and the coordinator.
THEOREM NetTypeCorrect == NetSpec => []NetTypeOK
<1>1. NetIInv => NetTypeOK
  BY DEF NetIInv
<1>2. QED
  BY <1>1, NetInvariance, PTL

\* execute_action is never refused the event that answers its action.
THEOREM ActionsAlwaysAnswerable == NetSpec => []ActionsAnswerable
<1>1. NetIInv => ActionsAnswerable
  BY DEF NetIInv
<1>2. QED
  BY <1>1, NetInvariance, PTL

\* execute_action never runs out of iterations, whatever the attempt limit, as
\* long as the action limit exceeds it by three.
THEOREM ActionsAlwaysFit == NetSpec => []ActionsFit
<1>1. NetIInv => ActionsFit
  <2> SUFFICES ASSUME NetIInv PROVE ActionsFit
    OBVIOUS
  <2>1. iter \in Nat /\ net \in NetSnapshot /\ net.attempts \in Nat
    BY DEF NetIInv, NetTypeOK, NetSnapshot
  <2>2. Need \in Nat /\ Need >= 1
    BY <2>1 DEF NetIInv, Budgeted, Need
  <2>3. iter + Need <= ACTION_LIMIT
    BY DEF NetIInv, Budgeted
  <2>4. QED
    BY <2>1, <2>2, <2>3 DEF ActionsFit
<1>2. QED
  BY <1>1, NetInvariance, PTL

\* No call gives the mutex back in the middle of the startup phases.
THEOREM NotStranded == NetSpec => []NeverStranded
<1>1. NetIInv => NeverStranded
  BY DEF NetIInv, HeldWhileActing, SettledWhenIdle, NeverStranded
<1>2. QED
  BY <1>1, NetInvariance, PTL

\* While the transfer lock is held only a broken link ends a usable network.
THEOREM TransferIsLocked == NetSpec => TransferLock
<1> DEFINE Kept == net.transfer /\ is_ready_state(net.state) /\ net'.state # net.state
                     => caller' = "off" \/ (net'.state = "RECONNECTING" /\ lost)
<1>1. NetIInv /\ [NetNext]_netVars => [Kept]_netVars
  <2> SUFFICES ASSUME NetIInv, NetNext, net.transfer, is_ready_state(net.state),
                      net'.state # net.state
               PROVE  caller' = "off" \/ (net'.state = "RECONNECTING" /\ lost)
    OBVIOUS
  <2>1. net \in NetSnapshot /\ net.state \in {"CLIENT_READY", "HOTSPOT_READY"}
    BY DEF NetIInv, NetTypeOK, is_ready_state
  <2>2. act.kind \in {"NONE", "PROBE_CLIENT"} /\ caller # "off"
    BY <2>1 DEF NetIInv, NetTypeOK, ActionsAnswerable, HeldWhileActing, Joining, Action,
           ActionKinds
  <2>3. CASE power_cycle \/ deep_sleep \/ esp_restart
    BY <2>3 DEF power_cycle, deep_sleep, esp_restart, ColdStart
  <2>4. CASE \E readable \in BOOLEAN : runtime_start(readable)
    BY <2>2, <2>4 DEF runtime_start
  <2>5. CASE Execute
    <3>1. PICK ok \in BOOLEAN : exec_probe_client(ok)
      BY <2>2, <2>5 DEF Execute, exec_scan_saved, exec_connect_saved, exec_start_hotspot,
             exec_stop_radio, Executing
    <3>2. QED
      BY <2>1, <3>1, NetHealthy DEF exec_probe_client, net_client_unhealthy
  <2>6. CASE task_tick
    <3>1. CASE net.state = "CLIENT_READY" /\ lost
      BY <2>1, <2>6, <3>1, NetLost DEF task_tick
    <3>2. CASE ~(net.state = "CLIENT_READY" /\ lost)
      <4>1. handle_tick
        BY <2>6, <3>2 DEF task_tick
      <4>2. QED
        BY <2>1, <4>1, NetTick
    <3>3. QED
      BY <3>1, <3>2
  <2>7. CASE task_tick_after_loss
    BY <2>1, <2>7, NetTick DEF task_tick_after_loss
  <2>8. CASE \E id \in NetworkIds : configure_station(id)
    BY <2>1, <2>8 DEF configure_station, RetryAllowed
  <2>9. CASE force_hotspot
    BY <2>9 DEF force_hotspot, net_force_hotspot
  <2>10. CASE \E active \in BOOLEAN : set_transfer_active(active)
    BY <2>1, <2>10, NetTransfer DEF set_transfer_active
  <2>11. CASE call_returns \/ task_round_ends \/ configure_hotspot_ephemeral \/ link_lost
              \/ \E written \in BOOLEAN : station_saved(written)
    BY <2>11 DEF call_returns, task_round_ends, configure_hotspot_ephemeral, link_lost,
           station_saved
  <2>12. QED
    BY <2>3, <2>4, <2>5, <2>6, <2>7, <2>8, <2>9, <2>10, <2>11 DEF NetNext, TaskStep
<1>2. QED
  BY <1>1, NetInvariance, PTL DEF NetSpec, TransferLock


(***************************************************************************)
(* The refinement of NetworkView                                           *)
(***************************************************************************)

LEMMA NetFacts ==
    ASSUME NetIInv
    PROVE  /\ net \in NetSnapshot /\ act \in Action /\ caller \in Callers /\ rt \in Runtime
           /\ rt.hotspot \in BOOLEAN
  BY DEF NetIInv, NetTypeOK, Runtime

\* A step that leaves no action behind in HOTSPOT_STARTING was already there without
\* one, or has just found the credential missing.
LEMMA KeepsAwaiting ==
    ASSUME NetIInv, AwaitsCredential, [NetNext]_netVars
    PROVE  AwaitsCredential'
<1> SUFFICES ASSUME act'.kind = "NONE", net'.state = "HOTSPOT_STARTING" PROVE ~rt'.hotspot
  BY DEF AwaitsCredential
<1>1. /\ net \in NetSnapshot
      /\ caller \in {"off", "free"} => act.kind = "NONE"
  BY NetFacts DEF NetIInv, HeldWhileActing
<1>2. rt \in Runtime BY NetFacts
<1>3. CASE UNCHANGED <<net, act, rt>>
  BY <1>3 DEF AwaitsCredential
<1>4. CASE power_cycle \/ deep_sleep \/ esp_restart
  BY <1>4 DEF power_cycle, deep_sleep, esp_restart, ColdStart, NetStopped
<1>5. CASE \E readable \in BOOLEAN : runtime_start(readable)
  BY <1>1, <1>5, NetStart DEF runtime_start
<1>6. CASE Execute
  <2>1. CASE exec_scan_saved
    <3>1. act'.kind # "NONE"
      BY <1>1, <1>2, <2>1, NetScanSelected, NetScanEmpty DEF exec_scan_saved, Runtime
    <3>2. QED BY <3>1
  <2>2. ASSUME NEW ok \in BOOLEAN, exec_connect_saved(ok) PROVE FALSE
    BY <1>1, <2>2, NetConnected, NetFailed DEF exec_connect_saved
  <2>3. ASSUME NEW ok \in BOOLEAN, exec_probe_client(ok) PROVE FALSE
    <3>1. net.state = "CLIENT_READY"
      BY <2>3 DEF exec_probe_client, net_client_healthy, net_client_unhealthy
    <3>2. QED BY <1>1, <2>3, <3>1, NetHealthy, NetUnhealthy DEF exec_probe_client
  <2>4. ASSUME NEW ok \in BOOLEAN, exec_start_hotspot(ok) PROVE ~rt'.hotspot
    <3>1. rt.hotspot => net'.state # "HOTSPOT_STARTING"
      BY <1>1, <2>4, NetHotspotStarted, NetHotspotFailed DEF exec_start_hotspot
    <3>2. rt'.hotspot = rt.hotspot BY <1>2, <2>4 DEF exec_start_hotspot, Runtime
    <3>3. QED BY <3>1, <3>2
  <2>5. ASSUME NEW ok \in BOOLEAN, exec_stop_radio(ok) PROVE FALSE
    <3>1. net.state = "STOPPED"
      BY <2>5 DEF exec_stop_radio, NetIInv, ActionsAnswerable
    <3>2. QED BY <1>1, <2>5, <3>1, NetStart DEF exec_stop_radio
  <2>6. QED BY <1>6, <2>1, <2>2, <2>3, <2>4, <2>5 DEF Execute
<1>7. CASE TaskStep
  <2>1. UNCHANGED rt
    BY <1>7 DEF TaskStep, task_tick, task_tick_after_loss, task_round_ends
  <2>2. CASE task_tick /\ net.state = "CLIENT_READY" /\ lost
    BY <1>1, <2>2, NetLost DEF task_tick
  <2>3. CASE handle_tick /\ act.kind = "NONE"
    <3>1. net.state = "HOTSPOT_STARTING" BY <1>1, <2>3, NetTick
    <3>2. QED BY <2>1, <2>3, <3>1 DEF AwaitsCredential
  <2>4. QED
    BY <1>1, <1>3, <1>7, <2>1, <2>2, <2>3
    DEF TaskStep, task_tick, task_tick_after_loss, task_round_ends, Done
<1>8. CASE \E id \in NetworkIds : configure_station(id)
  <2>1. rt'.hotspot = rt.hotspot BY <1>2, <1>8 DEF configure_station, Runtime
  <2>2. UNCHANGED <<net, act>> BY <1>1, <1>8, NetStop, NetRetry DEF configure_station
  <2>3. QED BY <2>1, <2>2 DEF AwaitsCredential
<1>9. CASE configure_hotspot_ephemeral
  <2>1. net.state = "HOTSPOT_STARTING" /\ rt.awaiting
    BY <1>1, <1>9 DEF configure_hotspot_ephemeral, NetIInv, SettledWhenIdle
  <2>2. act' = Plain("START_HOTSPOT") BY <1>9, <2>1 DEF configure_hotspot_ephemeral
  <2>3. QED BY <2>2 DEF Plain
<1>10. CASE force_hotspot
  BY <1>1, <1>10, NetForce DEF force_hotspot
<1>11. CASE \E active \in BOOLEAN : set_transfer_active(active)
  <2>1. net'.state = net.state /\ rt' = rt /\ act.kind = "NONE"
    BY <1>1, <1>11, NetTransfer DEF set_transfer_active
  <2>2. QED BY <2>1 DEF AwaitsCredential
<1>12. CASE call_returns \/ link_lost \/ UNCHANGED netVars
            \/ \E written \in BOOLEAN : station_saved(written)
  BY <1>3, <1>12 DEF call_returns, link_lost, station_saved, netVars
<1>13. QED
  BY <1>3, <1>4, <1>5, <1>6, <1>7, <1>8, <1>9, <1>10, <1>11, <1>12 DEF NetNext

LEMMA KeepsNothingShown ==
    ASSUME NetIInv, NothingShownWhenOff, [NetNext]_netVars
    PROVE  NothingShownWhenOff'
<1> SUFFICES ASSUME caller' = "off" PROVE ~rt'.hotspot
  BY DEF NothingShownWhenOff
<1>1. caller = "off" => act.kind = "NONE"
  BY NetFacts DEF NetIInv, HeldWhileActing
<1>2. CASE power_cycle \/ deep_sleep \/ esp_restart
  BY <1>2 DEF power_cycle, deep_sleep, esp_restart, ColdStart
<1>3. CASE UNCHANGED <<caller, rt>>
  BY <1>3 DEF NothingShownWhenOff
<1>4. CASE Execute
  BY <1>1, <1>4 DEF Execute, Executing, exec_scan_saved, exec_connect_saved,
     exec_probe_client, exec_start_hotspot, exec_stop_radio
<1>5. CASE TaskStep
  BY <1>3, <1>5 DEF TaskStep, task_tick, task_tick_after_loss, task_round_ends, Done
<1>6. CASE call_returns \/ force_hotspot \/ configure_hotspot_ephemeral \/ link_lost
           \/ (\E readable \in BOOLEAN : runtime_start(readable))
           \/ (\E id \in NetworkIds : configure_station(id))
           \/ (\E active \in BOOLEAN : set_transfer_active(active))
           \/ (\E written \in BOOLEAN : station_saved(written))
  BY <1>3, <1>6 DEF call_returns, force_hotspot, configure_hotspot_ephemeral, link_lost,
     runtime_start, configure_station, set_transfer_active, station_saved
<1>7. QED
  BY <1>2, <1>3, <1>4, <1>5, <1>6 DEF NetNext, netVars

LEMMA AlwaysAwaiting == NetSpec => [](AwaitsCredential /\ NothingShownWhenOff)
<1>1. NetInit => AwaitsCredential /\ NothingShownWhenOff
  BY DEF NetInit, BootRam, NetStopped, AwaitsCredential, NothingShownWhenOff
<1>2. /\ NetIInv /\ AwaitsCredential /\ NothingShownWhenOff /\ [NetNext]_netVars
      => (AwaitsCredential /\ NothingShownWhenOff)'
  BY KeepsAwaiting, KeepsNothingShown
<1>3. QED BY <1>1, <1>2, NetInvariance, PTL DEF NetSpec

\* What the view shows of a state and of a caller.
Shown(state) == IF state \in {"HOTSPOT_STARTING", "HOTSPOT_READY", "CLIENT_READY"}
                THEN state ELSE "OTHER"
HolderOf(who) == IF who \in {"off", "free"} THEN who
                 ELSE IF who \in {"join", "restart"} THEN "join" ELSE "other"

LEMMA ShownFacts ==
    ASSUME NEW state
    PROVE  /\ Shown(state) \in View!Views
           /\ Shown(state) = "HOTSPOT_STARTING" <=> state = "HOTSPOT_STARTING"
  BY DEF Shown, View!Views

\* The steps of the view in these terms.
LEMMA ViewMoves ==
    ASSUME \/ /\ HolderOf(caller) = "off" /\ HolderOf(caller') = "other"
              /\ Shown(net'.state) = Shown(net.state) /\ rt'.hotspot = rt.hotspot
           \/ /\ HolderOf(caller) = "free" /\ HolderOf(caller') \in {"join", "other"}
              /\ rt'.hotspot = rt.hotspot
           \/ /\ HolderOf(caller) \in {"join", "other"} /\ HolderOf(caller') = HolderOf(caller)
              /\ rt'.hotspot = rt.hotspot
           \/ /\ HolderOf(caller) \in {"join", "other"} /\ HolderOf(caller') = "free"
              /\ net'.state = "HOTSPOT_STARTING" => ~rt.hotspot
              /\ rt'.hotspot = rt.hotspot
           \/ /\ HolderOf(caller) = "free" /\ rt'.hotspot = TRUE
              /\ HolderOf(caller') = IF Shown(net.state) = "HOTSPOT_STARTING" THEN "other" ELSE "free"
              /\ Shown(net'.state) = Shown(net.state)
           \/ /\ HolderOf(caller) # "off" /\ HolderOf(caller') = "off"
              /\ Shown(net'.state) = "OTHER" /\ rt'.hotspot = FALSE
           \/ /\ HolderOf(caller') = HolderOf(caller) /\ Shown(net'.state) = Shown(net.state)
              /\ rt'.hotspot = rt.hotspot
    PROVE  View!ViewNext \/ UNCHANGED View!viewVars
<1>1. Shown(net'.state) \in View!Views
      /\ (Shown(net'.state) = "HOTSPOT_STARTING" <=> net'.state = "HOTSPOT_STARTING")
  BY ShownFacts
<1>2. QED
  BY <1>1 DEF Shown, HolderOf, View!ViewNext, View!viewVars, View!view_boots, View!view_take,
     View!view_work, View!view_release, View!view_credential, View!view_restarts, View!Held

\* Every step of the runtime is a step of the view or leaves it alone.
LEMMA ViewSteps ==
    ASSUME NetIInv, AwaitsCredential, NothingShownWhenOff, [NetNext]_netVars
    PROVE  View!ViewNext \/ UNCHANGED View!viewVars
<1>1. /\ net \in NetSnapshot /\ rt \in Runtime /\ caller \in Callers
      /\ caller \in {"off", "free"} => act.kind = "NONE"
      /\ caller = "restart" => act.kind = "STOP_RADIO"
      /\ caller = "off" => net.state = "STOPPED"
      /\ act.kind = "STOP_RADIO" => net.state = "STOPPED" /\ caller = "restart"
  BY NetFacts DEF NetIInv, HeldWhileActing, ActionsAnswerable
<1>2. CASE power_cycle \/ deep_sleep \/ esp_restart
  <2>1. /\ caller' = "off" /\ net' = NetStopped /\ rt'.hotspot = FALSE
    BY <1>2 DEF power_cycle, deep_sleep, esp_restart, ColdStart
  <2>2. Shown(net'.state) = "OTHER" /\ HolderOf(caller') = "off"
    BY <2>1 DEF NetStopped, Shown, HolderOf
  <2>3. CASE caller # "off"
    <3>1. HolderOf(caller) # "off" BY <2>3 DEF HolderOf
    <3>2. QED BY <2>1, <2>2, <3>1, ViewMoves
  <2>4. CASE caller = "off"
    <3>1. HolderOf(caller) = "off" /\ Shown(net.state) = "OTHER"
      BY <1>1, <2>4 DEF HolderOf, Shown
    <3>2. rt'.hotspot = rt.hotspot BY <1>1, <2>1, <2>4 DEF NothingShownWhenOff, Runtime
    <3>3. QED BY <2>2, <3>1, <3>2, ViewMoves
  <2>5. QED BY <2>3, <2>4
<1>3. CASE \E readable \in BOOLEAN : runtime_start(readable)
  <2>1. caller = "off" /\ caller' = "boot" /\ net'.state = "SEARCHING" /\ net.state = "STOPPED"
    BY <1>1, <1>3, NetStart DEF runtime_start
  <2>2. rt'.hotspot = rt.hotspot BY <1>1, <1>3 DEF runtime_start, Runtime
  <2>3. HolderOf(caller) = "off" /\ HolderOf(caller') = "other" BY <2>1 DEF HolderOf
  <2>4. Shown(net'.state) = Shown(net.state) BY <2>1 DEF Shown
  <2>5. QED BY <2>2, <2>3, <2>4, ViewMoves
<1>4. CASE Execute
  <2>1. act.kind # "NONE" BY <1>4 DEF Execute, Executing, exec_scan_saved, exec_connect_saved,
        exec_probe_client, exec_start_hotspot, exec_stop_radio
  <2>2. HolderOf(caller) \in {"join", "other"} BY <1>1, <2>1 DEF HolderOf
  <2>3. rt'.hotspot = rt.hotspot
    BY <1>1, <1>4 DEF Execute, exec_scan_saved, exec_connect_saved, exec_probe_client,
       exec_start_hotspot, exec_stop_radio, Runtime
  <2>4. CASE \E ok \in BOOLEAN : exec_stop_radio(ok)
    <3>1. net.state = "STOPPED" /\ caller = "restart" BY <1>1, <2>4 DEF exec_stop_radio
    <3>2. caller' = "join" \/ (caller' = "free" /\ net' = net) BY <2>4 DEF exec_stop_radio
    <3>3. CASE caller' = "join"
      <4>1. HolderOf(caller') = HolderOf(caller) BY <3>1, <3>3 DEF HolderOf
      <4>2. QED BY <2>2, <2>3, <4>1, ViewMoves
    <3>4. CASE caller' = "free" /\ net' = net
      <4>1. HolderOf(caller') = "free" BY <3>4 DEF HolderOf
      <4>2. net'.state # "HOTSPOT_STARTING" BY <3>1, <3>4
      <4>3. QED BY <2>2, <2>3, <4>1, <4>2, ViewMoves
    <3>5. QED BY <3>2, <3>3, <3>4
  <2>5. CASE ~\E ok \in BOOLEAN : exec_stop_radio(ok)
    <3>1. caller' = caller
      BY <1>4, <2>5 DEF Execute, exec_scan_saved, exec_connect_saved, exec_probe_client,
         exec_start_hotspot
    <3>2. QED BY <2>2, <2>3, <3>1, ViewMoves
  <2>6. QED BY <2>4, <2>5
<1>5. CASE call_returns \/ task_round_ends \/ \E written \in BOOLEAN : station_saved(written)
  <2>1. /\ caller \in {"boot", "hotspot", "force", "tick", "join"} /\ act.kind = "NONE"
        /\ caller' = "free" /\ UNCHANGED <<net, rt>>
    BY <1>5 DEF call_returns, task_round_ends, station_saved, Done
  <2>2. HolderOf(caller) \in {"join", "other"} /\ HolderOf(caller') = "free"
    BY <2>1 DEF HolderOf
  <2>3. net'.state = "HOTSPOT_STARTING" => ~rt.hotspot BY <2>1 DEF AwaitsCredential
  <2>4. QED BY <2>1, <2>2, <2>3, ViewMoves
<1>6. CASE task_tick \/ force_hotspot
  <2>1. /\ caller = "free" /\ caller' \in {"lost", "tick", "force"} /\ rt' = rt
    BY <1>6 DEF task_tick, force_hotspot
  <2>2. HolderOf(caller) = "free" /\ HolderOf(caller') = "other" BY <2>1 DEF HolderOf
  <2>3. QED BY <2>1, <2>2, ViewMoves
<1>7. CASE task_tick_after_loss
  <2>1. caller = "lost" /\ caller' = "tick" /\ rt' = rt BY <1>7 DEF task_tick_after_loss, Done
  <2>2. HolderOf(caller) = "other" /\ HolderOf(caller') = "other" BY <2>1 DEF HolderOf
  <2>3. QED BY <2>1, <2>2, ViewMoves
<1>8. CASE \E id \in NetworkIds : configure_station(id)
  <2>1. rt'.hotspot = rt.hotspot BY <1>1, <1>8 DEF configure_station, Runtime
  <2>2. caller = "free" /\ (caller' \in {"restart", "join"} \/ (caller' = caller /\ net' = net))
    BY <1>8 DEF configure_station
  <2>3. HolderOf(caller) = "free" BY <2>2 DEF HolderOf
  <2>4. CASE caller' \in {"restart", "join"}
    <3>1. HolderOf(caller') = "join" BY <2>4 DEF HolderOf
    <3>2. QED BY <2>1, <2>3, <3>1, ViewMoves
  <2>5. CASE caller' = caller /\ net' = net BY <2>1, <2>5, ViewMoves
  <2>6. QED BY <2>2, <2>4, <2>5
<1>9. CASE configure_hotspot_ephemeral
  <2>1. caller = "free" /\ rt'.hotspot = TRUE /\ net' = net
    BY <1>1, <1>9 DEF configure_hotspot_ephemeral, Runtime
  <2>2. net.state = "HOTSPOT_STARTING" => rt.awaiting
    BY <1>1, <2>1 DEF NetIInv, SettledWhenIdle
  <2>3. caller' = IF net.state = "HOTSPOT_STARTING" THEN "hotspot" ELSE "free"
    BY <1>9, <2>1, <2>2 DEF configure_hotspot_ephemeral
  <2>4. /\ HolderOf(caller) = "free"
        /\ HolderOf(caller') = IF Shown(net.state) = "HOTSPOT_STARTING" THEN "other" ELSE "free"
    BY <2>1, <2>3, ShownFacts DEF HolderOf
  <2>5. QED BY <2>1, <2>4, ViewMoves
<1>10. CASE link_lost \/ UNCHANGED netVars \/ \E active \in BOOLEAN : set_transfer_active(active)
  <2>1. net'.state = net.state /\ caller' = caller /\ rt' = rt
    BY <1>1, <1>10, NetTransfer DEF link_lost, netVars, set_transfer_active
  <2>2. QED BY <2>1, ViewMoves
<1>11. QED
  BY <1>2, <1>3, <1>4, <1>5, <1>6, <1>7, <1>8, <1>9, <1>10 DEF NetNext, TaskStep

\* What revlink_network_runtime.h promises onboarding and the display is what the runtime
\* does, step by step: calls exclude each other, a hotspot is left half started only while
\* it has no credential, and the credential starts it.  That calls end is checked by TLC.
THEOREM NetworkKeepsView ==
    NetSpec => View!ViewInit /\ [][View!ViewNext]_(View!viewVars)
<1>1. NetInit => View!ViewInit
  BY DEF NetInit, BootRam, NetStopped, View!ViewInit
<1>2. /\ NetIInv /\ AwaitsCredential /\ NothingShownWhenOff /\ [NetNext]_netVars
      => [View!ViewNext]_(View!viewVars)
  BY ViewSteps
<1>3. QED BY <1>1, <1>2, NetInvariance, AlwaysAwaiting, PTL DEF NetSpec

(***************************************************************************)
(* The radio                                                               *)
(***************************************************************************)

\* What the queue of the event loop still holds after each way it changes.
LEMMA SameWaits ==
    ASSUME events' = events, NEW e
    PROVE  Waiting(e)' <=> Waiting(e)
  BY DEF Waiting

LEMMA AppendWaits ==
    ASSUME events \in Seq(Events), NEW f \in Events, events' = Append(events, f), NEW e
    PROVE  events' \in Seq(Events) /\ (Waiting(e)' <=> e = f \/ Waiting(e))
<1>1. /\ events' \in Seq(Events) /\ Len(events') = Len(events) + 1
      /\ \A i \in 1..Len(events) : events'[i] = events[i]
      /\ events'[Len(events) + 1] = f
  OBVIOUS
<1>2. DOMAIN events = 1..Len(events) /\ DOMAIN events' = 1..Len(events') /\ Len(events) \in Nat
  BY <1>1
<1>3. ASSUME Waiting(e)' PROVE e = f \/ Waiting(e)
  <2>1. PICK i \in 1..Len(events') : events'[i] = e BY <1>2, <1>3 DEF Waiting
  <2>2. i \in 1..Len(events) \/ i = Len(events) + 1 BY <1>1, <1>2
  <2>3. QED BY <1>1, <1>2, <2>1, <2>2 DEF Waiting
<1>4. ASSUME Waiting(e) PROVE Waiting(e)'
  <2>1. PICK i \in 1..Len(events) : events[i] = e BY <1>2, <1>4 DEF Waiting
  <2>2. i \in 1..Len(events') /\ events'[i] = e BY <1>1, <1>2, <2>1
  <2>3. QED BY <1>2, <2>2 DEF Waiting
<1>5. ASSUME e = f PROVE Waiting(e)'
  <2>1. Len(events) + 1 \in 1..Len(events') BY <1>1, <1>2
  <2>2. QED BY <1>1, <1>2, <1>5, <2>1 DEF Waiting
<1>6. QED BY <1>1, <1>3, <1>4, <1>5

LEMMA TailWaits ==
    ASSUME events \in Seq(Events), events # <<>>, events' = Tail(events), NEW e
    PROVE  /\ events' \in Seq(Events) /\ Head(events) \in Events
           /\ Head(events) = e => Waiting(e)
           /\ Waiting(e)' => Waiting(e)
<1>1. /\ events' \in Seq(Events) /\ Head(events) = events[1] /\ Head(events) \in Events
      /\ Len(events) \in Nat \ {0} /\ Len(events') = Len(events) - 1
      /\ \A i \in 1..Len(events') : events'[i] = events[i + 1]
  OBVIOUS
<1>2. DOMAIN events = 1..Len(events) /\ DOMAIN events' = 1..Len(events')
  BY <1>1
<1>3. ASSUME Waiting(e)' PROVE Waiting(e)
  <2>1. PICK i \in 1..Len(events') : events'[i] = e BY <1>2, <1>3 DEF Waiting
  <2>2. i + 1 \in 1..Len(events) /\ events[i + 1] = e BY <1>1, <2>1
  <2>3. QED BY <1>2, <2>2 DEF Waiting
<1>4. 1 \in 1..Len(events) BY <1>1
<1>5. QED BY <1>1, <1>2, <1>3, <1>4 DEF Waiting

LEMMA StopWaits ==
    ASSUME events \in Seq(Events), events' = StopEvents, NEW e, e # "DISCONNECTED"
    PROVE  events' \in Seq(Events) /\ (Waiting(e)' <=> Waiting(e))
<1>1. CASE events' = events BY <1>1, SameWaits
<1>2. CASE events' = Append(events, "DISCONNECTED")
  <2>1. "DISCONNECTED" \in Events BY DEF Events
  <2>2. QED BY <1>2, <2>1, AppendWaits
<1>3. QED BY <1>1, <1>2 DEF StopEvents

Drivers == [mode : {"STA", "AP"}, running : BOOLEAN, want : Networks \union {None},
            sta : Networks \union {None}, ap : BOOLEAN]
Calls == [kind : {"none", "off", "scan", "connect", "hotspot", "stop", "probe"},
          pc : {"none", "begin", "stop", "mode", "up", "scan", "settle", "clear", "wait",
                "lower", "publish", "ask"},
          id : Networks \union {None}, prev : RadioStates, ok : BOOLEAN]
Clients == [id : Networks \union {None}, failures : 0..Threshold - 1]

LEMMA RadioConstants ==
    /\ NoOp \in Calls /\ Off \in Drivers /\ NotClient \in Clients /\ None \notin Networks
    /\ [NoOp EXCEPT !.kind = "off"] \in Calls
    /\ [NoOp EXCEPT !.kind = "scan", !.pc = "stop"] \in Calls
    /\ [NoOp EXCEPT !.kind = "hotspot", !.pc = "stop"] \in Calls
    /\ [NoOp EXCEPT !.kind = "probe", !.pc = "ask"] \in Calls
    /\ [Off EXCEPT !.running = TRUE] \in Drivers
<1>1. NoOp \in Calls BY DEF NoOp, Calls, RadioStates
<1>2. Off \in Drivers BY DEF Off, Drivers
<1>3. 0 \in 0..Threshold - 1 /\ None \notin Networks BY RadioAssumption
<1>4. NotClient \in Clients BY <1>3 DEF NotClient, Clients
<1>5. QED BY <1>1, <1>2, <1>3, <1>4 DEF Calls, Drivers

\* What the calls and the driver make of the driver's record, and of a client's.
LEMMA DriverChanges ==
    ASSUME drv \in Drivers, NEW n \in Networks \union {None}, NEW b \in BOOLEAN
    PROVE  /\ [drv EXCEPT !.want = n] \in Drivers /\ [drv EXCEPT !.sta = None] \in Drivers
           /\ [drv EXCEPT !.want = None, !.sta = n] \in Drivers
           /\ [drv EXCEPT !.ap = b] \in Drivers /\ [drv EXCEPT !.mode = "STA", !.ap = b] \in Drivers
           /\ Stopped \in Drivers
<1>1. [drv EXCEPT !.want = n] \in Drivers /\ [drv EXCEPT !.sta = None] \in Drivers BY DEF Drivers
<1>2. [drv EXCEPT !.want = None, !.sta = n] \in Drivers BY DEF Drivers
<1>3. [drv EXCEPT !.ap = b] \in Drivers BY DEF Drivers
<1>4. [drv EXCEPT !.mode = "STA", !.ap = b] \in Drivers BY DEF Drivers
<1>5. Stopped \in Drivers BY DEF Stopped, Drivers
<1>6. QED BY <1>1, <1>2, <1>3, <1>4, <1>5

LEMMA HistoryChanges ==
    ASSUME hist \in [ip : BOOLEAN, raced : BOOLEAN], NEW b \in BOOLEAN
    PROVE  /\ [hist EXCEPT !.ip = b] \in [ip : BOOLEAN, raced : BOOLEAN]
           /\ [hist EXCEPT !.raced = b] \in [ip : BOOLEAN, raced : BOOLEAN]
           /\ hist.raced \in BOOLEAN
  OBVIOUS

LEMMA ClientChanges ==
    ASSUME client \in Clients, NEW n \in 0..Threshold - 1
    PROVE  /\ [client EXCEPT !.failures = n] \in Clients
           /\ [client EXCEPT !.failures = n].id = client.id
  BY DEF Clients

LEMMA RadioTypes ==
    ASSUME RadioTypeOK
    PROVE  /\ snap \in RadioStates /\ join \in BOOLEAN /\ bits \subseteq Bits
           /\ events \in Seq(Events) /\ drv \in Drivers /\ op \in Calls /\ client \in Clients
           /\ finish \in {"none", "due", "checked"} /\ hist \in [ip : BOOLEAN, raced : BOOLEAN]
           /\ transferring \in BOOLEAN
  BY DEF RadioTypeOK, Drivers, Calls, Clients

\* What a step has to show for the types, and for what each call publishes.
LEMMA RadioTypesKept ==
    ASSUME /\ snap' \in RadioStates /\ join' \in BOOLEAN /\ bits' \subseteq Bits
           /\ events' \in Seq(Events) /\ drv' \in Drivers /\ op' \in Calls /\ client' \in Clients
           /\ finish' \in {"none", "due", "checked"} /\ hist' \in [ip : BOOLEAN, raced : BOOLEAN]
           /\ transferring' \in BOOLEAN
    PROVE  RadioTypeOK'
  BY DEF RadioTypeOK, Drivers, Calls, Clients

LEMMA SamePublished ==
    ASSUME CallPublishes, UNCHANGED <<snap, op, client>>
    PROVE  CallPublishes'
  BY DEF CallPublishes, Idle

\* Every step keeps the types and publishes its own states only.
LEMMA KeepsPublishing ==
    ASSUME RadioTypeOK, CallPublishes, RadioNext
    PROVE  RadioTypeOK' /\ CallPublishes'
<1> USE RadioConstants
<1>1. /\ snap \in RadioStates /\ join \in BOOLEAN /\ bits \subseteq Bits
      /\ events \in Seq(Events) /\ drv \in Drivers /\ op \in Calls /\ client \in Clients
      /\ finish \in {"none", "due", "checked"} /\ hist \in [ip : BOOLEAN, raced : BOOLEAN]
  BY RadioTypes
<1>2. transferring \in BOOLEAN BY RadioTypes
<1>3. /\ RadioStates = {"DISABLED", "STARTING", "SCANNING", "READY", "CONNECTING", "CONNECTED",
                "HOTSPOT_STARTING", "HOTSPOT_READY", "FAILED"}
      /\ Bits = {"CONNECTED", "FAILED", "STARTED"}
      /\ Events = {"GOT_IP", "DISCONNECTED", "LOST_IP", "AP_START"}
  BY DEF RadioStates, Bits, Events
<1>4. transferring' \in BOOLEAN
  BY <1>2 DEF RadioNext, Driver, driver_joins, driver_gives_up, driver_starts_ap, link_breaks,
     wifi_event_handler, radio_start, Call, Restart, restart_stop, restart_mode, restart_up,
     restart_fails, perform_scan, scan_ends, connect_settle, connect_clear, connect_refused,
     connect_wait, connect_lower, connect_publish, hotspot_wait, probe_gateway, Policy,
     connect_begin, hotspot_begin, radio_stop, RuntimeTask, runtime_sees_loss, probe_begin,
     finish_check, finish_switch, transfer_changes
<1>5. CASE Driver \/ link_breaks
  <2>1. PICK e \in Events : events' = Append(events, e)
    BY <1>3, <1>5 DEF Driver, driver_joins, driver_gives_up, driver_starts_ap, link_breaks
  <2>2. drv' \in Drivers /\ hist' \in [ip : BOOLEAN, raced : BOOLEAN]
    <3>1. drv.want \in Networks \union {None} BY <1>1 DEF Drivers
    <3>2. CASE driver_joins BY <1>1, <3>1, <3>2, DriverChanges, HistoryChanges DEF driver_joins
    <3>3. CASE driver_gives_up BY <1>1, <3>3, DriverChanges DEF driver_gives_up
    <3>4. CASE driver_starts_ap BY <1>1, <3>4, DriverChanges DEF driver_starts_ap
    <3>5. CASE link_breaks BY <1>1, <3>5, DriverChanges DEF link_breaks
    <3>6. QED BY <1>5, <3>2, <3>3, <3>4, <3>5 DEF Driver
  <2>3. UNCHANGED <<snap, join, bits, op, client, finish>>
    BY <1>5 DEF Driver, driver_joins, driver_gives_up, driver_starts_ap, link_breaks
  <2>4. events' \in Seq(Events) BY <1>1, <2>1, AppendWaits
  <2>5. QED BY <1>1, <2>2, <2>3, <2>4, <1>4, RadioTypesKept, SamePublished
<1>6. CASE wifi_event_handler
  <2>1. /\ snap' = snap \/ (snap = "CONNECTED" /\ snap' = "FAILED")
        /\ bits' \subseteq Bits /\ events # <<>> /\ events' = Tail(events)
        /\ UNCHANGED <<join, drv, op, client, finish, hist>>
    BY <1>1, <1>3, <1>6 DEF wifi_event_handler
  <2>2. events' \in Seq(Events) BY <1>1, <2>1, TailWaits
  <2>3. snap' \in RadioStates BY <1>1, <1>3, <2>1
  <2>4. CallPublishes' BY <2>1 DEF CallPublishes, Idle
  <2>5. QED BY <1>1, <2>1, <2>2, <2>3, <2>4, <1>4, RadioTypesKept
<1>7. CASE Restart
  <2>1. CASE restart_fails
    <3>1. /\ snap' \in {"FAILED", "READY", "SCANNING"} /\ op' = NoOp /\ client' = NotClient
          /\ UNCHANGED <<join, bits, events, drv, finish, hist>>
      BY <2>1 DEF restart_fails, CallPublishes
    <3>2. CallPublishes' BY <3>1 DEF CallPublishes, NoOp, NotClient, Idle
    <3>3. QED BY <1>1, <1>3, <3>1, <3>2, <1>4, RadioTypesKept
  <2>2. CASE restart_stop \/ restart_mode \/ restart_up
    <3>1. /\ op.kind \in {"scan", "connect", "hotspot"} /\ drv' \in Drivers
          /\ \E pc \in {"mode", "up", "settle", "scan", "wait"} : Goto(pc)
          /\ UNCHANGED <<snap, join, bits, client, finish, hist>>
      <4>1. CASE restart_stop BY <1>1, <4>1 DEF restart_stop, Restarts, Stopped, Drivers
      <4>2. CASE restart_mode
        <5>1. OpMode \in {"STA", "AP"} BY DEF OpMode
        <5>2. QED BY <1>1, <4>2, <5>1 DEF restart_mode, Restarts, Drivers
      <4>3. CASE restart_up
        <5>1. AfterUp \in {"settle", "scan", "wait"} BY DEF AfterUp
        <5>2. QED BY <1>1, <4>3, <5>1 DEF restart_up, Restarts, Drivers
      <4>4. QED BY <2>2, <4>1, <4>2, <4>3
    <3>2. events' \in Seq(Events)
      BY <1>1, <2>2, StopWaits DEF restart_stop, restart_mode, restart_up
    <3>3. PICK pc \in {"mode", "up", "settle", "scan", "wait"} : op' = [op EXCEPT !.pc = pc]
      BY <3>1 DEF Goto
    <3>4. op' \in Calls /\ op'.kind = op.kind /\ op'.pc = pc BY <1>1, <3>3 DEF Calls
    <3>5. CallPublishes' BY <3>1, <3>4 DEF CallPublishes, Idle
    <3>6. QED BY <1>1, <3>1, <3>2, <3>4, <3>5, <1>4, RadioTypesKept
  <2>3. QED BY <1>7, <2>1, <2>2 DEF Restart
<1>8. CASE radio_start
  <2>1. CASE snap' = "FAILED" /\ UNCHANGED <<drv, op>>
    <3>1. UNCHANGED <<join, bits, events, client, finish, hist>> /\ op.kind = "off"
      BY <1>8 DEF radio_start
    <3>2. CallPublishes' BY <2>1, <3>1 DEF CallPublishes, Idle
    <3>3. QED BY <1>1, <1>3, <2>1, <3>1, <3>2, <1>4, RadioTypesKept
  <2>2. CASE snap' = "READY" /\ drv' = [Off EXCEPT !.running = TRUE]
             /\ op' = [NoOp EXCEPT !.kind = "scan", !.pc = "stop"]
    <3>1. UNCHANGED <<join, bits, events, client, finish, hist>> /\ op.kind = "off"
      BY <1>8 DEF radio_start
    <3>2. op'.kind = "scan" BY <2>2 DEF NoOp
    <3>3. CallPublishes' BY <2>2, <3>1, <3>2 DEF CallPublishes, Idle
    <3>4. QED BY <1>1, <1>3, <2>2, <3>1, <3>3, <1>4, RadioTypesKept
  <2>3. QED BY <1>8, <2>1, <2>2 DEF radio_start
<1>9. CASE perform_scan \/ scan_ends
  <2>1. /\ op.kind = "scan" /\ snap' \in {"SCANNING", "READY", "FAILED"}
        /\ (op' = [op EXCEPT !.pc = "publish"] /\ snap' = "SCANNING") \/ op' = NoOp
        /\ UNCHANGED <<join, bits, events, drv, client, finish, hist>>
    BY <1>9 DEF perform_scan, scan_ends, At, Goto
  <2>2. /\ op' \in Calls /\ op'.kind \in {"none", "scan"}
        /\ op'.kind = "scan" => snap' = "SCANNING"
    <3>1. CASE op' = [op EXCEPT !.pc = "publish"] /\ snap' = "SCANNING"
      <4>1. op' \in Calls /\ op'.kind = op.kind BY <1>1, <3>1 DEF Calls
      <4>2. QED BY <2>1, <3>1, <4>1
    <3>2. CASE op' = NoOp
      <4>1. op'.kind = "none" BY <3>2 DEF NoOp
      <4>2. QED BY <3>2, <4>1
    <3>3. QED BY <2>1, <3>1, <3>2
  <2>3. CallPublishes' BY <2>1, <2>2 DEF CallPublishes, Idle
  <2>4. QED BY <1>1, <1>3, <2>1, <2>2, <2>3, <1>4, RadioTypesKept
<1>10. ASSUME NEW id \in Networks \union {None}, NEW pc \in {"clear", "stop"},
             op' = [kind |-> "connect", id |-> id, prev |-> snap, ok |-> FALSE, pc |-> pc],
             snap' = "CONNECTING", client' = NotClient,
             UNCHANGED <<join, bits, events, drv, finish, hist>>
      PROVE  RadioTypeOK' /\ CallPublishes'
  <2>1. op' \in Calls /\ op'.kind = "connect" /\ op'.pc = pc BY <1>1, <1>10 DEF Calls
  <2>2. CallPublishes' BY <1>10, <2>1 DEF CallPublishes, NotClient, Idle
  <2>3. QED BY <1>1, <1>3, <1>10, <2>1, <2>2, <1>4, RadioTypesKept
<1>11. ASSUME NEW id \in Networks \union {None}, connect_begin(id)
      PROVE  RadioTypeOK' /\ CallPublishes'
  <2> DEFINE pc == IF drv.mode = "STA" /\ drv.running /\ snap = "READY" THEN "clear" ELSE "stop"
  <2>1. /\ op' = [kind |-> "connect", id |-> id, prev |-> snap, ok |-> FALSE, pc |-> pc]
        /\ snap' = "CONNECTING" /\ client' = NotClient
        /\ UNCHANGED <<join, bits, events, drv, finish, hist>>
    BY <1>11 DEF connect_begin
  <2>2. pc \in {"clear", "stop"} OBVIOUS
  <2> HIDE DEF pc
  <2>3. QED BY <1>10, <2>1, <2>2
<1>12. CASE connect_settle \/ connect_clear \/ connect_wait \/ connect_lower
  <2>1. op.kind = "connect" /\ UNCHANGED <<snap, events, client, finish>>
    BY <1>12 DEF connect_settle, connect_clear, connect_wait, connect_lower, At
  <2>2. op' \in Calls /\ op'.kind = "connect" /\ op'.pc # "none"
    <3>1. ("CONNECTED" \in bits) \in BOOLEAN OBVIOUS
    <3>2. ASSUME NEW pc \in {"clear", "wait", "lower", "publish"}, op' = [op EXCEPT !.pc = pc]
          PROVE  op' \in Calls /\ op'.kind = "connect" /\ op'.pc # "none"
      BY <1>1, <2>1, <3>2 DEF Calls
    <3>3. ASSUME NEW ok \in BOOLEAN, op' = [op EXCEPT !.pc = "lower", !.ok = ok]
          PROVE  op' \in Calls /\ op'.kind = "connect" /\ op'.pc # "none"
      BY <1>1, <2>1, <3>3 DEF Calls
    <3>4. QED
      BY <1>12, <3>1, <3>2, <3>3
      DEF connect_settle, connect_clear, connect_wait, connect_lower, Goto
  <2>3. join' \in BOOLEAN /\ bits' \subseteq Bits
    BY <1>1, <1>12 DEF connect_settle, connect_clear, connect_wait, connect_lower
  <2>4. drv' \in Drivers /\ hist' \in [ip : BOOLEAN, raced : BOOLEAN]
    <3>1. CASE connect_clear
      <4>1. op.id \in Networks \union {None} BY <1>1 DEF Calls
      <4>2. drv' = [drv EXCEPT !.want = op.id] /\ hist' = [hist EXCEPT !.ip = FALSE]
        BY <3>1 DEF connect_clear
      <4>3. drv' \in Drivers BY <1>1, <4>1, <4>2 DEF Drivers
      <4>4. hist' \in [ip : BOOLEAN, raced : BOOLEAN] BY <1>1, <4>2
      <4>5. QED BY <4>3, <4>4
    <3>2. CASE UNCHANGED <<drv, hist>> BY <1>1, <3>2
    <3>3. QED BY <1>12, <3>1, <3>2 DEF connect_settle, connect_wait, connect_lower
  <2>5. CallPublishes' BY <2>1, <2>2 DEF CallPublishes, Idle
  <2>6. QED BY <1>1, <2>1, <2>2, <2>3, <2>4, <2>5, <1>4, RadioTypesKept
<1>13. CASE connect_refused
  <2>1. /\ op.kind = "connect" /\ snap' = "FAILED" /\ op' = NoOp /\ bits' \subseteq Bits
        /\ UNCHANGED <<join, events, drv, client, finish, hist>>
    BY <1>1, <1>13 DEF connect_refused, At
  <2>2. CallPublishes' BY <2>1 DEF CallPublishes, NoOp, Idle
  <2>3. QED BY <1>1, <1>3, <2>1, <2>2, <1>4, RadioTypesKept
<1>14. CASE connect_publish
  <2>1. /\ op.kind = "connect" /\ op' = NoOp /\ snap' \in {"CONNECTED", "FAILED"}
        /\ UNCHANGED <<join, bits, events, drv, hist>>
        /\ finish' \in {"none", "due", "checked"}
    BY <1>1, <1>14 DEF connect_publish, At
  <2>2. client' \in Clients
    <3>1. 0 \in 0..Threshold - 1 BY RadioAssumption
    <3>2. op.id \in Networks \union {None} BY <1>1 DEF Calls
    <3>3. CASE client' = [id |-> op.id, failures |-> 0] BY <3>1, <3>2, <3>3 DEF Clients
    <3>4. CASE client' = NotClient BY <3>4
    <3>5. QED BY <1>14, <3>3, <3>4 DEF connect_publish
  <2>3. CallPublishes' BY <2>1 DEF CallPublishes, NoOp, Idle
  <2>4. QED BY <1>1, <1>3, <2>1, <2>2, <2>3, <1>4, RadioTypesKept
<1>15. CASE hotspot_begin
  <2>1. /\ op' = [NoOp EXCEPT !.kind = "hotspot", !.pc = "stop"] /\ snap' = "HOTSPOT_STARTING"
        /\ client' = NotClient /\ UNCHANGED <<join, events, drv, finish>> /\ bits' \subseteq Bits
    BY <1>1, <1>15 DEF hotspot_begin
  <2>2. hist' \in [ip : BOOLEAN, raced : BOOLEAN]
    BY <1>1, <1>15 DEF hotspot_begin, LateStart, Waiting, Starting
  <2>3. op'.kind = "hotspot" BY <2>1 DEF NoOp
  <2>4. CallPublishes' BY <2>1, <2>3 DEF CallPublishes, NotClient, Idle
  <2>5. QED BY <1>1, <1>3, <2>1, <2>2, <2>4, <1>4, RadioTypesKept
<1>16. CASE hotspot_wait
  <2>1. /\ op.kind = "hotspot" /\ op' = NoOp /\ snap' \in {"HOTSPOT_READY", "FAILED"}
        /\ bits' \subseteq Bits /\ UNCHANGED <<join, events, drv, client, finish, hist>>
    BY <1>1, <1>16 DEF hotspot_wait, At
  <2>2. client.id = None BY <2>1 DEF CallPublishes
  <2>3. CallPublishes' BY <2>1, <2>2 DEF CallPublishes, NoOp, Idle
  <2>4. QED BY <1>1, <1>3, <2>1, <2>3, <1>4, RadioTypesKept
<1>17. CASE radio_stop
  <2>1. /\ op.kind = "none" /\ client' = NotClient /\ snap' \in {"READY", "FAILED"}
        /\ UNCHANGED <<join, bits, op, finish, hist>> /\ drv' \in {drv, Stopped}
    BY <1>17 DEF radio_stop, Idle
  <2>2. events' \in Seq(Events) BY <1>1, <1>17, StopWaits DEF radio_stop
  <2>3. CallPublishes' BY <2>1 DEF CallPublishes, NotClient, Idle
  <2>4. drv' \in Drivers BY <1>1, <2>1, DriverChanges
  <2>5. QED BY <1>1, <1>3, <2>1, <2>2, <2>3, <2>4, <1>4, RadioTypesKept
<1>18. CASE runtime_sees_loss
  <2>1. client.id \in Networks \union {None} BY <1>1 DEF Clients
  <2>2. QED BY <1>11, <1>18, <2>1 DEF runtime_sees_loss
<1>19. CASE probe_begin
  <2>1. /\ op' = [NoOp EXCEPT !.kind = "probe", !.pc = "ask"] /\ client.id # None /\ op.kind = "none"
        /\ UNCHANGED <<snap, join, bits, events, drv, client, finish, hist>>
    BY <1>19 DEF probe_begin, Idle
  <2>2. op'.kind = "probe" BY <2>1 DEF NoOp
  <2>3. CallPublishes' BY <2>1, <2>2 DEF CallPublishes, Idle
  <2>4. QED BY <1>1, <2>1, <2>3, <1>4, RadioTypesKept
<1>20. CASE probe_gateway
  <2>1. /\ op.kind = "probe" /\ UNCHANGED <<join, bits, events, drv, finish, hist>>
    BY <1>20 DEF probe_gateway, At
  <2>2. /\ client.failures \in Nat /\ client.failures + 1 <= Threshold
        /\ client.id \in Networks \union {None} /\ Threshold \in Nat
    <3>1. client.failures \in 0..Threshold - 1 /\ client.id \in Networks \union {None}
      BY <1>1 DEF Clients
    <3>2. QED BY <3>1, RadioAssumption
  <2>3. CASE client' = [client EXCEPT !.failures = 0] /\ op' = NoOp /\ UNCHANGED snap
    <3>1. client' \in Clients /\ client'.id = client.id
      <4>1. 0 \in 0..Threshold - 1 BY RadioAssumption
      <4>2. QED BY <1>1, <2>3, <4>1, ClientChanges
    <3>2. CallPublishes' BY <2>1, <2>3, <3>1 DEF CallPublishes, NoOp, Idle
    <3>3. QED BY <1>1, <2>1, <2>3, <3>1, <3>2, <1>4, RadioTypesKept
  <2>4. CASE ~TooMany /\ client' = [client EXCEPT !.failures = @ + 1]
             /\ op' = NoOp /\ UNCHANGED snap
    <3>1. client.failures + 1 \in 0..Threshold - 1 BY <2>2, <2>4 DEF TooMany
    <3>2. client' \in Clients /\ client'.id = client.id
      BY <1>1, <2>4, <3>1, ClientChanges
    <3>3. CallPublishes' BY <2>1, <2>4, <3>2 DEF CallPublishes, NoOp, Idle
    <3>4. QED BY <1>1, <2>1, <2>4, <3>2, <3>3, <1>4, RadioTypesKept
  <2>5. CASE /\ op' = [kind |-> "connect", id |-> client.id, prev |-> snap, ok |-> FALSE,
                       pc |-> "stop"]
             /\ snap' = "CONNECTING" /\ client' = NotClient
    BY <1>10, <2>1, <2>2, <2>5
  <2>6. QED BY <1>20, <2>3, <2>4, <2>5 DEF probe_gateway
<1>21. CASE finish_check \/ finish_switch
  <2>1. /\ UNCHANGED <<snap, join, bits, events, op, client>>
        /\ finish' \in {"none", "due", "checked"}
    BY <1>21 DEF finish_check, finish_switch
  <2>2. drv' \in Drivers /\ hist' \in [ip : BOOLEAN, raced : BOOLEAN]
    <3>1. CASE finish_check BY <1>1, <3>1 DEF finish_check
    <3>2. CASE finish_switch
      <4>1. (hist.raced \/ snap # "CONNECTED") \in BOOLEAN BY <1>1, HistoryChanges
      <4>2. hist' = [hist EXCEPT !.raced = (hist.raced \/ snap # "CONNECTED")]
        BY <3>2 DEF finish_switch
      <4>3. QED BY <1>1, <3>2, <4>1, <4>2, DriverChanges, HistoryChanges DEF finish_switch
    <3>3. QED BY <1>21, <3>1, <3>2
  <2>3. QED BY <1>1, <2>1, <2>2, <1>4, RadioTypesKept, SamePublished
<1>22. CASE transfer_changes
  <2>1. UNCHANGED <<snap, join, bits, events, drv, op, client, finish, hist>>
    BY <1>22 DEF transfer_changes
  <2>2. QED BY <1>1, <2>1, <1>4, RadioTypesKept, SamePublished
<1>23. QED
  BY <1>22, <1>5, <1>6, <1>7, <1>8, <1>9, <1>11, <1>12, <1>13, <1>14, <1>15, <1>16, <1>17, <1>18,
     <1>19, <1>20, <1>21
  DEF RadioNext, Call, Policy, RuntimeTask

\* While a call is under way, a hotspot is asked for only by that call.
LEMMA OtherCallHotspot ==
    ASSUME op'.kind # "hotspot", snap' # "HOTSPOT_READY"
    PROVE  HotspotInOrder' /\ HotspotIsUp'
  BY DEF HotspotInOrder, HotspotIsUp

\* The order in which a hotspot is taken down, asked for and reported is kept by every
\* step, but for the two races that hist.raced records.
LEMMA KeepsHotspot ==
    ASSUME RadioTypeOK, CallPublishes, HotspotInOrder, HotspotIsUp, RadioNext
    PROVE  HotspotInOrder' /\ HotspotIsUp'
<1>1. /\ events \in Seq(Events) /\ drv \in Drivers /\ op \in Calls
      /\ hist \in [ip : BOOLEAN, raced : BOOLEAN]
      /\ snap = "HOTSPOT_READY" => op.kind = "none"
      /\ op.kind = "hotspot" => snap = "HOTSPOT_STARTING"
  BY RadioTypes DEF CallPublishes, Idle
<1>2. NoOp.kind = "none" /\ Events = {"GOT_IP", "DISCONNECTED", "LOST_IP", "AP_START"}
  BY DEF NoOp, Events
<1>3. CASE driver_joins \/ driver_gives_up \/ link_breaks
  <2>1. PICK e \in {"GOT_IP", "DISCONNECTED", "LOST_IP"} : events' = Append(events, e)
    BY <1>3 DEF driver_joins, driver_gives_up, link_breaks
  <2>2. Waiting("AP_START")' <=> Waiting("AP_START")
    BY <1>1, <1>2, <2>1, AppendWaits
  <2>3. /\ drv'.running = drv.running /\ drv'.mode = drv.mode /\ drv'.ap = drv.ap
        /\ hist'.raced = hist.raced /\ UNCHANGED <<bits, op, snap>>
    BY <1>1, <1>3 DEF driver_joins, driver_gives_up, link_breaks, Drivers
  <2>4. QED BY <2>2, <2>3 DEF HotspotInOrder, HotspotIsUp, Reported, Starting
<1>4. CASE driver_starts_ap
  <2>1. /\ Starting /\ drv'.ap = TRUE /\ UNCHANGED <<bits, op, snap, hist>>
    BY <1>1, <1>4 DEF driver_starts_ap, Starting, Drivers
  <2>2. op.kind = "hotspot" /\ ~hist.raced => op.pc = "wait"
    BY <2>1 DEF HotspotInOrder
  <2>3. QED BY <2>1, <2>2 DEF HotspotInOrder, HotspotIsUp
<1>5. CASE wifi_event_handler
  <2>1. /\ events # <<>> /\ events' = Tail(events) /\ UNCHANGED <<drv, op, hist>>
        /\ snap' = snap \/ snap' = "FAILED"
        /\ "STARTED" \in bits' => "STARTED" \in bits \/ Head(events) = "AP_START"
    BY <1>5 DEF wifi_event_handler
  <2>2. Reported' => Reported
    BY <1>1, <2>1, TailWaits DEF Reported
  <2>3. QED BY <2>1, <2>2 DEF HotspotInOrder, HotspotIsUp, Starting
<1>6. CASE restart_fails
  BY <1>1, <1>2, <1>6, OtherCallHotspot DEF restart_fails
<1>7. CASE restart_stop \/ restart_mode \/ restart_up
  <2>1. /\ op.kind \in {"scan", "connect", "hotspot"} /\ UNCHANGED <<snap, hist, bits>>
        /\ snap # "HOTSPOT_READY"
    BY <1>1, <1>7 DEF restart_stop, restart_mode, restart_up, Restarts
  <2>2. op'.kind = op.kind
    BY <1>1, <1>7 DEF restart_stop, restart_mode, restart_up, Goto, Calls
  <2>3. CASE op.kind # "hotspot" BY <2>1, <2>2, <2>3, OtherCallHotspot
  <2>4. CASE op.kind = "hotspot" /\ restart_stop
    <3>1. /\ op'.pc = "mode" /\ op.pc = "stop" /\ drv'.running = FALSE
      BY <1>1, <2>4 DEF restart_stop, Goto, Stopped, Drivers, Calls
    <3>2. Waiting("AP_START")' <=> Waiting("AP_START")
      BY <1>1, <2>4, StopWaits DEF restart_stop
    <3>3. QED
      BY <2>1, <2>4, <3>1, <3>2 DEF HotspotInOrder, HotspotIsUp, Reported, Starting
  <2>5. CASE op.kind = "hotspot" /\ restart_mode
    <3>1. /\ op'.pc = "up" /\ op.pc = "mode" /\ drv'.running = drv.running
          /\ drv'.mode = "AP" /\ events' = events
      BY <1>1, <2>5 DEF restart_mode, OpMode, Goto, Drivers, Calls
    <3>2. Waiting("AP_START")' <=> Waiting("AP_START") BY <3>1, SameWaits
    <3>3. QED
      BY <2>1, <2>5, <3>1, <3>2 DEF HotspotInOrder, HotspotIsUp, Reported, Starting
  <2>6. CASE op.kind = "hotspot" /\ restart_up
    <3>1. op'.pc = "wait" /\ op.pc = "up" /\ events' = events
      BY <1>1, <2>6 DEF restart_up, AfterUp, Goto, Calls
    <3>2. Waiting("AP_START")' <=> Waiting("AP_START") BY <3>1, SameWaits
    <3>3. QED
      BY <2>1, <2>6, <3>1, <3>2 DEF HotspotInOrder, HotspotIsUp, Reported, Starting
  <2>7. QED BY <1>7, <2>1, <2>3, <2>4, <2>5, <2>6
<1>8. CASE radio_start
  <2>1. op'.kind # "hotspot" /\ snap' # "HOTSPOT_READY"
    BY <1>8 DEF radio_start, NoOp
  <2>2. QED BY <2>1, OtherCallHotspot
<1>9. CASE perform_scan \/ scan_ends
  <2>1. op'.kind # "hotspot" /\ snap' # "HOTSPOT_READY"
    BY <1>1, <1>9 DEF perform_scan, scan_ends, At, Goto, NoOp, Calls
  <2>2. QED BY <2>1, OtherCallHotspot
<1>10. ASSUME NEW id, connect_begin(id) PROVE HotspotInOrder' /\ HotspotIsUp'
  <2>1. op'.kind = "connect" /\ snap' = "CONNECTING" BY <1>10 DEF connect_begin
  <2>2. QED BY <2>1, OtherCallHotspot
<1>11. CASE connect_settle \/ connect_clear \/ connect_wait \/ connect_lower
  <2>1. op.kind = "connect" /\ snap' = snap
    BY <1>11 DEF connect_settle, connect_clear, connect_wait, connect_lower, At
  <2>2. op'.kind = op.kind
    BY <1>1, <1>11 DEF connect_settle, connect_clear, connect_wait, connect_lower, Goto, Calls
  <2>3. QED BY <1>1, <2>1, <2>2, OtherCallHotspot
<1>12. CASE connect_refused \/ connect_publish
  BY <1>2, <1>12, OtherCallHotspot DEF connect_refused, connect_publish
<1>13. CASE hotspot_begin
  <2>1. /\ op' = [NoOp EXCEPT !.kind = "hotspot", !.pc = "stop"] /\ snap' = "HOTSPOT_STARTING"
        /\ hist' = [hist EXCEPT !.raced = LateStart]
        /\ bits' = bits \ {"STARTED"} /\ UNCHANGED <<events, drv>>
    BY <1>13 DEF hotspot_begin
  <2>2. op'.kind = "hotspot" /\ op'.pc = "stop" /\ (hist'.raced <=> LateStart)
    BY <1>1, <2>1 DEF NoOp
  <2>3. ~hist'.raced => ~Reported' /\ ~Starting'
    BY <2>1, <2>2, SameWaits DEF LateStart, Reported, Starting
  <2>4. QED BY <2>1, <2>2, <2>3 DEF HotspotInOrder, HotspotIsUp
<1>14. CASE hotspot_wait
  <2>1. /\ op.kind = "hotspot" /\ op.pc = "wait" /\ op' = NoOp /\ UNCHANGED <<drv, hist>>
        /\ snap' = "HOTSPOT_READY" => "STARTED" \in bits
    BY <1>14 DEF hotspot_wait, At
  <2>2. snap' = "HOTSPOT_READY" /\ ~hist.raced => drv.ap
    BY <2>1 DEF HotspotInOrder, Reported
  <2>3. QED BY <1>2, <2>1, <2>2 DEF HotspotInOrder, HotspotIsUp
<1>15. CASE radio_stop
  BY <1>15, OtherCallHotspot DEF radio_stop, Idle
<1>16. CASE probe_begin
  <2>1. /\ op'.kind = "probe" /\ UNCHANGED <<snap, drv, hist>>
    BY <1>16 DEF probe_begin, NoOp
  <2>2. QED BY <2>1 DEF HotspotInOrder, HotspotIsUp
<1>17. CASE probe_gateway
  <2>1. /\ op.kind = "probe" /\ UNCHANGED <<drv, hist>>
        /\ op' = NoOp \/ op'.kind = "connect"
        /\ snap' = snap \/ snap' = "CONNECTING"
    BY <1>17 DEF probe_gateway, At
  <2>2. QED BY <1>1, <1>2, <2>1, OtherCallHotspot
<1>18. CASE finish_check
  BY <1>18, SameWaits DEF finish_check, HotspotInOrder, HotspotIsUp, Reported, Starting
<1>19. CASE finish_switch
  <2>1. /\ (hist'.raced <=> hist.raced \/ snap # "CONNECTED") /\ UNCHANGED <<snap, op>>
    BY <1>1, <1>19 DEF finish_switch
  <2>2. QED BY <1>1, <2>1 DEF HotspotInOrder, HotspotIsUp
<1>20. CASE transfer_changes
  BY <1>20, SameWaits DEF transfer_changes, HotspotInOrder, HotspotIsUp, Reported, Starting
<1>21. QED
  BY <1>3, <1>4, <1>5, <1>6, <1>7, <1>8, <1>9, <1>10, <1>11, <1>12, <1>13, <1>14, <1>15, <1>16,
     <1>17, <1>18, <1>19, <1>20
  DEF RadioNext, Driver, Call, Restart, Policy, RuntimeTask, runtime_sees_loss

LEMMA RadioStutters ==
    ASSUME UNCHANGED radioVars
    PROVE  /\ RadioTypeOK => RadioTypeOK'
           /\ CallPublishes => CallPublishes'
           /\ HotspotInOrder /\ HotspotIsUp => HotspotInOrder' /\ HotspotIsUp'
           /\ JoinInOrder => JoinInOrder'
  BY DEF radioVars, RadioTypeOK, CallPublishes, HotspotInOrder, HotspotIsUp, JoinInOrder, Idle,
     Reported, Starting, NoJoin, JoinReported, Waiting

LEMMA RadioStarts == RadioInit => RadioTypeOK /\ CallPublishes
<1> SUFFICES ASSUME RadioInit PROVE RadioTypeOK /\ CallPublishes OBVIOUS
<1>1. op \in Calls /\ drv \in Drivers /\ client \in Clients /\ op.kind = "off" /\ client.id = None
  BY RadioConstants DEF RadioInit, NoOp, NotClient
<1>2. CallPublishes BY <1>1 DEF RadioInit, CallPublishes
<1>3. RadioTypeOK
  <2>1. events \in Seq(Events) /\ bits \subseteq Bits BY DEF RadioInit
  <2>2. snap \in RadioStates BY DEF RadioInit, RadioStates
  <2>3. hist \in [ip : BOOLEAN, raced : BOOLEAN] BY DEF RadioInit
  <2>4. QED BY <1>1, <2>1, <2>2, <2>3 DEF RadioInit, RadioTypeOK, Drivers, Calls, Clients
<1>4. QED BY <1>2, <1>3

\* What the code of the radio keeps in order for a hotspot, whether or not a restart
\* of the driver outlasts the events before it.
THEOREM RadioInvariance == RadioSpec => []HotspotIInv
<1>1. RadioInit => HotspotIInv
  BY RadioStarts DEF RadioInit, NoOp, HotspotIInv, HotspotInOrder, HotspotIsUp
<1>2. HotspotIInv /\ [RadioNext]_radioVars => HotspotIInv'
  BY KeepsPublishing, KeepsHotspot, RadioStutters DEF HotspotIInv
<1>3. QED BY <1>1, <1>2, PTL DEF RadioSpec

\* HotspotIsUp: a hotspot that the radio publishes as ready has come up since it was
\* last asked for and is still up, but for the two races.
THEOREM HotspotAlwaysUp == RadioSpec => []HotspotIsUp
<1>1. HotspotIInv => HotspotIsUp BY DEF HotspotIInv
<1>2. QED BY <1>1, RadioInvariance, PTL

\* The order in which a join is begun and reported, for a driver whose restart outlasts
\* the events before it, is kept by every step.
LEMMA KeepsJoin ==
    ASSUME PromptEvents, RadioTypeOK, CallPublishes, JoinInOrder, RadioNext
    PROVE  JoinInOrder'
<1>1. /\ events \in Seq(Events) /\ drv \in Drivers /\ op \in Calls
      /\ hist \in [ip : BOOLEAN, raced : BOOLEAN]
      /\ op.kind \in {"connect", "hotspot"} => snap # "READY"
  BY RadioTypes DEF CallPublishes
<1>2. NoOp.kind = "none" /\ NoOp.ok = FALSE /\ "GOT_IP" \in Events
      /\ Events = {"GOT_IP", "DISCONNECTED", "LOST_IP", "AP_START"}
  BY DEF NoOp, Events
<1>3. ASSUME UNCHANGED <<op, bits, hist>>, NoJoin => NoJoin', Waiting("GOT_IP")' => Waiting("GOT_IP"),
             snap' = snap \/ snap' # "READY", drv'.running = drv.running,
             drv.want = None => drv'.want = None
      PROVE  JoinInOrder'
  BY <1>3 DEF JoinInOrder, JoinReported, Idle
<1>4. CASE driver_joins
  <2>1. /\ drv.want # None /\ drv.running /\ hist'.ip = TRUE /\ drv'.running = drv.running
        /\ UNCHANGED <<snap, bits, op>>
    BY <1>1, <1>4 DEF driver_joins, Drivers
  <2>2. ~NoJoin BY <2>1 DEF NoJoin
  <2>3. QED BY <2>1, <2>2 DEF JoinInOrder, JoinReported, Idle
<1>5. CASE driver_gives_up \/ driver_starts_ap \/ link_breaks
  <2>1. PICK e \in {"AP_START", "DISCONNECTED", "LOST_IP"} : events' = Append(events, e)
    BY <1>5 DEF driver_gives_up, driver_starts_ap, link_breaks
  <2>2. Waiting("GOT_IP")' <=> Waiting("GOT_IP") BY <1>1, <1>2, <2>1, AppendWaits
  <2>3. /\ drv'.running = drv.running /\ (drv.want = None => drv'.want = None)
        /\ UNCHANGED <<snap, bits, op, hist>>
    BY <1>1, <1>5 DEF driver_gives_up, driver_starts_ap, link_breaks, Drivers
  <2>4. QED BY <1>3, <2>2, <2>3 DEF NoJoin
<1>6. CASE wifi_event_handler
  <2>1. /\ events # <<>> /\ events' = Tail(events) /\ UNCHANGED <<drv, op, hist>>
        /\ snap' = snap \/ snap' = "FAILED"
        /\ "CONNECTED" \in bits' => "CONNECTED" \in bits \/ Head(events) = "GOT_IP"
    BY <1>6 DEF wifi_event_handler
  <2>2. (JoinReported' => JoinReported) /\ (NoJoin => NoJoin')
    BY <1>1, <2>1, TailWaits DEF JoinReported, NoJoin
  <2>3. QED BY <2>1, <2>2 DEF JoinInOrder, Idle
<1>7. CASE restart_fails
  <2>1. /\ op'.kind = "none" /\ UNCHANGED <<drv, events>>
        /\ snap' = "READY" => op.kind = "scan"
    BY <1>2, <1>7 DEF restart_fails
  <2>2. QED BY <2>1, SameWaits DEF JoinInOrder, NoJoin, Idle
<1>8. CASE restart_stop
  <2>1. /\ op' = [op EXCEPT !.pc = "mode"] /\ op.pc = "stop" /\ UNCHANGED <<snap, hist, bits>>
        /\ op.kind \in {"scan", "connect", "hotspot"}
        /\ drv'.want = None /\ drv'.running = FALSE
    BY <1>1, <1>8 DEF restart_stop, Goto, Restarts, Stopped, Drivers
  <2>2. op'.kind = op.kind /\ op'.pc = "mode" /\ op'.ok = op.ok BY <1>1, <2>1 DEF Calls
  <2>3. Waiting("GOT_IP")' <=> Waiting("GOT_IP") BY <1>1, <1>8, StopWaits DEF restart_stop
  <2>4. QED BY <2>1, <2>2, <2>3 DEF JoinInOrder, NoJoin, Idle
<1>9. CASE restart_mode
  <2>1. /\ op' = [op EXCEPT !.pc = "up"] /\ op.pc = "mode" /\ UNCHANGED <<snap, hist, bits, events>>
        /\ op.kind \in {"scan", "connect", "hotspot"}
        /\ drv'.want = drv.want /\ drv'.running = drv.running
    BY <1>1, <1>9 DEF restart_mode, Goto, Restarts, Drivers
  <2>2. op'.kind = op.kind /\ op'.pc = "up" /\ op'.ok = op.ok BY <1>1, <2>1 DEF Calls
  <2>3. Waiting("GOT_IP")' <=> Waiting("GOT_IP") BY <2>1, SameWaits
  <2>4. QED BY <2>1, <2>2, <2>3 DEF JoinInOrder, NoJoin, Idle
<1>10. CASE restart_up
  <2>1. /\ op' = [op EXCEPT !.pc = AfterUp] /\ op.pc = "up" /\ UNCHANGED <<snap, hist, bits, events>>
        /\ op.kind \in {"scan", "connect", "hotspot"} /\ events = <<>>
        /\ drv'.want = drv.want
    BY <1>1, <1>10 DEF restart_up, Goto, Restarts, Drivers
  <2>2. op'.kind = op.kind /\ op'.ok = op.ok /\ (op.kind = "connect" => op'.pc = "settle")
    BY <1>1, <2>1 DEF AfterUp, Calls
  <2>3. ~Waiting("GOT_IP") BY <2>1 DEF Waiting
  <2>4. ~Waiting("GOT_IP")' BY <2>1, <2>3, SameWaits
  <2>5. QED BY <2>1, <2>2, <2>4 DEF JoinInOrder, NoJoin, Idle
<1>11. CASE radio_start
  <2>1. /\ op.kind = "off" /\ NoJoin /\ UNCHANGED <<events>>
    BY <1>11 DEF radio_start, JoinInOrder
  <2>2. CASE snap' = "FAILED" /\ UNCHANGED <<drv, op>>
    BY <2>1, <2>2, SameWaits DEF JoinInOrder, NoJoin, Idle
  <2>3. CASE drv' = [Off EXCEPT !.running = TRUE]
             /\ op' = [NoOp EXCEPT !.kind = "scan", !.pc = "stop"]
    <3>1. op'.kind = "scan" /\ drv'.want = None BY <2>3 DEF Off, NoOp
    <3>2. QED BY <2>1, <3>1, SameWaits DEF JoinInOrder, NoJoin, Idle
  <2>4. QED BY <1>11, <2>2, <2>3 DEF radio_start
<1>12. CASE perform_scan \/ scan_ends
  <2>1. /\ op.kind = "scan" /\ NoJoin /\ UNCHANGED <<events, drv>>
    BY <1>12 DEF perform_scan, scan_ends, At, JoinInOrder
  <2>2. op'.kind \in {"scan", "none"}
    BY <1>1, <1>2, <1>12, <2>1 DEF perform_scan, scan_ends, Goto, Calls
  <2>3. QED BY <2>1, <2>2, SameWaits DEF JoinInOrder, NoJoin, Idle
<1>13. ASSUME NEW id, connect_begin(id) PROVE JoinInOrder'
  <2>1. /\ op.kind = "none" /\ op'.kind = "connect" /\ op'.ok = FALSE /\ snap' = "CONNECTING"
        /\ op'.pc = IF drv.mode = "STA" /\ drv.running /\ snap = "READY" THEN "clear" ELSE "stop"
        /\ UNCHANGED <<events, drv>>
    BY <1>13 DEF connect_begin, Idle
  <2>2. op'.pc = "clear" => NoJoin BY <2>1 DEF JoinInOrder, Idle
  <2>3. QED BY <2>1, <2>2, SameWaits DEF JoinInOrder, NoJoin, Idle
<1>14. CASE connect_settle
  <2>1. /\ op' = [op EXCEPT !.pc = "clear"] /\ op.kind = "connect" /\ op.pc = "settle"
        /\ UNCHANGED <<snap, events, drv>>
    BY <1>14 DEF connect_settle, At, Goto
  <2>2. op'.kind = "connect" /\ op'.pc = "clear" /\ op'.ok = op.ok BY <1>1, <2>1 DEF Calls
  <2>3. QED BY <1>1, <2>1, <2>2, SameWaits DEF JoinInOrder, NoJoin, Idle
<1>15. CASE connect_clear
  <2>1. /\ op' = [op EXCEPT !.pc = "wait"] /\ op.kind = "connect" /\ op.pc = "clear"
        /\ bits' = bits \ {"CONNECTED", "FAILED"} /\ UNCHANGED <<snap, events>>
    BY <1>15 DEF connect_clear, At, Goto
  <2>2. op'.kind = "connect" /\ op'.pc = "wait" /\ op'.ok = op.ok BY <1>1, <2>1 DEF Calls
  <2>3. ~JoinReported' BY <2>1, SameWaits DEF JoinInOrder, NoJoin, JoinReported
  <2>4. QED BY <1>1, <2>1, <2>2, <2>3 DEF JoinInOrder, Idle
<1>16. CASE connect_wait
  <2>1. /\ op.kind = "connect" /\ op.pc = "wait" /\ UNCHANGED <<snap, hist>>
        /\ (JoinReported => hist.ip) /\ ~op.ok
    BY <1>16 DEF connect_wait, At, JoinInOrder
  <2>2. /\ op'.kind = "connect" /\ op'.pc = "lower"
        /\ op'.ok => "CONNECTED" \in bits
    BY <1>1, <1>16, <2>1 DEF connect_wait, Calls
  <2>3. QED BY <1>1, <2>1, <2>2 DEF JoinInOrder, JoinReported, Idle
<1>17. CASE connect_lower
  <2>1. /\ op' = [op EXCEPT !.pc = "publish"] /\ op.kind = "connect" /\ op.pc = "lower"
        /\ UNCHANGED <<snap, hist>>
    BY <1>17 DEF connect_lower, At, Goto
  <2>2. op'.kind = "connect" /\ op'.pc = "publish" /\ op'.ok = op.ok BY <1>1, <2>1 DEF Calls
  <2>3. QED BY <1>1, <2>1, <2>2 DEF JoinInOrder, Idle
<1>18. CASE connect_refused \/ connect_publish \/ hotspot_wait
  <2>1. op'.kind = "none" /\ snap' # "READY"
    BY <1>2, <1>18 DEF connect_refused, connect_publish, hotspot_wait
  <2>2. QED BY <2>1 DEF JoinInOrder
<1>19. CASE hotspot_begin
  <2>1. op'.kind = "hotspot" BY <1>19 DEF hotspot_begin, NoOp
  <2>2. QED BY <2>1 DEF JoinInOrder, Idle
<1>20. CASE radio_stop
  <2>1. op'.kind = "none" /\ (snap' = "READY" => drv'.running = FALSE)
    BY <1>1, <1>20 DEF radio_stop, Idle, Stopped, Drivers
  <2>2. QED BY <2>1 DEF JoinInOrder
<1>21. CASE probe_begin
  <2>1. op'.kind = "probe" BY <1>21 DEF probe_begin, NoOp
  <2>2. QED BY <2>1 DEF JoinInOrder, Idle
<1>22. CASE probe_gateway
  <2>1. op.kind = "probe" /\ snap # "READY"
    BY <1>22 DEF probe_gateway, At, CallPublishes
  <2>2. CASE op' = NoOp /\ snap' = snap
    BY <1>2, <2>1, <2>2 DEF JoinInOrder
  <2>3. CASE op' = [kind |-> "connect", id |-> client.id, prev |-> snap, ok |-> FALSE,
                    pc |-> "stop"]
    <3>1. op'.kind = "connect" /\ op'.pc = "stop" /\ op'.ok = FALSE BY <2>3
    <3>2. QED BY <3>1 DEF JoinInOrder, Idle
  <2>4. QED BY <1>22, <2>2, <2>3 DEF probe_gateway
<1>23. CASE finish_check \/ finish_switch \/ transfer_changes
  <2>1. /\ UNCHANGED <<snap, bits, events, op>> /\ hist'.ip = hist.ip
        /\ drv'.want = drv.want /\ drv'.running = drv.running
    BY <1>1, <1>23 DEF finish_check, finish_switch, transfer_changes, Drivers
  <2>2. QED BY <2>1, SameWaits DEF JoinInOrder, NoJoin, JoinReported, Idle
<1>24. QED
  BY <1>4, <1>5, <1>6, <1>7, <1>8, <1>9, <1>10, <1>11, <1>12, <1>13, <1>14, <1>15, <1>16,
     <1>17, <1>18, <1>19, <1>20, <1>21, <1>22, <1>23
  DEF RadioNext, Driver, Call, Restart, Policy, RuntimeTask, runtime_sees_loss

\* Only a call that has its address publishes the radio as connected.
LEMMA PublishesOwnJoin ==
    ASSUME RadioTypeOK, CallPublishes, JoinInOrder, [RadioNext]_radioVars,
           snap # "CONNECTED", snap' = "CONNECTED"
    PROVE  hist.ip
<1>1. connect_publish /\ op.ok
  BY DEF RadioNext, Driver, driver_joins, driver_gives_up, driver_starts_ap, link_breaks,
     wifi_event_handler, radio_start, Call, Restart, restart_stop, restart_mode, restart_up,
     restart_fails, perform_scan, scan_ends, connect_settle, connect_clear, connect_refused,
     connect_wait, connect_lower, connect_publish, hotspot_wait, probe_gateway, Policy,
     connect_begin, hotspot_begin, radio_stop, RuntimeTask, runtime_sees_loss, probe_begin,
     finish_check, finish_switch, transfer_changes, radioVars
<1>2. QED BY <1>1 DEF connect_publish, At, JoinInOrder

\* JoinedForReal: where a restart of the driver outlasts the events before it, the radio
\* is published as connected only if this very join got an address.
THEOREM AlwaysJoinedForReal ==
    ASSUME PromptEvents
    PROVE  RadioSpec => JoinedForReal
<1>1. RadioInit => JoinIInv
  BY RadioStarts DEF RadioInit, NoOp, Off, JoinIInv, JoinInOrder, NoJoin, Waiting, Idle
<1>2. JoinIInv /\ [RadioNext]_radioVars => JoinIInv'
  BY KeepsPublishing, KeepsJoin, RadioStutters DEF JoinIInv
<1>3. JoinIInv /\ [RadioNext]_radioVars
        => [snap # "CONNECTED" /\ snap' = "CONNECTED" => hist.ip]_radioVars
  BY PublishesOwnJoin DEF JoinIInv
<1>4. QED BY <1>1, <1>2, <1>3, PTL DEF RadioSpec, JoinedForReal

(***************************************************************************)
(* Onboarding                                                              *)
(***************************************************************************)

\* The screen, and that a call of a join task has the network to itself.
Screens == [stage : {"off", "shown", "up", "failed"}, visible : BOOLEAN, was : BOOLEAN,
            look : {"none", "show", "hide"}, seen : BOOLEAN, code : BOOLEAN]
OneCall == \A j \in Joins : joins[j] = "call" =>
              holder = "join" /\ \A k \in Joins \ {j} : joins[k] # "call"

LEMMA OnboardTypes ==
    ASSUME OnboardTypeOK
    PROVE  /\ view \in Views /\ holder \in {"off", "free", "join", "other"} /\ creds \in BOOLEAN
           /\ setup \in SetupStates /\ joins \in [Joins -> JoinSteps] /\ OneCall
           /\ http \in {"none", "join", "direct"} /\ oled \in Screens
           /\ offer \in [taken : BOOLEAN, qr : BOOLEAN]
  BY DEF OnboardTypeOK, ViewTypeOK, OneCall, Screens

LEMMA OnboardTypesKept ==
    ASSUME /\ view' \in Views /\ holder' \in {"off", "free", "join", "other"} /\ creds' \in BOOLEAN
           /\ setup' \in SetupStates /\ joins' \in [Joins -> JoinSteps] /\ OneCall'
           /\ http' \in {"none", "join", "direct"} /\ oled' \in Screens
           /\ offer' \in [taken : BOOLEAN, qr : BOOLEAN]
    PROVE  OnboardTypeOK'
  BY DEF OnboardTypeOK, ViewTypeOK, OneCall, Screens

LEMMA ScreenConstants ==
    /\ NoScreen \in Screens /\ NoJoins \in [Joins -> JoinSteps]
    /\ NoScreen.stage = "off" /\ NoScreen.was = TRUE /\ NoScreen.look = "none"
    /\ NoScreen.seen = FALSE /\ NoScreen.code = FALSE
  BY DEF NoScreen, Screens, NoJoins, JoinSteps

LEMMA OnboardStarts == OnboardInit => OnboardIInv
<1> SUFFICES ASSUME OnboardInit PROVE OnboardIInv OBVIOUS
<1>1. /\ oled.stage = "off" /\ oled.was /\ oled.look = "none" /\ ~oled.seen /\ ~oled.code
      /\ oled \in Screens /\ joins \in [Joins -> JoinSteps]
      /\ \A j \in Joins : joins[j] = "none"
      /\ offer.taken = FALSE /\ offer.qr = FALSE
  BY ScreenConstants DEF OnboardInit, NoJoins
<1>2. OnboardTypeOK
  <2>1. view \in Views BY DEF OnboardInit, ViewInit, Views
  <2>2. QED BY <1>1, <2>1 DEF OnboardInit, ViewInit, OnboardTypeOK, ViewTypeOK, SetupStates, Screens
<1>3. QED
  BY <1>1, <1>2 DEF OnboardInit, OnboardIInv, NothingAsked, JoinOwned, TakenBeforeHidden,
     ScreenRemembered

\* A step of the network, under which at most a call of a join task comes back.
LEMMA NetworkKeeps ==
    ASSUME OnboardIInv, CallReturns, UNCHANGED <<setup, http, oled, offer>>,
           view' \in Views, holder' \in {"off", "free", "join", "other"}, creds' \in BOOLEAN,
           (\E j \in Joins : joins[j] = "call") => holder' \in {"join", "free"}
    PROVE  OnboardIInv'
<1>1. /\ setup \in SetupStates /\ joins \in [Joins -> JoinSteps] /\ OneCall
      /\ http \in {"none", "join", "direct"} /\ oled \in Screens
      /\ offer \in [taken : BOOLEAN, qr : BOOLEAN]
  BY OnboardTypes DEF OnboardIInv
<1>2. /\ joins' \in [Joins -> JoinSteps]
      /\ \A j \in Joins :
            \/ joins'[j] = joins[j] /\ (joins[j] = "call" => holder' # "free")
            \/ joins[j] = "call" /\ joins'[j] \in {"ok", "bad"}
  BY <1>1 DEF CallReturns, JoinSteps
<1>3. OneCall'
  BY <1>1, <1>2 DEF OneCall
<1>4. OnboardTypeOK' BY <1>1, <1>2, <1>3, OnboardTypesKept
<1>5. JoinOwned' BY <1>2 DEF OnboardIInv, JoinOwned
<1>6. TakenBeforeHidden' BY <1>2 DEF OnboardIInv, TakenBeforeHidden
<1>7. NothingAsked'
  <2> SUFFICES ASSUME oled.stage # "up" PROVE joins' = NoJoins
    BY DEF OnboardIInv, NothingAsked
  <2>1. joins = NoJoins BY DEF OnboardIInv, NothingAsked
  <2>2. \A j \in Joins : joins'[j] = "none" BY <1>2, <2>1 DEF NoJoins
  <2>3. QED BY <1>2, <2>2 DEF NoJoins
<1>8. ScreenRemembered' BY DEF OnboardIInv, ScreenRemembered
<1>9. QED BY <1>4, <1>5, <1>6, <1>7, <1>8 DEF OnboardIInv

\* A step of a handler, a join task or the display while the services are up.
LEMMA ServiceKeeps ==
    ASSUME OnboardIInv, oled.stage = "up", oled'.stage = "up",
           OnboardTypeOK', JoinOwned', TakenBeforeHidden', ScreenRemembered'
    PROVE  OnboardIInv'
  BY DEF OnboardIInv, NothingAsked

LEMMA Serving ==
    ASSUME OnboardIInv,
           http # "none" \/ (\E j \in Joins : joins[j] # "none") \/ oled.look # "none" \/ oled.seen
           \/ oled.code
    PROVE  oled.stage = "up"
  BY DEF OnboardIInv, NothingAsked, NoJoins

\* One join task moves, or none.
LEMMA JoinMoves ==
    ASSUME joins \in [Joins -> JoinSteps], NEW j \in Joins, NEW pc \in JoinSteps,
           joins' = [joins EXCEPT ![j] = pc]
    PROVE  /\ joins' \in [Joins -> JoinSteps] /\ joins'[j] = pc
           /\ \A k \in Joins \ {j} : joins'[k] = joins[k]
  OBVIOUS

LEMMA HandlerKeeps ==
    ASSUME OnboardIInv, join_handler \/ direct_handler \/ Handler
    PROVE  OnboardIInv'
<1>1. /\ view \in Views /\ holder \in {"off", "free", "join", "other"} /\ creds \in BOOLEAN
      /\ setup \in SetupStates /\ joins \in [Joins -> JoinSteps] /\ OneCall
      /\ http \in {"none", "join", "direct"} /\ oled \in Screens
      /\ offer \in [taken : BOOLEAN, qr : BOOLEAN]
  BY OnboardTypes DEF OnboardIInv
<1>2. oled.stage = "up"
  BY Serving DEF join_handler, direct_handler, Handler, hotspot_is_ready, join_rejected,
     direct_hides, join_accepted
<1>3. JoinOwned /\ TakenBeforeHidden /\ ScreenRemembered BY DEF OnboardIInv
<1>4. CASE join_handler
  <2>1. /\ UNCHANGED <<viewVars, joins, oled, offer>> /\ setup' = "CONNECTING" /\ http' = "join"
    BY <1>4 DEF join_handler
  <2>2. OnboardTypeOK'
    BY <1>1, <2>1, OnboardTypesKept DEF viewVars, SetupStates, OneCall
  <2>3. JoinOwned' /\ TakenBeforeHidden' /\ ScreenRemembered'
    BY <1>3, <2>1 DEF JoinOwned, TakenBeforeHidden, ScreenRemembered
  <2>4. QED BY <1>2, <2>1, <2>2, <2>3, ServiceKeeps
<1>5. CASE direct_handler
  <2>1. /\ UNCHANGED <<viewVars, joins, oled>> /\ setup' = "DIRECT" /\ http' = "direct"
        /\ offer' = [offer EXCEPT !.taken = TRUE]
    BY <1>5 DEF direct_handler
  <2>2. offer' \in [taken : BOOLEAN, qr : BOOLEAN] /\ offer'.taken = TRUE /\ offer'.qr = offer.qr
    BY <1>1, <2>1
  <2>3. OnboardTypeOK'
    BY <1>1, <2>1, <2>2, OnboardTypesKept DEF viewVars, SetupStates, OneCall
  <2>4. JoinOwned' /\ TakenBeforeHidden' /\ ScreenRemembered'
    BY <1>3, <2>1, <2>2 DEF JoinOwned, TakenBeforeHidden, ScreenRemembered
  <2>5. QED BY <1>2, <2>1, <2>3, <2>4, ServiceKeeps
<1>6. CASE join_rejected
  <2>1. UNCHANGED <<viewVars, joins, oled, offer>> /\ setup' = "IDLE" /\ http' = "none"
    BY <1>6 DEF join_rejected
  <2>2. OnboardTypeOK'
    BY <1>1, <2>1, OnboardTypesKept DEF viewVars, SetupStates, OneCall
  <2>3. JoinOwned' /\ TakenBeforeHidden' /\ ScreenRemembered'
    BY <1>3, <2>1 DEF JoinOwned, TakenBeforeHidden, ScreenRemembered
  <2>4. QED BY <1>2, <2>1, <2>2, <2>3, ServiceKeeps
<1>7. CASE direct_hides
  <2>1. /\ UNCHANGED <<viewVars, setup, joins, offer>> /\ http = "direct" /\ http' = "none"
        /\ oled' = [oled EXCEPT !.visible = FALSE]
    BY <1>7 DEF direct_hides, Hidden
  <2>2. /\ oled' \in Screens /\ oled'.stage = "up" /\ oled'.visible = FALSE
        /\ oled'.was = oled.was
    BY <1>1, <1>2, <2>1 DEF Screens
  <2>3. OnboardTypeOK'
    BY <1>1, <2>1, <2>2, OnboardTypesKept DEF viewVars, OneCall
  <2>4. JoinOwned' /\ TakenBeforeHidden' /\ ScreenRemembered'
    BY <1>3, <2>1, <2>2 DEF JoinOwned, TakenBeforeHidden, ScreenRemembered
  <2>5. QED BY <1>2, <2>2, <2>3, <2>4, ServiceKeeps
<1>8. ASSUME NEW j \in Joins, join_accepted(j) PROVE OnboardIInv'
  <2>1. /\ UNCHANGED <<viewVars, setup, oled, offer>> /\ http' = "none"
        /\ joins[j] = "none" /\ joins' = [joins EXCEPT ![j] = "delay"] /\ "delay" \in JoinSteps
    BY <1>8 DEF join_accepted, JoinSteps
  <2>2. /\ joins' \in [Joins -> JoinSteps] /\ joins'[j] = "delay"
        /\ \A k \in Joins \ {j} : joins'[k] = joins[k]
    BY <1>1, <2>1, JoinMoves
  <2>3. OneCall' BY <1>1, <2>1, <2>2 DEF OneCall, viewVars
  <2>4. OnboardTypeOK' BY <1>1, <2>1, <2>2, <2>3, OnboardTypesKept DEF viewVars
  <2>5. JoinOwned' /\ TakenBeforeHidden' /\ ScreenRemembered'
    BY <1>3, <2>1, <2>2 DEF JoinOwned, TakenBeforeHidden, ScreenRemembered
  <2>6. QED BY <1>2, <2>1, <2>4, <2>5, ServiceKeeps
<1>9. QED BY <1>4, <1>5, <1>6, <1>7, <1>8 DEF Handler

LEMMA JoinTaskKeeps ==
    ASSUME OnboardIInv, NEW j \in Joins, JoinTask(j)
    PROVE  OnboardIInv'
<1>1. /\ view \in Views /\ holder \in {"off", "free", "join", "other"} /\ creds \in BOOLEAN
      /\ setup \in SetupStates /\ joins \in [Joins -> JoinSteps] /\ OneCall
      /\ http \in {"none", "join", "direct"} /\ oled \in Screens
      /\ offer \in [taken : BOOLEAN, qr : BOOLEAN]
  BY OnboardTypes DEF OnboardIInv
<1>2. oled.stage = "up"
  <2>1. joins[j] # "none"
    BY DEF JoinTask, join_configures, join_looks, join_succeeds, join_hides, join_fails
  <2>2. QED BY <2>1, Serving
<1>3. JoinOwned /\ TakenBeforeHidden /\ ScreenRemembered BY DEF OnboardIInv
<1>4. CASE join_configures(j)
  <2>1. /\ joins[j] = "delay" /\ holder = "free" /\ UNCHANGED <<setup, http, oled, offer>>
        /\ view' \in Views /\ creds' = creds
    BY <1>1, <1>4 DEF join_configures, view_take, viewVars
  <2>2. \A k \in Joins : joins[k] # "call" BY <1>1, <2>1 DEF OneCall
  <2>3. PICK pc \in {"call", "bad"} :
           joins' = [joins EXCEPT ![j] = pc] /\ holder' = IF pc = "call" THEN "join" ELSE "free"
    BY <1>4, <2>1 DEF join_configures, view_take, viewVars
  <2>4. pc \in JoinSteps BY DEF JoinSteps
  <2>5. /\ joins' \in [Joins -> JoinSteps] /\ joins'[j] = pc
        /\ \A k \in Joins \ {j} : joins'[k] = joins[k]
    BY <1>1, <2>3, <2>4, JoinMoves
  <2>6. OneCall' BY <2>2, <2>3, <2>5 DEF OneCall
  <2>7. OnboardTypeOK' BY <1>1, <2>1, <2>3, <2>5, <2>6, OnboardTypesKept
  <2>8. JoinOwned' /\ TakenBeforeHidden' /\ ScreenRemembered'
    BY <1>3, <2>1, <2>5 DEF JoinOwned, TakenBeforeHidden, ScreenRemembered
  <2>9. QED BY <1>2, <2>1, <2>7, <2>8, ServiceKeeps
<1>5. CASE join_looks(j)
  <2>1. /\ joins[j] \in {"ok", "bad"} /\ UNCHANGED <<viewVars, setup, http, oled, offer>>
        /\ \E pc \in {"success", "failure"} : joins' = [joins EXCEPT ![j] = pc]
    BY <1>5 DEF join_looks
  <2>2. PICK pc \in {"success", "failure"} : joins' = [joins EXCEPT ![j] = pc] BY <2>1
  <2>3. pc \in JoinSteps BY DEF JoinSteps
  <2>4. /\ joins' \in [Joins -> JoinSteps] /\ joins'[j] = pc
        /\ \A k \in Joins \ {j} : joins'[k] = joins[k]
    BY <1>1, <2>2, <2>3, JoinMoves
  <2>5. OneCall' BY <1>1, <2>1, <2>4 DEF OneCall, viewVars
  <2>6. OnboardTypeOK' BY <1>1, <2>1, <2>4, <2>5, OnboardTypesKept DEF viewVars
  <2>7. JoinOwned' /\ TakenBeforeHidden' /\ ScreenRemembered'
    BY <1>3, <2>1, <2>4 DEF JoinOwned, TakenBeforeHidden, ScreenRemembered
  <2>8. QED BY <1>2, <2>1, <2>6, <2>7, ServiceKeeps
<1>6. CASE join_succeeds(j)
  <2>1. /\ UNCHANGED <<viewVars, http, oled>> /\ setup' = "SUCCEEDED"
        /\ joins' = [joins EXCEPT ![j] = "hide"] /\ "hide" \in JoinSteps
        /\ offer' = [offer EXCEPT !.taken = TRUE]
    BY <1>6 DEF join_succeeds, JoinSteps
  <2>2. /\ joins' \in [Joins -> JoinSteps] /\ joins'[j] = "hide"
        /\ \A k \in Joins \ {j} : joins'[k] = joins[k]
    BY <1>1, <2>1, JoinMoves
  <2>3. offer' \in [taken : BOOLEAN, qr : BOOLEAN] /\ offer'.taken = TRUE /\ offer'.qr = offer.qr
    BY <1>1, <2>1
  <2>4. OneCall' BY <1>1, <2>1, <2>2 DEF OneCall, viewVars
  <2>5. OnboardTypeOK'
    BY <1>1, <2>1, <2>2, <2>3, <2>4, OnboardTypesKept DEF viewVars, SetupStates
  <2>6. JoinOwned' /\ TakenBeforeHidden' /\ ScreenRemembered'
    BY <1>3, <2>1, <2>2, <2>3 DEF JoinOwned, TakenBeforeHidden, ScreenRemembered
  <2>7. QED BY <1>2, <2>1, <2>5, <2>6, ServiceKeeps
<1>7. CASE join_hides(j)
  <2>1. /\ UNCHANGED <<viewVars, setup, http, offer>> /\ joins[j] = "hide"
        /\ joins' = [joins EXCEPT ![j] = "none"] /\ "none" \in JoinSteps
        /\ oled' = [oled EXCEPT !.visible = FALSE]
    BY <1>7 DEF join_hides, Hidden, JoinSteps
  <2>2. /\ joins' \in [Joins -> JoinSteps] /\ joins'[j] = "none"
        /\ \A k \in Joins \ {j} : joins'[k] = joins[k]
    BY <1>1, <2>1, JoinMoves
  <2>3. /\ oled' \in Screens /\ oled'.stage = "up" /\ oled'.visible = FALSE
        /\ oled'.was = oled.was
    BY <1>1, <1>2, <2>1 DEF Screens
  <2>4. OneCall' BY <1>1, <2>1, <2>2 DEF OneCall, viewVars
  <2>5. OnboardTypeOK'
    BY <1>1, <2>1, <2>2, <2>3, <2>4, OnboardTypesKept DEF viewVars
  <2>6. JoinOwned' /\ TakenBeforeHidden' /\ ScreenRemembered'
    BY <1>3, <2>1, <2>2, <2>3 DEF JoinOwned, TakenBeforeHidden, ScreenRemembered
  <2>7. QED BY <1>2, <2>3, <2>5, <2>6, ServiceKeeps
<1>8. CASE join_fails(j)
  <2>1. /\ UNCHANGED <<viewVars, http, oled, offer>> /\ setup' = "FAILED"
        /\ joins' = [joins EXCEPT ![j] = "none"] /\ "none" \in JoinSteps
    BY <1>8 DEF join_fails, JoinSteps
  <2>2. /\ joins' \in [Joins -> JoinSteps] /\ joins'[j] = "none"
        /\ \A k \in Joins \ {j} : joins'[k] = joins[k]
    BY <1>1, <2>1, JoinMoves
  <2>3. OneCall' BY <1>1, <2>1, <2>2 DEF OneCall, viewVars
  <2>4. OnboardTypeOK'
    BY <1>1, <2>1, <2>2, <2>3, OnboardTypesKept DEF viewVars, SetupStates
  <2>5. JoinOwned' /\ TakenBeforeHidden' /\ ScreenRemembered'
    BY <1>3, <2>1, <2>2 DEF JoinOwned, TakenBeforeHidden, ScreenRemembered
  <2>6. QED BY <1>2, <2>1, <2>4, <2>5, ServiceKeeps
<1>9. QED BY <1>4, <1>5, <1>6, <1>7, <1>8 DEF JoinTask

LEMMA DisplayKeeps ==
    ASSUME OnboardIInv, onboarding_display_task \/ display_draws \/ show_hotspot_qr \/ qr_draws
    PROVE  OnboardIInv'
<1>1. /\ view \in Views /\ holder \in {"off", "free", "join", "other"} /\ creds \in BOOLEAN
      /\ setup \in SetupStates /\ joins \in [Joins -> JoinSteps] /\ OneCall
      /\ http \in {"none", "join", "direct"} /\ oled \in Screens
      /\ offer \in [taken : BOOLEAN, qr : BOOLEAN]
  BY OnboardTypes DEF OnboardIInv
<1>2. oled.stage = "up"
  BY Serving DEF onboarding_display_task, display_draws, show_hotspot_qr, qr_draws
<1>3. JoinOwned /\ TakenBeforeHidden /\ ScreenRemembered BY DEF OnboardIInv
<1>4. UNCHANGED <<viewVars, setup, joins, http>>
  BY DEF onboarding_display_task, display_draws, show_hotspot_qr, qr_draws
<1>5. CASE onboarding_display_task
  <2>1. offer' = offer /\ Hotspot \in BOOLEAN BY <1>5 DEF onboarding_display_task, Hotspot
  <2>2. PICK look \in {"none", "show", "hide"} :
           oled' = [oled EXCEPT !.seen = Hotspot, !.look = look]
    BY <1>5 DEF onboarding_display_task
  <2>3. /\ oled' \in Screens /\ oled'.stage = "up" /\ oled'.visible = oled.visible
        /\ oled'.was = oled.was
    BY <1>1, <1>2, <2>1, <2>2 DEF Screens
  <2>4. OnboardTypeOK' BY <1>1, <1>4, <2>1, <2>3, OnboardTypesKept DEF viewVars, OneCall
  <2>5. JoinOwned' /\ TakenBeforeHidden' /\ ScreenRemembered'
    BY <1>2, <1>3, <1>4, <2>1, <2>3 DEF JoinOwned, TakenBeforeHidden, ScreenRemembered
  <2>6. QED BY <1>2, <2>3, <2>4, <2>5, ServiceKeeps
<1>6. CASE display_draws
  <2> DEFINE show == oled.look = "show"
  <2>1. /\ offer' = offer /\ show \in BOOLEAN
        /\ oled' = [oled EXCEPT !.visible = show, !.look = "none", !.was = show]
    BY <1>6 DEF display_draws
  <2> HIDE DEF show
  <2>2. /\ oled' \in Screens /\ oled'.stage = "up" /\ oled'.visible = show /\ oled'.was = show
    BY <1>1, <1>2, <2>1 DEF Screens
  <2>3. OnboardTypeOK' BY <1>1, <1>4, <2>1, <2>2, OnboardTypesKept DEF viewVars, OneCall
  <2>4. JoinOwned' /\ TakenBeforeHidden' /\ ScreenRemembered'
    BY <1>2, <1>3, <1>4, <2>1, <2>2 DEF JoinOwned, TakenBeforeHidden, ScreenRemembered
  <2>5. QED BY <1>2, <2>2, <2>3, <2>4, ServiceKeeps
<1>7. CASE show_hotspot_qr
  <2>1. oled' = [oled EXCEPT !.code = TRUE] /\ offer' = offer
    BY <1>7 DEF show_hotspot_qr
  <2>2. /\ oled' \in Screens /\ oled'.stage = "up" /\ oled'.visible = oled.visible
        /\ oled'.was = oled.was
    BY <1>1, <1>2, <2>1 DEF Screens
  <2>3. OnboardTypeOK' BY <1>1, <1>4, <2>1, <2>2, OnboardTypesKept DEF viewVars, OneCall
  <2>4. JoinOwned' /\ TakenBeforeHidden' /\ ScreenRemembered'
    BY <1>2, <1>3, <1>4, <2>1, <2>2 DEF JoinOwned, TakenBeforeHidden, ScreenRemembered
  <2>5. QED BY <1>2, <2>2, <2>3, <2>4, ServiceKeeps
<1>8. CASE qr_draws
  <2> DEFINE qr == offer.qr \/ ~oled.visible
  <2>1. /\ oled' = [oled EXCEPT !.code = FALSE, !.visible = TRUE]
        /\ offer' = [offer EXCEPT !.qr = qr]
    BY <1>8 DEF qr_draws
  <2>2. qr \in BOOLEAN BY <1>1
  <2>3. ~qr => ~offer.qr /\ oled.visible OBVIOUS
  <2> HIDE DEF qr
  <2>4. /\ oled' \in Screens /\ oled'.stage = "up" /\ oled'.visible = TRUE
        /\ oled'.was = oled.was
    BY <1>1, <1>2, <2>1 DEF Screens
  <2>5. offer' \in [taken : BOOLEAN, qr : BOOLEAN] /\ offer'.taken = offer.taken /\ offer'.qr = qr
    BY <1>1, <2>1, <2>2
  <2>6. OnboardTypeOK' BY <1>1, <1>4, <2>4, <2>5, OnboardTypesKept DEF viewVars, OneCall
  <2>7. JoinOwned' /\ TakenBeforeHidden' /\ ScreenRemembered'
    BY <1>2, <1>3, <1>4, <2>3, <2>4, <2>5 DEF JoinOwned, TakenBeforeHidden, ScreenRemembered
  <2>8. QED BY <1>2, <2>4, <2>6, <2>7, ServiceKeeps
<1>9. QED BY <1>5, <1>6, <1>7, <1>8

LEMMA StartKeeps ==
    ASSUME OnboardIInv, onboarding_start \/ onboarding_serves \/ power_cycle_or_reset
    PROVE  OnboardIInv'
<1>1. /\ view \in Views /\ holder \in {"off", "free", "join", "other"} /\ creds \in BOOLEAN
      /\ setup \in SetupStates /\ joins \in [Joins -> JoinSteps] /\ OneCall
      /\ http \in {"none", "join", "direct"} /\ oled \in Screens
      /\ offer \in [taken : BOOLEAN, qr : BOOLEAN]
  BY OnboardTypes DEF OnboardIInv
<1>2. CASE power_cycle_or_reset
  <2>1. /\ holder' = "off" /\ view' = "OTHER" /\ creds' = FALSE
        /\ setup' = "IDLE" /\ joins' = NoJoins /\ http' = "none" /\ oled' = NoScreen
        /\ offer' = [taken |-> FALSE, qr |-> FALSE]
    BY <1>2 DEF power_cycle_or_reset, view_restarts
  <2>2. \A j \in Joins : joins'[j] = "none" BY <2>1 DEF NoJoins
  <2>3. OneCall' BY <2>2 DEF OneCall
  <2>4. offer' \in [taken : BOOLEAN, qr : BOOLEAN] /\ ~offer'.taken /\ ~offer'.qr BY <2>1
  <2>5. view' \in Views BY <2>1 DEF Views
  <2>6. OnboardTypeOK'
    BY <2>1, <2>3, <2>4, <2>5, ScreenConstants, OnboardTypesKept DEF SetupStates
  <2>7. QED
    BY <2>1, <2>2, <2>4, <2>6, ScreenConstants
    DEF OnboardIInv, NothingAsked, JoinOwned, TakenBeforeHidden, ScreenRemembered
<1>3. CASE onboarding_start \/ onboarding_serves
  <2>1. oled.stage \in {"off", "shown"} BY <1>3 DEF onboarding_start, onboarding_serves
  <2>2. /\ http = "none" /\ joins = NoJoins /\ setup = "IDLE"
        /\ oled.look = "none" /\ oled.was /\ ~oled.seen /\ ~oled.code
        /\ ~offer.taken /\ ~offer.qr /\ (oled.stage = "shown" => oled.visible)
    BY <2>1 DEF OnboardIInv, NothingAsked
  <2>3. \A j \in Joins : joins[j] = "none" BY <2>2 DEF NoJoins
  <2>4. /\ UNCHANGED <<joins, http, offer>> /\ setup' = "IDLE"
        /\ view' = view /\ holder' \in {"off", "free", "join", "other"} /\ creds' \in BOOLEAN
    BY <1>1, <1>3, <2>2 DEF onboarding_start, onboarding_serves, view_credential, viewVars
  <2>5. /\ oled' \in Screens /\ oled'.look = "none" /\ oled'.was /\ ~oled'.seen /\ ~oled'.code
        /\ oled'.stage \in {"shown", "up"} => oled'.visible
    <3>1. CASE onboarding_start
      <4>1. oled' = [oled EXCEPT !.stage = "shown", !.visible = TRUE] BY <3>1 DEF onboarding_start
      <4>2. QED BY <1>1, <2>2, <4>1 DEF Screens
    <3>2. CASE oled.stage = "shown" /\ oled' = [oled EXCEPT !.stage = "up"]
      BY <1>1, <2>2, <3>2 DEF Screens
    <3>3. ASSUME NEW shown \in BOOLEAN, oled' = [oled EXCEPT !.stage = "failed", !.visible = shown]
          PROVE  /\ oled' \in Screens /\ oled'.look = "none" /\ oled'.was /\ ~oled'.seen /\ ~oled'.code
                 /\ oled'.stage \in {"shown", "up"} => oled'.visible
      BY <1>1, <2>2, <3>3 DEF Screens
    <3>4. QED BY <1>3, <3>1, <3>2, <3>3 DEF onboarding_serves
  <2>6. OneCall' BY <2>3, <2>4 DEF OneCall
  <2>7. OnboardTypeOK'
    BY <1>1, <2>4, <2>5, <2>6, OnboardTypesKept DEF SetupStates
  <2>8. QED
    BY <2>2, <2>3, <2>4, <2>5, <2>7
    DEF OnboardIInv, NothingAsked, JoinOwned, TakenBeforeHidden, ScreenRemembered
<1>4. QED BY <1>2, <1>3

LEMMA OnboardSteps ==
    ASSUME OnboardIInv, [OnboardNext]_allVars
    PROVE  OnboardIInv'
<1>1. CASE NetworkSteps
  <2>1. CallReturns /\ UNCHANGED <<setup, http, oled, offer>>
    BY <1>1 DEF NetworkSteps, Network
  <2>2. /\ view \in Views /\ holder \in {"off", "free", "join", "other"} /\ creds \in BOOLEAN
        /\ OneCall
    BY OnboardTypes DEF OnboardIInv
  <2>3. view_boots \/ view_work \/ view_release \/ \E who \in {"join", "other"} : view_take(who)
    BY <1>1 DEF NetworkSteps, Network
  <2>4. view' \in Views /\ holder' \in {"off", "free", "join", "other"} /\ creds' \in BOOLEAN
    BY <2>2, <2>3 DEF view_boots, view_work, view_release, view_take
  <2>5. (\E j \in Joins : joins[j] = "call") => holder' \in {"join", "free"}
    BY <2>2, <2>3 DEF OneCall, view_boots, view_work, view_release, view_take
  <2>6. QED BY <2>1, <2>4, <2>5, NetworkKeeps
<1>2. CASE UNCHANGED allVars
  BY <1>2 DEF allVars, onboardVars, viewVars, OnboardIInv, OnboardTypeOK, ViewTypeOK, NothingAsked,
     JoinOwned, TakenBeforeHidden, ScreenRemembered
<1>3. QED
  BY <1>1, <1>2, HandlerKeeps, JoinTaskKeeps, DisplayKeeps, StartKeeps DEF OnboardNext

\* The setup status, the join tasks and the screen fit each other in every state, for any
\* number of join tasks (revlink_onboarding.c, revlink_status_oled.c).
THEOREM OnboardInvariance == OnboardSpec => []OnboardIInv
<1>1. OnboardInit => OnboardIInv BY OnboardStarts
<1>2. OnboardIInv /\ [OnboardNext]_allVars => OnboardIInv' BY OnboardSteps
<1>3. QED BY <1>1, <1>2, PTL DEF OnboardSpec

\* A setup page that says a join is under way has a handler or a task behind it, however
\* requests overlap (join_handler, join_task).
THEOREM ConnectingIsOwned == OnboardSpec => []JoinOwned
<1>1. OnboardIInv => JoinOwned BY DEF OnboardIInv
<1>2. QED BY <1>1, OnboardInvariance, PTL

\* What the display task remembers is what the screen shows, until the offer is taken up
\* or the owner asks for the credentials (onboarding_display_task).
THEOREM ScreenIsRemembered == OnboardSpec => []ScreenRemembered
<1>1. OnboardIInv => ScreenRemembered BY DEF OnboardIInv
<1>2. QED BY <1>1, OnboardInvariance, PTL
==============================================================================
