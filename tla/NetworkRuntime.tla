---------------------------- MODULE NetworkRuntime ----------------------------
(***************************************************************************)
(* esp32p4/main/revlink_network_runtime.c: what runs the network policy.   *)
(* Every call takes runtime_mutex, hands one event to the coordinator and  *)
(* carries out the actions it returns (execute_action) until none is left. *)
(* The radio calls take seconds, so each round of that loop is a step; the *)
(* mutex keeps other calls out, while the radio, a power cut and the       *)
(* restart task do not wait for it.                                        *)
(*                                                                         *)
(* Left out: revlink_network_runtime_forget_station, which nothing calls,  *)
(* a radio that cannot be started at all, and the error code kept for      *)
(* display.                                                                *)
(***************************************************************************)
EXTENDS NetworkCoordinator

CONSTANTS
    ACTION_LIMIT,         \* REVLINK_NETWORK_ACTION_LIMIT
    FAULT_REBOOT_DELAY,   \* REVLINK_NETWORK_FAULT_REBOOT_DELAY_MS, in ticks
    GUARD_RESET           \* REVLINK_NETWORK_REBOOT_GUARD_RESET_MS, in ticks

\* The numbers the runtime is built with: 2 attempts, 8 actions.
ASSUME LimitAssumption == ACTION_LIMIT \in Nat /\ STARTUP_ATTEMPT_LIMIT + 3 <= ACTION_LIMIT
ASSUME DelayAssumption == FAULT_REBOOT_DELAY \in Nat \ {0} /\ GUARD_RESET \in Nat \ {0}

VARIABLES
    caller,    \* who holds runtime_mutex, or "free"; "off" before the start
    iter,      \* iterations of execute_action so far
    rt,        \* station, hotspot and awaiting-credential variables
    saved,     \* the station record in NVS
    lost,      \* external: the radio reports REVLINK_WIFI_RADIO_FAILED
    timers,    \* fault_elapsed_ms and stable_elapsed_ms
    task,      \* the runtime task: ticking, or on its way to esp_restart
    guard,     \* reboot_guard.network_reboot_used, in RTC memory
    reboots    \* history: guarded reboots since power-on or since rearmed, up to RebootsCounted

netVars == <<net, act, caller, iter, rt, saved, lost, timers, task, guard, reboots>>

Callers == {"off", "boot", "free", "lost", "tick", "join", "restart", "hotspot", "force"}

\* The history counts no further than this.
RebootsCounted == 2

Runtime == [station : NetworkIds \union {NoNetwork}, hotspot : BOOLEAN, awaiting : BOOLEAN]

NetTypeOK ==
    /\ net \in NetSnapshot
    /\ act \in Action
    /\ caller \in Callers
    /\ iter \in Nat
    /\ rt \in Runtime
    /\ saved \in NetworkIds \union {NoNetwork}
    /\ lost \in BOOLEAN
    /\ timers \in [fault : Nat, stable : Nat]
    /\ task \in {"ticking", "restarting"}
    /\ guard \in BOOLEAN
    /\ reboots \in 0..RebootsCounted

\* The RAM of a fresh boot.
BootRam ==
    /\ net = NetStopped
    /\ act = Plain("NONE")
    /\ caller = "off"
    /\ iter = 0
    /\ rt = [station |-> NoNetwork, hotspot |-> FALSE, awaiting |-> FALSE]
    /\ lost = FALSE
    /\ timers = [fault |-> 0, stable |-> 0]
    /\ task = "ticking"

NetInit ==
    /\ BootRam
    /\ saved \in NetworkIds \union {NoNetwork}
    /\ guard = FALSE
    /\ reboots = 0

ColdStart ==
    /\ net' = NetStopped
    /\ act' = Plain("NONE")
    /\ caller' = "off"
    /\ iter' = 0
    /\ rt' = [station |-> NoNetwork, hotspot |-> FALSE, awaiting |-> FALSE]
    /\ lost' = FALSE
    /\ timers' = [fault |-> 0, stable |-> 0]
    /\ task' = "ticking"

\* What the calls under the mutex leave alone.
Aside == UNCHANGED <<saved, timers, task, guard, reboots>>

\* Power is cut: RTC memory is lost as well, NVS is not.
power_cycle ==
    /\ caller # "off"
    /\ ColdStart
    /\ guard' = FALSE /\ reboots' = 0
    /\ UNCHANGED saved

\* revlink_soft_power.c: esp_deep_sleep_start, from which the device boots again.
\* RTC memory keeps its content.
deep_sleep ==
    /\ caller # "off"
    /\ ColdStart
    /\ UNCHANGED <<saved, guard, reboots>>

\* revlink_network_runtime_start: the saved station is loaded, if it can be read.
runtime_start(readable) ==
    /\ caller = "off"
    /\ rt' = [rt EXCEPT !.station = IF readable THEN saved ELSE NoNetwork]
    /\ net_start
    /\ caller' = "boot" /\ iter' = 0
    /\ UNCHANGED lost /\ Aside

(***************************************************************************)
(* execute_action                                                          *)
(***************************************************************************)
Executing(kinds) == act.kind \in kinds /\ iter < ACTION_LIMIT /\ iter' = iter + 1

exec_scan_saved ==
    /\ Executing({"SCAN_SAVED"})
    /\ IF rt.station # NoNetwork THEN net_scan_selected(rt.station) ELSE net_scan_empty
    /\ UNCHANGED <<caller, rt, lost>> /\ Aside

\* Only the configured station can be joined; a join takes the radio out of its
\* failed state.
exec_connect_saved(ok) ==
    /\ Executing({"CONNECT_SAVED", "RECOVER_SAVED"})
    /\ ok => rt.station # NoNetwork /\ act.id = rt.station
    /\ IF ok THEN net_client_connected /\ lost' = FALSE
       ELSE net_client_failed /\ UNCHANGED lost
    /\ UNCHANGED <<caller, rt>> /\ Aside

exec_probe_client(ok) ==
    /\ Executing({"PROBE_CLIENT"})
    /\ IF ok THEN net_client_healthy ELSE net_client_unhealthy
    /\ UNCHANGED <<caller, rt, lost>> /\ Aside

\* A plausible slip: the missing credential is not remembered.
exec_start_hotspot_forgets(ok) ==
    /\ Executing({"START_HOTSPOT"})
    /\ IF ~rt.hotspot
       THEN act' = Plain("NONE") /\ UNCHANGED net
       ELSE IF ok THEN net_hotspot_started ELSE net_hotspot_failed
    /\ UNCHANGED <<caller, rt, lost>> /\ Aside

\* Without a hotspot credential the loop returns and waits for one.
exec_start_hotspot(ok) ==
    /\ Executing({"START_HOTSPOT"})
    /\ rt' = [rt EXCEPT !.awaiting = ~rt.hotspot]
    /\ IF ~rt.hotspot
       THEN act' = Plain("NONE") /\ UNCHANGED net
       ELSE IF ok THEN net_hotspot_started ELSE net_hotspot_failed
    /\ UNCHANGED <<caller, lost>> /\ Aside

\* restart_policy stops the radio and then starts over.  If the radio cannot be
\* stopped the call returns and the coordinator stays stopped.
exec_stop_radio(ok) ==
    /\ act.kind = "STOP_RADIO"
    /\ IF ok
       THEN /\ net_start
            /\ caller' = "join"
            /\ rt' = [rt EXCEPT !.awaiting = FALSE]
       ELSE /\ act' = Plain("NONE")
            /\ caller' = "free"
            /\ UNCHANGED <<net, rt>>
    /\ iter' = 0
    /\ UNCHANGED lost /\ Aside

Execute ==
    \/ exec_scan_saved
    \/ \E ok \in BOOLEAN :
          \/ exec_connect_saved(ok)
          \/ exec_probe_client(ok)
          \/ exec_start_hotspot(ok)
          \/ exec_stop_radio(ok)

\* A call that has nothing left to do but give the mutex back.
Done(who) == caller = who /\ act.kind = "NONE"

call_returns ==
    /\ \E who \in {"boot", "hotspot", "force"} : Done(who)
    /\ caller' = "free" /\ iter' = 0
    /\ UNCHANGED <<net, act, rt, lost>> /\ Aside

(***************************************************************************)
(* The runtime task                                                        *)
(***************************************************************************)

\* One round: a lost link is reported first, then the tick.
task_tick ==
    /\ caller = "free" /\ task = "ticking"
    /\ IF net.state = "CLIENT_READY" /\ lost
       THEN net_client_lost /\ caller' = "lost"
       ELSE handle_tick /\ caller' = "tick"
    /\ iter' = 0
    /\ UNCHANGED <<rt, lost>> /\ Aside

task_tick_after_loss ==
    /\ Done("lost")
    /\ handle_tick
    /\ caller' = "tick" /\ iter' = 0
    /\ UNCHANGED <<rt, lost>> /\ Aside

AtMost(n, bound) == IF n > bound THEN bound ELSE n

Stable == is_ready_state(net.state) /\ ~net.transfer

\* A plausible slip: the transfer condition is inverted.
Faulted_in_transfer == net.state = "FAULTED" /\ net.transfer

Faulted == net.state = "FAULTED" /\ ~net.transfer

\* The end of the round: a stable network re-arms the reboot guard, a lasting
\* fault spends it.
task_round_ends ==
    /\ Done("tick")
    /\ timers' = [fault |-> IF Faulted THEN AtMost(timers.fault + 1, FAULT_REBOOT_DELAY) ELSE 0,
                  stable |-> IF Stable THEN AtMost(timers.stable + 1, GUARD_RESET) ELSE 0]
    /\ LET rearm == Stable /\ timers'.stable >= GUARD_RESET
           reboot == Faulted /\ timers'.fault >= FAULT_REBOOT_DELAY /\ ~guard
       IN /\ guard' = ((guard \/ reboot) /\ ~rearm)
          /\ reboots' = IF rearm /\ guard THEN 0 ELSE IF reboot THEN AtMost(reboots + 1, RebootsCounted) ELSE reboots
          /\ task' = IF reboot THEN "restarting" ELSE task
    /\ caller' = "free" /\ iter' = 0
    /\ UNCHANGED <<net, act, rt, saved, lost>>

\* 100 ms after giving the mutex back.  The guard is RTC_DATA_ATTR: the bootloader
\* loads it again from the image unless the chip wakes from deep sleep, so a
\* restart clears it.
esp_restart ==
    /\ task = "restarting"
    /\ ColdStart
    /\ guard' = FALSE
    /\ UNCHANGED <<saved, reboots>>

(***************************************************************************)
(* Calls of other tasks                                                    *)
(***************************************************************************)

\* revlink_network_runtime_configure_station: the credential is replaced before
\* the coordinator is asked.
configure_station(id) ==
    /\ caller = "free"
    /\ rt' = [rt EXCEPT !.station = id]
    /\ IF net.state = "HOTSPOT_STARTING" /\ rt.awaiting
       THEN net_stop /\ caller' = "restart"
       ELSE IF RetryAllowed(net)
            THEN net_retry_saved /\ caller' = "join"
            ELSE UNCHANGED <<net, act, caller>>
    /\ iter' = 0
    /\ UNCHANGED lost /\ Aside

\* Only a station that was joined is saved; the write may fail.
station_saved(written) ==
    /\ Done("join")
    /\ saved' = IF net.state = "CLIENT_READY" /\ written THEN rt.station ELSE saved
    /\ caller' = "free" /\ iter' = 0
    /\ UNCHANGED <<net, act, rt, lost, timers, task, guard, reboots>>

\* A plausible slip: the hotspot that waited for its credential is not started.
configure_hotspot_only ==
    /\ caller = "free"
    /\ rt' = [rt EXCEPT !.hotspot = TRUE]
    /\ iter' = 0
    /\ UNCHANGED <<net, act, caller, lost>> /\ Aside

\* revlink_network_runtime_configure_hotspot_ephemeral
configure_hotspot_ephemeral ==
    /\ caller = "free"
    /\ rt' = [rt EXCEPT !.hotspot = TRUE]
    /\ IF net.state = "HOTSPOT_STARTING" /\ rt.awaiting
       THEN act' = Plain("START_HOTSPOT") /\ caller' = "hotspot"
       ELSE UNCHANGED <<act, caller>>
    /\ iter' = 0
    /\ UNCHANGED <<net, lost>> /\ Aside

\* revlink_network_runtime_force_hotspot
force_hotspot ==
    /\ caller = "free"
    /\ net_force_hotspot
    /\ caller' = "force" /\ iter' = 0
    /\ UNCHANGED <<rt, lost>> /\ Aside

\* revlink_network_runtime_set_transfer_active, from the sync observer
set_transfer_active(active) ==
    /\ caller = "free"
    /\ IF active THEN net_transfer_started ELSE net_transfer_finished
    /\ UNCHANGED <<caller, iter, rt, lost>> /\ Aside

\* External: the station link breaks.
link_lost ==
    /\ ~lost /\ net.state = "CLIENT_READY"
    /\ lost' = TRUE
    /\ UNCHANGED <<net, act, caller, iter, rt>> /\ Aside

(***************************************************************************)
(* Specification                                                           *)
(***************************************************************************)

TaskStep == task_tick \/ task_tick_after_loss \/ task_round_ends

NetNext ==
    \/ power_cycle
    \/ deep_sleep
    \/ \E readable \in BOOLEAN : runtime_start(readable)
    \/ Execute
    \/ call_returns
    \/ TaskStep
    \/ esp_restart
    \/ \E id \in NetworkIds : configure_station(id)
    \/ \E written \in BOOLEAN : station_saved(written)
    \/ configure_hotspot_ephemeral
    \/ force_hotspot
    \/ \E active \in BOOLEAN : set_transfer_active(active)
    \/ link_lost

(***************************************************************************)
(* Fairness: every radio call has a deadline, so a call under the mutex    *)
(* ends; the runtime task asks for the mutex again and again, and FreeRTOS *)
(* hands a mutex to a waiting task.  Nothing obliges the owner, the sync   *)
(* or the radio link.                                                      *)
(***************************************************************************)
NetSpec ==
    /\ NetInit /\ [][NetNext]_netVars
    /\ WF_netVars(Execute) /\ WF_netVars(call_returns)
    /\ WF_netVars(\E readable \in BOOLEAN : runtime_start(readable))
    /\ WF_netVars(\E written \in BOOLEAN : station_saved(written))
    /\ SF_netVars(task_tick) /\ WF_netVars(task_tick_after_loss) /\ WF_netVars(task_round_ends)
    /\ WF_netVars(esp_restart)

(***************************************************************************)
(* Properties                                                              *)
(***************************************************************************)

\* The answer to every action the coordinator returns is an event it accepts, so
\* execute_action never abandons a half-finished change of mode, and a transfer
\* cannot have started under a probe.
ActionsAnswerable ==
    /\ act.kind = "SCAN_SAVED" => net.state = "SEARCHING"
    /\ act.kind \in {"CONNECT_SAVED", "RECOVER_SAVED"} => Joining(net)
    /\ act.kind = "PROBE_CLIENT" => net.state = "CLIENT_READY" /\ ~net.transfer
    /\ act.kind = "START_HOTSPOT" => net.state = "HOTSPOT_STARTING"
    /\ act.kind = "STOP_RADIO" => net.state = "STOPPED" /\ caller = "restart"

\* execute_action has an iteration left for whatever it still has to do, the
\* final look at an empty action included, on every path from scan to hotspot.
ActionsFit == iter < ACTION_LIMIT

\* When the mutex is free the coordinator is not left in a phase that only the
\* interrupted call could have ended: no phase of the startup is left half done,
\* and a hotspot that has not started is one whose credential is awaited.
NeverStranded ==
    caller = "free" =>
        /\ net.state \notin {"SEARCHING", "CONNECTING"}
        /\ net.state = "HOTSPOT_STARTING" => rt.awaiting

\* While a file transfer holds the lock, a usable network is given up only when
\* the radio itself lost it.
TransferLock ==
    [][net.transfer /\ is_ready_state(net.state) /\ net'.state # net.state
          => caller' = "off" \/ (net'.state = "RECONNECTING" /\ lost)]_netVars

\* At most one automatic reboot until the network was stable again, across the
\* reboots themselves (docs/PRODUCT_NETWORKING.md: "RTC-retained state prevents a
\* boot loop").  Not so: the restart itself clears the guard.
OneReboot == reboots <= 1

\* A lost link is either restored or given up for the hotspot.
ReconnectEnds == (net.state = "RECONNECTING") ~> (net.state # "RECONNECTING")

\* A lasting fault is answered with the reboot if it has not been spent.
FaultReboots ==
    (net.state = "FAULTED" /\ ~guard) ~> (net.state # "FAULTED" \/ net.transfer \/ guard)

\* The reconnect after a loss is tried on the network that was lost
\* (docs/FIRMWARE_ARCHITECTURE.md: "bounded same-network reconnect").
ReconnectsSame ==
    net.state = "RECONNECTING" /\ act.kind = "CONNECT_SAVED" => act.id = rt.station

\* The network policy does not stay stopped: the device is reachable over the
\* station or over its own hotspot (README.md).
ComesBack == (net.state = "STOPPED") ~> (net.state # "STOPPED")

\* Onboarding's view of the network is what the runtime really provides: calls that
\* exclude each other and end, and no half-started hotspot once it has a credential.
View == INSTANCE NetworkView WITH
    view <- IF net.state \in {"HOTSPOT_STARTING", "HOTSPOT_READY", "CLIENT_READY"}
            THEN net.state ELSE "OTHER",
    holder <- IF caller \in {"off", "free"} THEN caller
              ELSE IF caller \in {"join", "restart"} THEN "join" ELSE "other",
    creds <- rt.hotspot

ImplementsView == View!ViewSpec

(***************************************************************************)
(* The inductive invariant.  ActionsFit needs to know how many iterations  *)
(* each pending action can still cost; NeverStranded holds from the moment *)
(* no action is left, whoever holds the mutex.                             *)
(***************************************************************************)

\* The iterations execute_action may still need, the one that finds no action
\* included.
Need ==
    IF act.kind = "SCAN_SAVED" THEN STARTUP_ATTEMPT_LIMIT + 3
    ELSE IF act.kind \in {"CONNECT_SAVED", "RECOVER_SAVED"}
         THEN IF net.state = "CONNECTING" THEN STARTUP_ATTEMPT_LIMIT - net.attempts + 3 ELSE 2
    ELSE IF act.kind = "PROBE_CLIENT" THEN 3
    ELSE IF act.kind = "START_HOTSPOT" THEN 2 ELSE 1

Budgeted ==
    /\ iter + Need <= ACTION_LIMIT
    /\ net.state = "CONNECTING" => net.attempts \in 1..STARTUP_ATTEMPT_LIMIT

SettledWhenIdle ==
    act.kind = "NONE" =>
        /\ net.state \notin {"SEARCHING", "CONNECTING"}
        /\ net.state = "HOTSPOT_STARTING" => rt.awaiting

\* Who may hold the mutex with an action pending.
HeldWhileActing ==
    /\ caller \in {"off", "free"} => act.kind = "NONE"
    /\ caller = "restart" => act.kind = "STOP_RADIO"
    /\ caller = "off" => net.state = "STOPPED"

\* What the view promises of a free network needs more than rt.awaiting, which stays up
\* from an earlier wait: a hotspot that has not started has no credential.
AwaitsCredential ==
    act.kind = "NONE" /\ net.state = "HOTSPOT_STARTING" => ~rt.hotspot

\* While the runtime is not started no hotspot credential is in its memory.
NothingShownWhenOff == caller = "off" => ~rt.hotspot

NetIInv ==
    /\ NetTypeOK
    /\ ActionsAnswerable
    /\ Budgeted
    /\ SettledWhenIdle
    /\ HeldWhileActing
=============================================================================
