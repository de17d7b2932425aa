------------------------------ MODULE WifiRadio ------------------------------
(***************************************************************************)
(* esp32p4/main/revlink_wifi_radio.c: the onboard C6 radio as the network  *)
(* runtime drives it.  A call under runtime_mutex publishes where it is,   *)
(* restarts the driver, and waits for bits the event loop sets; the event  *)
(* loop works through the driver's events in order, at its own pace, and   *)
(* reads the flags and the published state the call is changing.  The task *)
(* that onboarding leaves behind switches the driver's mode without the    *)
(* mutex.                                                                  *)
(*                                                                         *)
(* Which call comes next is the network policy's business (NetworkRuntime) *)
(* and is left open here, but for the probes of a client.  Left out: the   *)
(* anonymous scan of the acceptance build, the count of hotspot clients    *)
(* and the hotspot's name.                                                 *)
(***************************************************************************)
EXTENDS Naturals, Sequences

CONSTANTS
    Networks,        \* stations the owner may configure
    None,
    PromptEvents,    \* whether a restart of the driver outlasts the events before it
    Threshold,       \* REVLINK_NETWORK_HEALTH_FAILURE_THRESHOLD
    MaxEvents        \* bound: events the loop may be behind

ASSUME RadioAssumption ==
    /\ None \notin Networks /\ PromptEvents \in BOOLEAN
    /\ Threshold \in Nat \ {0} /\ MaxEvents \in Nat

RadioStates == {"DISABLED", "STARTING", "SCANNING", "READY", "CONNECTING", "CONNECTED",
                "HOTSPOT_STARTING", "HOTSPOT_READY", "FAILED"}
Events == {"GOT_IP", "DISCONNECTED", "LOST_IP", "AP_START"}
Bits == {"CONNECTED", "FAILED", "STARTED"}

VARIABLES
    snap,      \* current_snapshot.state
    join,      \* join_in_progress
    bits,      \* join_events
    events,    \* what the driver posted and the event loop has not handled
    drv,       \* external: the driver: mode, running, the station it is to join and its link
    op,        \* the call under runtime_mutex
    client,    \* the coordinator is CLIENT_READY, with so many failed probes
    finish,    \* the task that ends an onboarding
    transferring,  \* the coordinator's transfer_active
    hist       \* history: this join got its address; this hotspot met one of two races

radioVars == <<snap, join, bits, events, drv, op, client, finish, transferring, hist>>

NoOp == [kind |-> "none", pc |-> "none", id |-> None, prev |-> "READY", ok |-> FALSE]
Off == [mode |-> "STA", running |-> FALSE, want |-> None, sta |-> None, ap |-> FALSE]
NotClient == [id |-> None, failures |-> 0]

RadioTypeOK ==
    /\ snap \in RadioStates /\ join \in BOOLEAN /\ bits \subseteq Bits
    /\ events \in Seq(Events)
    /\ drv \in [mode : {"STA", "AP"}, running : BOOLEAN, want : Networks \union {None},
                sta : Networks \union {None}, ap : BOOLEAN]
    /\ op \in [kind : {"none", "off", "scan", "connect", "hotspot", "stop", "probe"},
               pc : {"none", "begin", "stop", "mode", "up", "scan", "settle", "clear", "wait",
                     "lower", "publish", "ask"},
               id : Networks \union {None}, prev : RadioStates, ok : BOOLEAN]
    /\ client \in [id : Networks \union {None}, failures : 0..Threshold - 1]
    /\ finish \in {"none", "due", "checked"} /\ transferring \in BOOLEAN
    /\ hist \in [ip : BOOLEAN, raced : BOOLEAN]

RadioInit ==
    /\ snap = "DISABLED" /\ join = FALSE /\ bits = {} /\ events = <<>>
    /\ drv = Off
    /\ op = [NoOp EXCEPT !.kind = "off"]
    /\ client = NotClient /\ finish = "none" /\ transferring = FALSE
    /\ hist = [ip |-> FALSE, raced |-> FALSE]

Idle == op.kind = "none"
At(kind, pc) == op.kind = kind /\ op.pc = pc
Goto(pc) == op' = [op EXCEPT !.pc = pc]

\* An event the event loop has not come to.
Waiting(e) == \E i \in DOMAIN events : events[i] = e

(***************************************************************************)
(* The driver and the event loop                                           *)
(***************************************************************************)

\* esp_wifi_stop: whatever was up goes down; a station that was joined is told so.
Stopped == [drv EXCEPT !.running = FALSE, !.want = None, !.sta = None, !.ap = FALSE]
StopEvents == IF drv.sta # None \/ drv.want # None THEN Append(events, "DISCONNECTED") ELSE events

\* The driver joins the configured station, or gives up.
driver_joins ==
    /\ drv.running /\ drv.mode = "STA" /\ drv.want # None /\ Len(events) < MaxEvents
    /\ drv' = [drv EXCEPT !.want = None, !.sta = drv.want]
    /\ events' = Append(events, "GOT_IP")
    /\ hist' = [hist EXCEPT !.ip = TRUE]
    /\ UNCHANGED <<snap, join, bits, op, client, finish, transferring>>

driver_gives_up ==
    /\ drv.want # None /\ Len(events) < MaxEvents
    /\ drv' = [drv EXCEPT !.want = None]
    /\ events' = Append(events, "DISCONNECTED")
    /\ UNCHANGED <<snap, join, bits, op, client, finish, hist, transferring>>

\* The access point is up.
driver_starts_ap ==
    /\ drv.running /\ drv.mode = "AP" /\ ~drv.ap /\ Len(events) < MaxEvents
    /\ drv' = [drv EXCEPT !.ap = TRUE]
    /\ events' = Append(events, "AP_START")
    /\ UNCHANGED <<snap, join, bits, op, client, finish, hist, transferring>>

\* The station link breaks, or its address is lost.
link_breaks ==
    /\ drv.sta # None /\ Len(events) < MaxEvents
    /\ drv' = [drv EXCEPT !.sta = None]
    /\ \E e \in {"DISCONNECTED", "LOST_IP"} : events' = Append(events, e)
    /\ UNCHANGED <<snap, join, bits, op, client, finish, hist, transferring>>

\* wifi_event_handler. A loss counts for the join in progress, or for a state that
\* has already been published.
wifi_event_handler ==
    /\ events # <<>>
    /\ LET e == Head(events)
           loss == e \in {"DISCONNECTED", "LOST_IP"}
       IN /\ bits' = bits \union
                (IF join /\ e = "GOT_IP" THEN {"CONNECTED"} ELSE {}) \union
                (IF join /\ e = "DISCONNECTED" THEN {"FAILED"} ELSE {}) \union
                (IF e = "AP_START" THEN {"STARTED"} ELSE {})
          /\ snap' = IF loss /\ ~join /\ snap = "CONNECTED" THEN "FAILED" ELSE snap
    /\ events' = Tail(events)
    /\ UNCHANGED <<join, drv, op, client, finish, hist, transferring>>

(***************************************************************************)
(* restart_wifi, for a scan, a join or a hotspot                           *)
(***************************************************************************)
Restarts == op.kind \in {"scan", "connect", "hotspot"}
OpMode == IF op.kind = "hotspot" THEN "AP" ELSE "STA"
AfterUp == IF op.kind = "connect" THEN "settle" ELSE IF op.kind = "scan" THEN "scan" ELSE "wait"

\* A driver call fails: the call ends with its own flags down and the radio FAILED, or, in
\* a scan, as it was.
restart_fails ==
    /\ Restarts /\ op.pc \in {"stop", "mode", "up"}
    /\ snap' = IF op.kind = "scan" THEN snap ELSE "FAILED"
    /\ op' = NoOp
    /\ client' = NotClient
    /\ UNCHANGED <<join, bits, events, drv, finish, hist, transferring>>

restart_stop ==
    /\ Restarts /\ op.pc = "stop"
    /\ drv' = Stopped /\ events' = StopEvents
    /\ Goto("mode")
    /\ UNCHANGED <<snap, join, bits, client, finish, hist, transferring>>

restart_mode ==
    /\ Restarts /\ op.pc = "mode"
    /\ drv' = [drv EXCEPT !.mode = OpMode]
    /\ Goto("up")
    /\ UNCHANGED <<snap, join, bits, events, client, finish, hist, transferring>>

restart_up ==
    /\ Restarts /\ op.pc = "up"
    /\ PromptEvents => events = <<>>
    /\ drv' = [drv EXCEPT !.running = TRUE]
    /\ Goto(AfterUp)
    /\ UNCHANGED <<snap, join, bits, events, client, finish, hist, transferring>>

(***************************************************************************)
(* revlink_wifi_radio_start and the scan that follows it                   *)
(***************************************************************************)
radio_start ==
    /\ op.kind = "off"
    /\ \/ /\ snap' = "READY"
          /\ drv' = [Off EXCEPT !.running = TRUE]
          /\ op' = [NoOp EXCEPT !.kind = "scan", !.pc = "stop"]
       \/ snap' = "FAILED" /\ UNCHANGED <<drv, op>>
    /\ UNCHANGED <<join, bits, events, client, finish, hist, transferring>>

\* perform_scan; its failure does not keep the runtime from starting.
perform_scan ==
    /\ At("scan", "scan")
    /\ snap' = "SCANNING" /\ Goto("publish")
    /\ UNCHANGED <<join, bits, events, drv, client, finish, hist, transferring>>

scan_ends ==
    /\ At("scan", "publish")
    /\ snap' \in {"READY", "FAILED"}
    /\ op' = NoOp
    /\ UNCHANGED <<join, bits, events, drv, client, finish, hist, transferring>>

(***************************************************************************)
(* revlink_wifi_radio_connect_ephemeral                                    *)
(***************************************************************************)

\* What the policy asks for next. prepare_station_join keeps the interface the scan
\* left running.
connect_begin(id) ==
    /\ Idle
    /\ op' = [kind |-> "connect", id |-> id, prev |-> snap, ok |-> FALSE,
              pc |-> IF drv.mode = "STA" /\ drv.running /\ snap = "READY" THEN "clear" ELSE "stop"]
    /\ snap' = "CONNECTING"
    /\ client' = NotClient
    /\ UNCHANGED <<join, bits, events, drv, finish, hist, transferring>>

\* 200 ms for the events of the start.
connect_settle ==
    /\ At("connect", "settle")
    /\ PromptEvents => events = <<>>
    /\ Goto("clear")
    /\ UNCHANGED <<snap, join, bits, events, drv, client, finish, hist, transferring>>

\* A plausible slip: bits left by an earlier join are not cleared.
connect_clear_not ==
    /\ At("connect", "clear")
    /\ join' = TRUE
    /\ drv' = [drv EXCEPT !.want = op.id]
    /\ hist' = [hist EXCEPT !.ip = FALSE]
    /\ Goto("wait") /\ UNCHANGED <<snap, bits, events, client, finish, transferring>>

\* The bits are cleared, the flag raised, and the driver told to join.
connect_clear ==
    /\ At("connect", "clear")
    /\ bits' = bits \ {"CONNECTED", "FAILED"}
    /\ join' = TRUE
    /\ drv' = [drv EXCEPT !.want = op.id]
    /\ hist' = [hist EXCEPT !.ip = FALSE]
    /\ Goto("wait") /\ UNCHANGED <<snap, events, client, finish, transferring>>

\* The station cannot be configured or told to join.
connect_refused ==
    /\ At("connect", "clear")
    /\ bits' = bits \ {"CONNECTED", "FAILED"}
    /\ snap' = "FAILED"
    /\ op' = NoOp
    /\ UNCHANGED <<join, events, drv, client, finish, hist, transferring>>

\* xEventGroupWaitBits: either bit, or the deadline, which leaves the bits alone.
connect_wait ==
    /\ At("connect", "wait")
    /\ \/ /\ bits \intersect {"CONNECTED", "FAILED"} # {}
          /\ op' = [op EXCEPT !.pc = "lower", !.ok = "CONNECTED" \in bits]
          /\ bits' = bits \ {"CONNECTED", "FAILED"}
       \/ op' = [op EXCEPT !.pc = "lower"] /\ UNCHANGED bits
    /\ UNCHANGED <<snap, join, events, drv, client, finish, hist, transferring>>

connect_lower ==
    /\ At("connect", "lower")
    /\ join' = FALSE
    /\ Goto("publish")
    /\ UNCHANGED <<snap, bits, events, drv, client, finish, hist, transferring>>

\* The result; a join that onboarding asked for leaves a task behind.
connect_publish ==
    /\ At("connect", "publish")
    /\ snap' = IF op.ok THEN "CONNECTED" ELSE "FAILED"
    /\ client' = IF op.ok THEN [id |-> op.id, failures |-> 0] ELSE NotClient
    /\ finish' \in IF op.ok /\ finish = "none" THEN {"none", "due"} ELSE {finish}
    /\ op' = NoOp
    /\ UNCHANGED <<join, bits, events, drv, hist, transferring>>

(***************************************************************************)
(* revlink_wifi_radio_start_hotspot_ephemeral and revlink_wifi_radio_stop  *)
(***************************************************************************)

\* An earlier start whose AP_START is still to be posted or handled.
Starting == drv.running /\ drv.mode = "AP" /\ ~drv.ap
LateStart == Waiting("AP_START") \/ Starting

\* A plausible slip: the bit of an earlier start is not cleared.
hotspot_begin_uncleared ==
    /\ Idle
    /\ snap' = "HOTSPOT_STARTING"
    /\ op' = [NoOp EXCEPT !.kind = "hotspot", !.pc = "stop"]
    /\ client' = NotClient
    /\ hist' = [hist EXCEPT !.raced = LateStart]
    /\ UNCHANGED <<join, bits, events, drv, finish, transferring>>

\* The bit is cleared before the restart, not after it.
hotspot_begin ==
    /\ Idle
    /\ bits' = bits \ {"STARTED"}
    /\ snap' = "HOTSPOT_STARTING"
    /\ op' = [NoOp EXCEPT !.kind = "hotspot", !.pc = "stop"]
    /\ client' = NotClient
    /\ hist' = [hist EXCEPT !.raced = LateStart]
    /\ UNCHANGED <<join, events, drv, finish, transferring>>

hotspot_wait ==
    /\ At("hotspot", "wait")
    /\ \/ "STARTED" \in bits /\ bits' = bits \ {"STARTED"} /\ snap' = "HOTSPOT_READY"
       \/ UNCHANGED bits /\ snap' = "FAILED"
    /\ op' = NoOp
    /\ UNCHANGED <<join, events, drv, client, finish, hist, transferring>>

\* Only the policy's STOP asks for it, and a STOP ends the transfer.
radio_stop ==
    /\ Idle
    /\ transferring' = FALSE
    /\ \/ drv' = Stopped /\ events' = StopEvents /\ snap' = "READY"
       \/ snap' = "FAILED" /\ UNCHANGED <<drv, events>>
    /\ client' = NotClient
    /\ UNCHANGED <<join, bits, op, finish, hist>>

(***************************************************************************)
(* The runtime task of a client: a loss that was published, else a probe   *)
(***************************************************************************)
runtime_sees_loss ==
    /\ client.id # None /\ snap = "FAILED"
    /\ connect_begin(client.id)

\* The tick of a client comes to a probe, and revlink_wifi_radio_probe_gateway looks at the
\* published state first. A transfer puts the probes off; none can start during one, as it
\* would have to take runtime_mutex.
probe_begin ==
    /\ Idle /\ client.id # None /\ snap # "FAILED" /\ ~transferring
    /\ op' = [NoOp EXCEPT !.kind = "probe", !.pc = "ask"]
    /\ UNCHANGED <<snap, join, bits, events, drv, client, finish, hist, transferring>>

\* A plausible slip: the published state is believed.
ProbeAnswers_published == {snap = "CONNECTED"}

\* The gateway answers only over a link, and then may not answer either.
ProbeAnswers == IF snap = "CONNECTED" /\ drv.sta # None THEN BOOLEAN ELSE {FALSE}

\* The third failure in a row makes the policy restart the radio.
TooMany == client.failures + 1 >= Threshold

probe_gateway ==
    /\ At("probe", "ask")
    /\ \E ok \in ProbeAnswers :
         IF ok
         THEN client' = [client EXCEPT !.failures = 0] /\ op' = NoOp /\ UNCHANGED snap
         ELSE IF ~TooMany
         THEN /\ client' = [client EXCEPT !.failures = @ + 1]
              /\ op' = NoOp /\ UNCHANGED snap
         ELSE /\ op' = [kind |-> "connect", id |-> client.id, prev |-> snap, ok |-> FALSE,
                        pc |-> "stop"]
              /\ snap' = "CONNECTING"
              /\ client' = NotClient
    /\ UNCHANGED <<join, bits, events, drv, finish, hist, transferring>>

\* revlink_network_runtime_set_transfer_active, as the state of a sync changes. A transfer
\* starts in a usable network only, and outlasts it.
transfer_changes ==
    /\ Idle
    /\ transferring \/ client.id # None \/ snap = "HOTSPOT_READY"
    /\ transferring' = ~transferring
    /\ UNCHANGED <<snap, join, bits, events, drv, op, client, finish, hist>>

(***************************************************************************)
(* revlink_wifi_radio_finish_onboarding_transition, by onboarding's        *)
(* join_task, which does not hold runtime_mutex                            *)
(***************************************************************************)
finish_check ==
    /\ finish = "due"
    /\ finish' = IF snap = "CONNECTED" /\ ~join /\ op.kind # "scan" THEN "checked" ELSE "none"
    /\ UNCHANGED <<snap, join, bits, events, drv, op, client, hist, transferring>>

\* esp_wifi_set_mode(WIFI_MODE_STA), whatever has happened since the check.
finish_switch ==
    /\ finish = "checked"
    /\ drv' = [drv EXCEPT !.mode = "STA", !.ap = FALSE]
    /\ finish' = "none"
    /\ hist' = [hist EXCEPT !.raced = @ \/ snap # "CONNECTED"]
    /\ UNCHANGED <<snap, join, bits, events, op, client, transferring>>

Driver == driver_joins \/ driver_gives_up \/ driver_starts_ap
Restart == restart_stop \/ restart_mode \/ restart_up \/ restart_fails
Call ==
    \/ Restart \/ perform_scan \/ scan_ends
    \/ connect_settle \/ connect_clear \/ connect_refused \/ connect_wait \/ connect_lower \/ connect_publish
    \/ hotspot_wait \/ probe_gateway
Policy ==
    \/ \E id \in Networks : connect_begin(id)
    \/ hotspot_begin \/ radio_stop
RuntimeTask == runtime_sees_loss \/ probe_begin

RadioNext ==
    \/ Driver \/ link_breaks \/ wifi_event_handler
    \/ radio_start \/ Call \/ Policy \/ RuntimeTask
    \/ finish_check \/ finish_switch \/ transfer_changes

(***************************************************************************)
(* Fairness: the event loop works through its events, a call ends (every   *)
(* wait has a deadline, every driver call one of its own), and the runtime *)
(* task comes round.  Nothing obliges the policy to do anything else, the  *)
(* network to answer, or a transfer to end.                                *)
(***************************************************************************)
RadioSpec ==
    /\ RadioInit /\ [][RadioNext]_radioVars
    /\ WF_radioVars(wifi_event_handler) /\ WF_radioVars(Call) /\ SF_radioVars(RuntimeTask)

(***************************************************************************)
(* Properties                                                              *)
(***************************************************************************)

\* The radio is said to be connected only if this very join got an address: no event
\* that a join before it left behind, in the queue or in the bits, ends it.
JoinedForReal ==
    [][snap # "CONNECTED" /\ snap' = "CONNECTED" => hist.ip]_radioVars

\* A hotspot that is said to be ready has come up since it was last asked for, and is
\* still up, but for two races: the task that ends an onboarding switched the mode after
\* another call had begun, or the start of an earlier hotspot, which had missed its
\* deadline, was reported after this one cleared the bits.
HotspotIsUp == snap = "HOTSPOT_READY" /\ ~hist.raced => drv.ap

\* A link that breaks is noticed in the end, also when its event came in the window
\* between the wait and the publication, where the handler drops it: the probes find
\* what the published state does not say. That is once transfers have come to an end: they
\* put the probes off, and one that never ends (a sync that stays CANCELLING) for good.
LossNoticed ==
    <>[]~transferring =>
        ((snap = "CONNECTED" /\ drv.sta = None) ~> (snap # "CONNECTED" \/ drv.sta # None))

\* The same whatever the transfers do; MCRadioTransfer.cfg shows that it does not hold.
LossNoticedAnyway ==
    (snap = "CONNECTED" /\ drv.sta = None) ~> (snap # "CONNECTED" \/ drv.sta # None)

(***************************************************************************)
(* The inductive invariants                                                *)
(***************************************************************************)

\* Each call publishes its own states, and a client is known only while no other call
\* has published any.
CallPublishes ==
    /\ op.kind = "off" => snap \in {"DISABLED", "FAILED"}
    /\ op.kind = "scan" => snap \in {"READY", "SCANNING"}
    /\ op.kind = "connect" => snap = "CONNECTING" /\ op.pc # "none"
    /\ op.kind = "hotspot" => snap = "HOTSPOT_STARTING"
    /\ op.kind \in {"off", "scan"} => client.id = None
    /\ op.kind = "probe" => client.id # None
    /\ client.id # None => snap \in {"CONNECTED", "FAILED"}
    /\ snap = "HOTSPOT_READY" => Idle

\* A start that the driver has reported, and that no call has looked at.
Reported == "STARTED" \in bits \/ Waiting("AP_START")

\* Until this hotspot is up nothing reports a start, and what is reported is up.
HotspotInOrder ==
    /\ op.kind = "hotspot" /\ ~hist.raced =>
          /\ op.pc \in {"stop", "mode", "up"} => ~Reported /\ ~Starting
          /\ op.pc \in {"mode", "up"} => ~drv.running
          /\ op.pc = "up" => drv.mode = "AP"
          /\ op.pc = "wait" => (Reported => drv.ap)
    /\ op.kind = "hotspot" => op.pc \in {"stop", "mode", "up", "wait"}

HotspotIInv == RadioTypeOK /\ CallPublishes /\ HotspotInOrder /\ HotspotIsUp

\* Nothing is joining, or still to be reported as joined.
NoJoin == drv.want = None /\ ~Waiting("GOT_IP")
JoinReported == "CONNECTED" \in bits \/ Waiting("GOT_IP")

\* No address of an earlier join is on its way when a join is begun, and what is
\* reported in it is its own.
JoinInOrder ==
    /\ op.kind \in {"off", "scan"} => NoJoin
    /\ snap = "READY" /\ drv.running /\ Idle => NoJoin
    /\ op.kind = "connect" =>
          /\ op.pc \in {"mode", "up"} => drv.want = None /\ ~drv.running
          /\ op.pc \in {"settle", "clear"} => NoJoin
          /\ op.pc = "wait" => (JoinReported => hist.ip)
          /\ op.pc \in {"lower", "publish"} => (op.ok => hist.ip)
          /\ op.pc \in {"stop", "mode", "up", "settle", "clear", "wait"} => ~op.ok

JoinIInv == RadioTypeOK /\ CallPublishes /\ JoinInOrder
=============================================================================
