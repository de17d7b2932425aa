------------------------------ MODULE SoftPower ------------------------------
(***************************************************************************)
(* The BOOT button and what hangs on it: esp32p4/main/revlink_soft_power.c *)
(* with the debouncer (components/revlink_power), the confirmation of a    *)
(* card format (components/revlink_storage_recovery), the start and stop   *)
(* of the card (revlink_sd_storage.c) and the gate the composition root    *)
(* closes when a shutdown begins (revlink_main.c).                         *)
(*                                                                         *)
(* One task samples the button and does all of the work in line.  Beside   *)
(* it the portal, the retry task and the USB tasks ask for syncs, having   *)
(* looked at the gate before.  Times are counted in samples of the button. *)
(* Upload and delete sessions, which the shutdown neither asks nor waits   *)
(* for, are not in the model.                                              *)
(***************************************************************************)
EXTENDS SyncCoordinator, Integers, FiniteSets

CONSTANTS
    Debounce,       \* REVLINK_BUTTON_DEBOUNCE_MS, in samples
    Hold,           \* REVLINK_BUTTON_HOLD_MS
    Window,         \* REVLINK_MULTI_PRESS_WINDOW_MS
    Confirm,        \* REVLINK_STORAGE_CONFIRMATION_TIMEOUT_MS
    Patience,       \* REVLINK_SYNC_CANCEL_TIMEOUT_MS, in polls
    Attempts,       \* REVLINK_STORAGE_START_ATTEMPTS
    MaxAsked,       \* bound: how many are past the gate at once
    MaxPresses      \* bound: presses counted in one group

ASSUME PowerAssumption ==
    /\ Debounce \in Nat \ {0} /\ Hold \in Nat \ {0} /\ Window \in Nat \ {0}
    /\ Confirm \in Nat \ {0} /\ Patience \in Nat /\ Attempts \in Nat \ {0}
    /\ MaxPresses \in Nat /\ MaxPresses > 2 /\ MaxAsked \in Nat

StorageStates == {"UNKNOWN", "MISSING", "UNREADABLE", "ERROR", "MOUNTED"}
RecoveryStates == {"UNAVAILABLE", "AWAITING_REQUEST", "AWAITING_CONFIRMATION", "FORMATTING"}
Askers == {"portal", "retry", "continuation", "setting", "attach"}

VARIABLES
    button,     \* revlink_power_button_t
    group,      \* short_press_count, short_press_window_ms
    overlay,    \* the OLED shows the QR code or the address
    recovery,   \* revlink_storage_recovery_t
    storage,    \* storage_state, storage_card # NULL, storage_power # NULL
    medium,     \* external: what is in the slot, and whether its filesystem is mounted
    task,       \* where the soft-power task is
    gate,       \* shutdown_requested
    asked,      \* who has looked at the gate or the policy and not asked the coordinator yet
    closing,    \* a failed close whose recovery is about to be queued
    hist        \* history: see NoHistory

power == <<button, group, overlay, recovery>>
card == <<storage, medium>>
syncs == <<sync, policy, asked, closing>>
vars == <<button, group, overlay, recovery, storage, medium, task, gate, asked, closing,
          sync, policy, hist>>

Released == [cand |-> FALSE, candFor |-> 0, stable |-> FALSE, heldFor |-> 0, latched |-> FALSE]
NoGroup == [count |-> 0, window |-> 0]
NoStorage == [state |-> "UNKNOWN", card |-> FALSE, power |-> FALSE]
Starting == [pc |-> "start", n |-> 1]
Sampling == [pc |-> "sample", n |-> 0]

\* What is kept of the line: raw, the samples it has its level for; down, that level;
\* solid, the last level that lasted the debounce time; held, the press has asked for a
\* shutdown; burst, the presses in a row, each over before the window after the last one
\* was; quiet, the samples since the last of them; since, those since two presses in a
\* row, while a format is offered; confirmed, this sample ends two more, in time.
\* skipped: an unmount has failed; passed: someone was on the way to the coordinator when
\* the automatic sync went off; late: a sync other than a recovery of the session began
\* behind the closed gate.
NoHistory == [raw |-> 0, down |-> FALSE, solid |-> FALSE, held |-> FALSE, burst |-> 0,
              quiet |-> 0, since |-> Confirm, confirmed |-> FALSE,
              skipped |-> FALSE, passed |-> FALSE, late |-> FALSE]

TypeOK ==
    /\ SyncTypeOK
    /\ button \in [cand : BOOLEAN, candFor : 0..Debounce, stable : BOOLEAN,
                   heldFor : 0..Hold, latched : BOOLEAN]
    /\ group \in [count : 0..MaxPresses, window : 0..Window - 1]
    /\ overlay \in BOOLEAN /\ gate \in BOOLEAN /\ closing \in BOOLEAN
    /\ recovery \in [state : RecoveryStates, elapsed : 0..Confirm - 1]
    /\ storage \in [state : StorageStates, card : BOOLEAN, power : BOOLEAN]
    /\ medium \in [kind : {"absent", "blank", "fresh", "files"}, mounted : BOOLEAN]
    /\ task \in [pc : {"start", "sample", "gate", "policy", "cancel", "wait", "disconnect",
                       "stop", "tick", "format", "asleep"}, n : Nat]
    /\ asked \subseteq Askers
    /\ (group.count = 0) = (group.window = 0)

\* app_main with a card in the slot or none, before the card is started.
Init ==
    /\ SyncInit
    /\ button = Released /\ group = NoGroup /\ overlay = FALSE
    /\ recovery = [state |-> "UNAVAILABLE", elapsed |-> 0]
    /\ storage = NoStorage
    /\ medium \in [kind : {"absent", "blank", "files"}, mounted : {FALSE}]
    /\ task = Starting
    /\ gate = FALSE /\ asked = {} /\ closing = FALSE
    /\ hist = NoHistory

(***************************************************************************)
(* The card                                                                *)
(***************************************************************************)

\* What esp_vfs_fat_*_mount makes of the slot.  A card with a filesystem may
\* fail to answer; only one without is formatted, and only when asked to.
Mounts(format) ==
    IF medium.mounted THEN {"silent"}
    ELSE CASE medium.kind = "absent" -> {"absent"}
           [] medium.kind = "blank" -> IF format THEN {"fresh", "blank"} ELSE {"blank"}
           [] OTHER -> {medium.kind, "silent"}

\* How a failed mount is classified: a card that answers the probe is UNREADABLE.
\* The card that did not answer the mount may or may not answer the probe.
Classified(found) ==
    CASE found = "absent" -> {"MISSING", "ERROR"}
      [] found = "blank" -> {"UNREADABLE", "ERROR"}
      [] OTHER -> {"UNREADABLE", "MISSING", "ERROR"}

Usable == {"fresh", "files"}

\* A plausible slip: as storage_start_internal, with the card formatted before it is tried.
StartOutcomes_eager(format) ==
    IF format /\ medium.kind # "absent"
    THEN {[s |-> [state |-> "MOUNTED", card |-> TRUE, power |-> TRUE],
           m |-> [kind |-> "fresh", mounted |-> TRUE]]}
    ELSE {[s |-> [NoStorage EXCEPT !.state = "UNREADABLE"], m |-> medium]}

\* storage_start_internal: no mutex, no hash, no power, no bus; a failed mount,
\* after which the power is released; a mounted card whose directories cannot be
\* made, with a clean-up that may fail at the unmount or at the power; or a start.
StartOutcomes(format) ==
    {[s |-> [storage EXCEPT !.state = "UNKNOWN"], m |-> medium]}
    \union {[s |-> [NoStorage EXCEPT !.state = state], m |-> medium] :
            state \in UNION {Classified(found) : found \in Mounts(format) \ Usable}}
    \union {[s |-> [state |-> "ERROR", card |-> FALSE, power |-> cleaned # "all"],
             m |-> [kind |-> found, mounted |-> cleaned = "power"]] :
            found \in Mounts(format) \intersect Usable, cleaned \in {"all", "unmounted", "power"}}
    \union {[s |-> [state |-> "MOUNTED", card |-> TRUE, power |-> TRUE],
             m |-> [kind |-> found, mounted |-> TRUE]] :
            found \in Mounts(format) \intersect Usable}

\* revlink_storage_recovery_init
recovery_init(s) ==
    [state |-> IF s.state = "UNREADABLE" THEN "AWAITING_REQUEST" ELSE "UNAVAILABLE",
     elapsed |-> 0]

\* A start that gave the card up without unmounting it.
Skipped(o) == o.m.mounted /\ o.s.state # "MOUNTED"

\* start_storage_with_retry, one attempt; after the last one the Sidecar goes on
\* with whatever there is, and the soft-power task begins to sample.
start_storage ==
    /\ task.pc = "start"
    /\ \E o \in StartOutcomes(FALSE) :
        /\ storage' = o.s /\ medium' = o.m
        /\ IF o.s.state # "MOUNTED" /\ task.n < Attempts
           THEN task' = [task EXCEPT !.n = @ + 1] /\ UNCHANGED recovery
           ELSE task' = Sampling /\ recovery' = recovery_init(o.s)
        /\ hist' = [hist EXCEPT !.skipped = @ \/ Skipped(o)]
    /\ UNCHANGED <<button, group, overlay, gate, syncs>>

\* A reset, a wake from deep sleep, esp_restart: the memory starts afresh.
Restart(kind) ==
    /\ button' = Released /\ group' = NoGroup /\ overlay' = FALSE
    /\ recovery' = [state |-> "UNAVAILABLE", elapsed |-> 0]
    /\ storage' = NoStorage /\ task' = Starting
    /\ medium' = [kind |-> kind, mounted |-> FALSE]
    /\ gate' = FALSE /\ asked' = {} /\ closing' = FALSE
    /\ sync' = [state |-> "IDLE", recovery |-> FALSE]
    /\ UNCHANGED policy
    /\ hist' = NoHistory

\* RST or a power cycle.
Wake == task.pc = "asleep" /\ Restart(medium.kind)

\* The owner changes the card, which is out of use.
SwapCard(kind) ==
    /\ ~medium.mounted /\ task.pc = "sample" /\ medium.kind # kind
    /\ medium' = [kind |-> kind, mounted |-> FALSE]
    /\ UNCHANGED <<power, storage, task, gate, syncs, hist>>

(***************************************************************************)
(* The button                                                              *)
(***************************************************************************)
More(v, cap) == IF v < cap THEN v + 1 ELSE cap

\* A plausible slip: as button_update, without the debounce.
button_update_bouncing(b, raw) ==
    [b |-> [b EXCEPT !.cand = raw, !.stable = raw],
     action |-> IF b.stable /\ ~raw THEN "SHORT" ELSE "NONE"]

\* revlink_power_button_update: one sample, and what it amounts to.
button_update(b, raw) ==
    LET candFor == IF raw # b.cand THEN 1 ELSE More(b.candFor, Debounce)
        flips == raw # b.stable /\ candFor >= Debounce
        stable == IF flips THEN raw ELSE b.stable
        lifted == flips /\ ~raw
        heldFor == IF flips THEN 0 ELSE IF stable THEN More(b.heldFor, Hold) ELSE b.heldFor
        long == stable /\ ~b.latched /\ heldFor >= Hold
    IN  [b |-> [cand |-> raw, candFor |-> candFor, stable |-> stable, heldFor |-> heldFor,
                latched |-> IF lifted THEN FALSE ELSE b.latched \/ long],
         action |-> IF long THEN "SHUTDOWN" ELSE IF lifted /\ ~b.latched THEN "SHORT" ELSE "NONE"]

\* soft_power_task: a press dismisses an overlay or joins the group, and every
\* sample of an open group ages it, the one that opened it included.
Counted(action) ==
    CASE action = "SHUTDOWN" \/ (action = "SHORT" /\ overlay) -> NoGroup
      [] action = "SHORT" /\ ~overlay -> [count |-> More(group.count, MaxPresses), window |-> 0]
      [] OTHER -> group
Aged(g) == IF g.count > 0 THEN [g EXCEPT !.window = @ + 1] ELSE g
Closed(g) == g.count > 0 /\ g.window >= Window

\* revlink_storage_recovery_double_press
recovery_double_press(r) ==
    CASE r.state = "AWAITING_REQUEST" -> [state |-> "AWAITING_CONFIRMATION", elapsed |-> 0]
      [] r.state = "AWAITING_CONFIRMATION" /\ r.elapsed < Confirm ->
            [r EXCEPT !.state = "FORMATTING"]
      [] OTHER -> r

\* revlink_storage_recovery_tick
recovery_tick(r) ==
    IF r.state # "AWAITING_CONFIRMATION" THEN r
    ELSE IF r.elapsed + 1 < Confirm THEN [r EXCEPT !.elapsed = @ + 1]
    ELSE [state |-> "AWAITING_REQUEST", elapsed |-> 0]

\* The line is seen in a level.  A press is over when the line was down for the debounce
\* time and has been up for as long.  It is one more of a row, unless it asked for a
\* shutdown or took an overlay down: those, and the window, end the row.
Seen(raw, action) ==
    LET n == IF raw = hist.down THEN More(hist.raw, Debounce) ELSE 1
        over == n >= Debounce /\ ~raw /\ hist.solid
        held == hist.held \/ action = "SHUTDOWN"
        burst == IF action = "SHUTDOWN" \/ (over /\ ~held /\ overlay) THEN 0
                 ELSE IF over /\ ~held THEN More(hist.burst, MaxPresses) ELSE hist.burst
        quiet == IF burst = 0 THEN 0 ELSE IF over /\ ~held THEN 1 ELSE hist.quiet + 1
        since == More(hist.since, Confirm)
        pair == burst = 2 /\ quiet >= Window
    IN  [hist EXCEPT !.down = raw, !.raw = n,
                     !.solid = IF n < Debounce THEN @ ELSE raw,
                     !.held = held /\ ~over,
                     !.burst = IF quiet >= Window THEN 0 ELSE burst,
                     !.quiet = IF quiet >= Window THEN 0 ELSE quiet,
                     !.since = IF recovery.state = "UNAVAILABLE" THEN Confirm
                               ELSE IF pair THEN 0 ELSE since,
                     !.confirmed = pair /\ since < Confirm]

\* One round of soft_power_task up to perform_shutdown, the format or the tick.
soft_power_sample(raw) ==
    LET up == button_update(button, raw)
        g == Aged(Counted(up.action))
        double == Closed(g) /\ g.count = 2
        r == IF double THEN recovery_double_press(recovery) ELSE recovery
        shortcut == double /\ recovery.state = "UNAVAILABLE" /\ storage.state = "MOUNTED"
    IN  /\ task.pc = "sample"
        /\ button' = up.b
        /\ group' = IF Closed(g) THEN NoGroup ELSE g
        /\ recovery' = r
        /\ \E shown \in IF shortcut THEN BOOLEAN ELSE {FALSE} :
              overlay' = (shown \/ (overlay /\ up.action # "SHORT"))
        /\ task' = [Sampling EXCEPT !.pc =
                      IF up.action = "SHUTDOWN" THEN "gate"
                      ELSE IF r.state = "FORMATTING" THEN "format" ELSE "tick"]
        /\ hist' = Seen(raw, up.action)
        /\ UNCHANGED <<card, gate, syncs>>

\* The rest of the round, whatever came before it.
soft_power_tick ==
    /\ task.pc = "tick"
    /\ recovery' = recovery_tick(recovery)
    /\ task' = Sampling
    /\ UNCHANGED <<button, group, overlay, card, gate, syncs, hist>>

\* The OLED takes an overlay down by itself.
OverlayEnds ==
    /\ overlay /\ task.pc = "sample"
    /\ overlay' = FALSE
    /\ UNCHANGED <<button, group, recovery, card, task, gate, syncs, hist>>

\* revlink_sd_storage_format_unreadable: a restart if it works, else the recovery
\* begins again from what the card is now.
format_unreadable ==
    /\ task.pc = "format"
    /\ \E o \in IF storage = [NoStorage EXCEPT !.state = "UNREADABLE"] THEN StartOutcomes(TRUE)
                ELSE {[s |-> storage, m |-> medium]} :
        IF o.s.state = "MOUNTED" THEN Restart(o.m.kind)
        ELSE /\ storage' = o.s /\ medium' = o.m
             /\ recovery' = recovery_init(o.s)
             /\ task' = [Sampling EXCEPT !.pc = "tick"]
             /\ hist' = [hist EXCEPT !.since = Confirm, !.skipped = @ \/ Skipped(o)]
             /\ UNCHANGED <<button, group, overlay, gate, syncs>>

(***************************************************************************)
(* Shutting down                                                           *)
(***************************************************************************)
Aborted == [Sampling EXCEPT !.pc = "tick"]

\* revlink_runtime_prepare_shutdown: the gate closes.  The application is ready before
\* the button is sampled, and its policy takes any value it is given.
prepare_gate ==
    /\ task.pc = "gate"
    /\ gate' = TRUE
    /\ task' = [task EXCEPT !.pc = IF gate THEN "cancel" ELSE "policy"]
    /\ UNCHANGED <<power, card, syncs, hist>>

\* A plausible slip: as prepare_policy, leaving the automatic sync on.
prepare_policy_kept ==
    /\ task.pc = "policy"
    /\ task' = [task EXCEPT !.pc = "cancel"]
    /\ hist' = [hist EXCEPT !.passed = asked # {}]
    /\ UNCHANGED <<power, card, gate, syncs>>

\* The first time, the automatic sync goes off then.
prepare_policy ==
    /\ task.pc = "policy"
    /\ policy' = FALSE
    /\ task' = [task EXCEPT !.pc = "cancel"]
    /\ hist' = [hist EXCEPT !.passed = asked # {}]
    /\ UNCHANGED <<power, card, gate, sync, asked, closing>>

\* It reads the state of the sync and cancels what is active.  The transport may
\* refuse, or the sync be over in between; the shutdown is then given up.
prepare_cancel ==
    /\ task.pc = "cancel"
    /\ \/ /\ ~Cancellable(sync)
          /\ task' = [task EXCEPT !.pc = "wait", !.n = 0]
          /\ UNCHANGED sync
       \/ /\ Cancellable(sync)
          /\ \/ sync' = Cancelling(sync) /\ task' = [task EXCEPT !.pc = "wait", !.n = 0]
             \/ UNCHANGED sync /\ task' = Aborted
    /\ UNCHANGED <<power, card, policy, asked, closing, gate, hist>>

\* A plausible slip: as wait_for_sync, never giving up.
wait_for_sync_forever ==
    /\ task.pc = "wait"
    /\ task' = IF ~is_active(sync.state) THEN [task EXCEPT !.pc = "disconnect", !.n = 0]
               ELSE task
    /\ UNCHANGED <<power, card, gate, syncs, hist>>

\* wait_for_sync_to_stop, one look.
wait_for_sync ==
    /\ task.pc = "wait"
    /\ task' = IF ~is_active(sync.state) THEN [task EXCEPT !.pc = "disconnect", !.n = 0]
               ELSE IF task.n >= Patience THEN Aborted
               ELSE [task EXCEPT !.n = @ + 1]
    /\ UNCHANGED <<power, card, gate, syncs, hist>>

\* revlink_usb_link_disconnect; a failure is only logged.
usb_link_disconnect ==
    /\ task.pc = "disconnect"
    /\ task' = [task EXCEPT !.pc = "stop"]
    /\ UNCHANGED <<power, card, gate, syncs, hist>>

\* A plausible slip: as storage_stop, sleeping after a failed unmount too.
storage_stop_careless ==
    /\ task.pc = "stop"
    /\ storage' = NoStorage
    /\ medium' \in {medium, [medium EXCEPT !.mounted = FALSE]}
    /\ task' = [Sampling EXCEPT !.pc = "asleep"]
    /\ UNCHANGED <<power, gate, syncs, hist>>

\* revlink_sd_storage_stop, and deep sleep if it succeeds.  The handle of the card
\* is forgotten before the unmount is known to have worked.
storage_stop ==
    /\ task.pc = "stop"
    /\ \/ /\ storage.card     \* the unmount fails
          /\ storage' = [storage EXCEPT !.card = FALSE]
          /\ hist' = [hist EXCEPT !.skipped = TRUE]
          /\ task' = Aborted
          /\ UNCHANGED medium
       \/ /\ storage.power    \* the power cannot be released
          /\ storage' = [storage EXCEPT !.card = FALSE]
          /\ medium' = [medium EXCEPT !.mounted = @ /\ ~storage.card]
          /\ task' = Aborted
          /\ UNCHANGED hist
       \/ /\ storage' = NoStorage
          /\ medium' = [medium EXCEPT !.mounted = @ /\ ~storage.card]
          /\ task' = [Sampling EXCEPT !.pc = "asleep"]
          /\ UNCHANGED hist
    /\ UNCHANGED <<power, gate, syncs>>

(***************************************************************************)
(* Everyone else                                                           *)
(***************************************************************************)
\* While the task samples the button, its steps and those of the others commute:
\* they meet in nothing before the next shutdown.  The others therefore take their
\* steps, those of the time before included, from the hold's request to its end.
Awake == task.pc \in {"gate", "policy", "cancel", "wait", "disconnect", "stop"}

\* revlink_runtime_request_sync, auto_sync_retry_task and the continuation of a
\* batch look at the gate before they ask; the portal looks at the card as well.
\* handle_device_snapshot looks at the policy alone when a device has come.
PassGate(who) ==
    /\ Awake /\ (gate => who = "attach") /\ who \notin asked
    /\ Cardinality(asked) < MaxAsked
    /\ who = "portal" => storage.state = "MOUNTED"
    /\ who \in {"retry", "attach"} => policy
    /\ who = "continuation" => sync.state = "COMPLETED"
    /\ asked' = asked \union {who}
    /\ UNCHANGED <<power, card, task, gate, sync, policy, closing, hist>>

Begun(recovering) ==
    /\ sync' = Queued(recovering)
    /\ hist' = [hist EXCEPT !.late = @ \/ (gate /\ ~recovering)]

\* Then the coordinator is asked; it and the transport may refuse.
AskSync(who) ==
    /\ Awake /\ who \in asked \ {"setting"}
    /\ asked' = asked \ {who}
    /\ \/ ~is_active(sync.state) /\ Begun(FALSE)
       \/ UNCHANGED <<sync, hist>>
    /\ UNCHANGED <<power, card, task, gate, policy, closing>>

\* revlink_runtime_set_auto_sync, past the gate: the setting is saved, then applied.
SetAutoSync(enabled) ==
    /\ Awake /\ "setting" \in asked
    /\ asked' = asked \ {"setting"}
    /\ policy' = enabled
    /\ UNCHANGED <<power, card, task, gate, sync, closing, hist>>

\* The transport reports on the sync.  A close that failed after the data leaves
\* the snapshot FAILED before revlink_application_handle_sync_event queues the
\* recovery of the session, which looks at no gate.
SyncEventSeen(kind) ==
    LET ev == [kind |-> kind, recovery |-> sync.recovery, dataDone |-> TRUE,
               closeAck |-> FALSE, moved |-> FALSE]
    IN  /\ Awake /\ is_active(sync.state) /\ SyncAccepts(sync, ev)
        /\ sync' = SyncAfter(sync, ev)
        /\ closing' \in IF kind = "FAILED" /\ ~sync.recovery THEN BOOLEAN ELSE {FALSE}
        /\ UNCHANGED <<power, card, task, gate, policy, asked, hist>>

RecoverSession ==
    /\ Awake /\ closing
    /\ closing' = FALSE
    /\ \/ ~is_active(sync.state) /\ Begun(TRUE)
       \/ UNCHANGED <<sync, hist>>
    /\ UNCHANGED <<power, card, task, gate, policy, asked>>

\* The task from a hold to the end of its round.
ShutdownSteps ==
    \/ prepare_gate \/ prepare_policy \/ prepare_cancel \/ wait_for_sync
    \/ usb_link_disconnect \/ storage_stop \/ soft_power_tick

SoftPowerTask ==
    \/ start_storage \/ (\E raw \in BOOLEAN : soft_power_sample(raw))
    \/ format_unreadable \/ ShutdownSteps

Next ==
    \/ SoftPowerTask
    \/ Wake
    \/ \E kind \in {"absent", "blank", "files"} : SwapCard(kind)
    \/ OverlayEnds
    \/ \E who \in Askers : PassGate(who) \/ AskSync(who)
    \/ \E enabled \in BOOLEAN : SetAutoSync(enabled)
    \/ \E kind \in SyncEventKinds : SyncEventSeen(kind)
    \/ RecoverSession

\* The task runs at a priority no other task of the firmware starves, and none of these
\* steps waits for anyone; nothing is assumed of the transport, the owner or the portal.
Spec == Init /\ [][Next]_vars /\ WF_vars(ShutdownSteps)

(***************************************************************************)
(* Properties                                                              *)
(***************************************************************************)

\* The card is formatted when two presses of the button in a row, no more and no fewer,
\* have just ended, and two others had while the format was offered, less than the
\* confirmation time before, counted in samples (revlink_power_button_update,
\* soft_power_task, revlink_storage_recovery_double_press and _tick).  A press lasts the
\* debounce time: bounces, holds, presses that took an overlay down and longer rows do
\* not add up to a confirmation, and neither does what came before a failed format.
FormatConfirmed == task.pc = "format" => hist.confirmed

\* A card with a filesystem is never formatted, although the offer to format was
\* made at start-up for a card that the owner may have changed since
\* (revlink_sd_storage_format_unreadable, mount_card).
FilesKept == [][medium.kind = "files" => medium'.kind # "fresh"]_vars

\* The Sidecar sleeps with the filesystem mounted only if an unmount has failed
\* before: perform_shutdown stays awake, but the handle is gone and the next hold
\* skips the unmount (revlink_sd_storage_stop).
SleepsUnmounted == task.pc = "asleep" /\ medium.mounted => hist.skipped

\* The Sidecar sleeps with a sync active only if that sync is the recovery of the
\* session the shutdown has just cancelled, or began behind the gate because someone was
\* on the way when the automatic sync went off: a request, a retry or a continuation that
\* had seen the gate open, an attachment that had seen the automatic sync on, or a
\* setting that turns it on again (revlink_runtime_prepare_shutdown and its readers,
\* handle_device_snapshot, wait_for_sync_to_stop, perform_shutdown).
SleepsSynced ==
    task.pc = "asleep" /\ is_active(sync.state) =>
        (hist.late /\ hist.passed) \/ sync.recovery

\* A hold ends in sleep or hands the button back, even if the sync it cancels never
\* stops (wait_for_sync_to_stop).
HoldAnswered == task.pc = "gate" ~> task.pc \in {"sample", "asleep"}

(***************************************************************************)
(* The inductive invariant                                                 *)
(***************************************************************************)

\* The history sees what the debouncer and the group see: the same line, for as long.
ButtonSeen ==
    /\ hist.raw = button.candFor /\ hist.down = button.cand /\ hist.solid = button.stable
    /\ hist.held = button.latched
    /\ hist.burst = group.count /\ hist.quiet = group.window

\* A format waits for its confirmation for as long as two presses are behind.
RequestSeen ==
    /\ recovery.state = "AWAITING_CONFIRMATION" =>
          hist.since + (IF task.pc = "sample" THEN 1 ELSE 0) = recovery.elapsed
    /\ recovery.state = "FORMATTING" <=> task.pc = "format"

\* Behind the closed gate a sync is begun by a recovery, or by someone on the way.
GateHolds ==
    /\ task.pc \in {"policy", "cancel", "wait", "disconnect", "stop", "asleep"} => gate
    /\ gate /\ task.pc # "policy" /\ (policy \/ asked # {}) => hist.passed
    /\ task.pc \in {"disconnect", "stop", "asleep"} /\ is_active(sync.state) =>
          (hist.late /\ hist.passed) \/ sync.recovery

\* A filesystem whose card is forgotten was given up by an unmount that failed.
CardHeld == medium.mounted /\ (~storage.card \/ task.pc = "asleep") => hist.skipped

HistTypeOK == hist \in [raw : 0..Debounce, down : BOOLEAN, solid : BOOLEAN, held : BOOLEAN,
                        burst : 0..MaxPresses, quiet : 0..Window - 1, since : 0..Confirm,
                        confirmed : BOOLEAN,
                        skipped : BOOLEAN, passed : BOOLEAN, late : BOOLEAN]

PowerIInv ==
    /\ TypeOK /\ HistTypeOK /\ ButtonSeen /\ RequestSeen /\ GateHolds /\ CardHeld
    /\ FormatConfirmed
=============================================================================
