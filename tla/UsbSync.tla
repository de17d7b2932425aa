------------------------------- MODULE UsbSync -------------------------------
(***************************************************************************)
(* The sync path across tasks: the USB adapter                             *)
(* (firmware/components/accessport_usb/revlink_accessport_usb.c) with its  *)
(* client, descriptor and transaction tasks and its control queue, the     *)
(* callbacks of esp32p4/main/revlink_main.c, and the application they      *)
(* drive.  Nothing locks the application, so the steps of the tasks        *)
(* interleave between the handlers of Application.                         *)
(*                                                                         *)
(* The client task outranks the descriptor and transaction tasks on the    *)
(* core all three are pinned to: they run while it waits for events or for *)
(* a lock, and it preempts them between any two of their steps. The portal *)
(* and the retry task run on any core: between handing a request to the    *)
(* queue and recording it in the coordinator the portal may be overtaken   *)
(* by everyone.                                                            *)
(*                                                                         *)
(* Left out: progress events (they change no state the tasks read), the    *)
(* write and delete work kinds, the policy switch, the root-port power     *)
(* cycle (to the bus, an unplug followed by a plug) and overflow of the    *)
(* work queues, which hold at most one item for each open device.          *)
(***************************************************************************)
EXTENDS Application, SequencesExt

CONSTANTS
    NumSlots,              \* USB addresses in use
    MaxAttach,             \* bound on the attachments of a behaviour
    MaxCalls,              \* bound on the portal's requests and cancellations
    CONTROL_QUEUE_DEPTH    \* depth of control_requests

ASSUME SlotAssumption == NumSlots \in Nat \ {0}
ASSUME AttachAssumption == MaxAttach \in Nat /\ Identities = 1..MaxAttach /\ NoIdentity = 0
ASSUME CallAssumption == MaxCalls \in Nat
ASSUME DepthAssumption == CONTROL_QUEUE_DEPTH \in Nat \ {0}

Slots == 1..NumSlots

VARIABLES
    bus,       \* external: what is on the bus, by address
    dev,       \* enumeration_client_t.devices
    usb,       \* the remaining fields of enumeration_client_t and the cancel flag
    client,    \* where the client task is in its loop
    ctl,       \* control_requests
    scanq, scan, scanres,    \* descriptor task: requests, work in hand, results
    txq, txn, txres,         \* transaction task: requests, work in hand, results
    owner,     \* the portal call in flight, and the calls left
    retry      \* the delayed retry task: where it is, and auto_sync_retry_generation

appVars == <<device, sync, policy, app, hist>>
scanVars == <<scanq, scan, scanres>>
txVars == <<txq, txn, txres>>
usbVars == <<appVars, bus, dev, usb, client, ctl, scanVars, txVars, owner, retry>>

BusStates == {"empty", "arrived", "present", "leaving", "gone"}
WorkKinds == {"SYNC", "RECOVER", "IDENTITY"}
Requests == WorkKinds \union {"CANCEL"}
Work(kinds) == [kind : kinds, slot : Slots, gen : Identities]

Entry == [open : BOOLEAN, action : {"NONE", "OPEN", "CLOSE"}, busy : BOOLEAN,
          accessport : BOOLEAN, eligible : BOOLEAN, gen : Identities \union {0},
          polite : BOOLEAN]

NoDevice == [open |-> FALSE, action |-> "NONE", busy |-> FALSE, accessport |-> FALSE,
             eligible |-> FALSE, gen |-> 0, polite |-> FALSE]

ScanIdle == [pc |-> "idle", slot |-> 1, gen |-> 0, revision |-> 0, soft |-> FALSE, count |-> 0]

TxnIdle == [pc |-> "idle", kind |-> "SYNC", slot |-> 1, gen |-> 0, cancelled |-> FALSE,
            passed |-> FALSE, moved |-> FALSE, ack |-> FALSE, clean |-> FALSE]

ScanPcs == {"idle", "read", "count", "multiple", "cancel", "report_multiple", "attach",
            "accept", "attach_unmatched", "fail", "done"}
TxnPcs == {"idle", "start", "claim", "check", "data", "cleanup", "close", "closed",
           "report", "result"}

NoRetry == [pc |-> "none", gen |-> 0]

RetryState == [pc : {"none", "delay", "check", "request", "record"}, gen : Identities \union {0}]

\* The adapter: the bus, the table of devices, the queues and the tasks behind them.
AdapterTypeOK ==
    /\ bus \in [Slots -> BusStates] /\ dev \in [Slots -> Entry]
    /\ usb \in [latched : BOOLEAN, cancelRequested : BOOLEAN, revision : Nat,
                generation : 0..MaxAttach, expectPolite : BOOLEAN]
    /\ client \in {"events", "control", "blocked", "inspect"}
    /\ ctl \in Seq(Requests)
    /\ scanq \in Seq(Work({"SCAN"})) /\ scanres \in Seq(Work({"SCAN"}))
    /\ txq \in Seq(Work(WorkKinds)) /\ txres \in Seq(Work(WorkKinds))
    /\ scan \in [pc : ScanPcs, slot : Slots, gen : Identities \union {0}, revision : Nat,
                 soft : BOOLEAN, count : Nat]
    /\ txn \in [pc : TxnPcs, kind : WorkKinds, slot : Slots, gen : Identities \union {0},
                cancelled : BOOLEAN, passed : BOOLEAN, moved : BOOLEAN, ack : BOOLEAN,
                clean : BOOLEAN]

UsbTypeOK ==
    /\ AppTypeOK /\ AdapterTypeOK
    /\ Len(ctl) <= CONTROL_QUEUE_DEPTH
    /\ owner \in [pc : {"idle", "requesting", "cancelling"}, calls : 0..MaxCalls]
    /\ retry \in RetryState

UsbInit ==
    /\ Init
    /\ bus = [s \in Slots |-> "empty"]
    /\ dev = [s \in Slots |-> NoDevice]
    /\ usb = [latched |-> FALSE, cancelRequested |-> FALSE, revision |-> 0,
              generation |-> 0, expectPolite |-> FALSE]
    /\ client = "events"
    /\ ctl = <<>> /\ scanq = <<>> /\ scanres = <<>> /\ txq = <<>> /\ txres = <<>>
    /\ scan = ScanIdle /\ txn = TxnIdle
    /\ owner = [pc |-> "idle", calls |-> MaxCalls] /\ retry = NoRetry

(***************************************************************************)
(* Counting and the queue                                                  *)
(***************************************************************************)

Live(d) == d.open /\ d.eligible /\ d.action # "CLOSE"

eligible_accessport_count(table) == Cardinality({s \in Slots : Live(table[s])})

Room == Len(ctl) < CONTROL_QUEUE_DEPTH

\* What a handler has sent to the control queue shows in the coordinator, which
\* records a request or a cancellation exactly when the queue took it.
Sent ==
    IF sync'.state = "QUEUED" /\ sync.state # "QUEUED"
    THEN IF sync'.recovery THEN <<"RECOVER">> ELSE <<"SYNC">>
    ELSE IF sync'.state = "CANCELLING" /\ sync.state # "CANCELLING" THEN <<"CANCEL">> ELSE <<>>

\* schedule_auto_sync_retry, from the state a handler left.
ScheduleRetry(wanted) ==
    retry' = IF wanted /\ retry = NoRetry /\ auto_sync_retry_needed'
             THEN [pc |-> "delay", gen |-> device'.identity] ELSE retry

(***************************************************************************)
(* handle_usb_event: a device event reaches the application on the task    *)
(* that publishes it.  A fresh attachment also asks for the identity.      *)
(***************************************************************************)
DeviceEventOf(kind, gen, count, revision, soft) ==
    [kind |-> kind, identity |-> gen, count |-> count, revision |-> revision, soft |-> soft]

handle_usb_event(ev) ==
    IF ev.revision # 0 /\ ev.revision < device.revision
    THEN UNCHANGED <<appVars, ctl, retry>>
    ELSE LET taken == ev.kind = "ACCEPTED" /\ DeviceAccepts(device, ev)
         IN /\ handle_device_event(ev, Room)
            /\ ctl' = IF taken /\ ~ev.soft /\ ~is_active(sync'.state) /\ Room
                      THEN Append(ctl, "IDENTITY")
                      ELSE ctl \o Sent
            /\ ScheduleRetry(taken)

(***************************************************************************)
(* handle_sync_event of the composition root: the application's handler,   *)
(* then the continuation request when a clean batch left files pending.    *)
(***************************************************************************)
ContinuationDue(ev, pending) ==
    /\ ev.kind = "COMPLETED" /\ ~ev.recovery /\ ev.dataDone /\ ev.closeAck
    /\ pending /\ ev.moved

main_handle_sync_event(ev, pending) ==
    IF ~SyncAccepts(sync, ev)
    THEN UNCHANGED <<appVars, ctl, retry>>
    ELSE /\ IF ContinuationDue(ev, pending) /\ device.state = "AVAILABLE" /\ Room
            THEN /\ sync' = Queued(FALSE)
                 /\ app' = ManualFlags(AutoAfterSyncEvent(app, ev))
                 /\ hist' = [hist EXCEPT !.recoveries = 0, !.conflict = FALSE]
                 /\ UNCHANGED <<device, policy>>
            ELSE handle_sync_event(ev, Room)
         /\ ctl' = ctl \o Sent
         /\ ScheduleRetry(ev.kind = "FAILED")

SyncEventOf(kind, recovery) ==
    [kind |-> kind, recovery |-> recovery, dataDone |-> FALSE, closeAck |-> FALSE, moved |-> FALSE]

(***************************************************************************)
(* The bus (external).  An address is not given to a new device while a    *)
(* handle to the old one is open.  What happens on the bus during a pass   *)
(* of the client task is noticed only after it, and so placed there.       *)
(***************************************************************************)
ClientWaits == client \in {"events", "blocked"}

Arriving == Cardinality({s \in Slots : bus[s] = "arrived"})

Plug(s) ==
    /\ ClientWaits /\ device.state # "STOPPED"
    /\ bus[s] = "empty" /\ ~dev[s].open /\ dev[s].action = "NONE"
    /\ usb.generation + Arriving < MaxAttach
    /\ bus' = [bus EXCEPT ![s] = "arrived"]
    /\ UNCHANGED <<appVars, dev, usb, client, ctl, scanVars, txVars, owner, retry>>

\* Only a device that was opened is reported gone.
Unplug(s) ==
    /\ ClientWaits
    /\ bus[s] = "present" /\ dev[s].action # "OPEN"
    /\ bus' = [bus EXCEPT ![s] = IF dev[s].open THEN "leaving" ELSE "empty"]
    /\ UNCHANGED <<appVars, dev, usb, client, ctl, scanVars, txVars, owner, retry>>

(***************************************************************************)
(* Client task                                                             *)
(***************************************************************************)
\* A plausible slip: a handle is closed under a running transaction.
Closable_unguarded(s) == dev[s].action = "CLOSE" /\ dev[s].open

Closable(s) == dev[s].action = "CLOSE" /\ dev[s].open /\ ~dev[s].busy

\* The addresses inspect_pending_devices acts on.
Pending == {s \in Slots : dev[s].action = "OPEN" \/ Closable(s)}

\* usb_host_client_handle_events has delivered every event, and the pass that
\* follows has something to do; idle passes are left out.
PassDue ==
    /\ \A s \in Slots : bus[s] \notin {"arrived", "leaving"}
    /\ scanres # <<>> \/ txres # <<>> \/ ctl # <<>> \/ Pending # {}

\* client_event_callback
client_event_callback(s) ==
    /\ client = "events"
    /\ \/ /\ bus[s] = "arrived"
          /\ bus' = [bus EXCEPT ![s] = "present"]
          /\ usb' = [usb EXCEPT !.generation = @ + 1]
          /\ dev' = [dev EXCEPT ![s] = [NoDevice EXCEPT !.gen = usb.generation + 1,
                                                        !.action = "OPEN"]]
       \/ /\ bus[s] = "leaving"
          /\ bus' = [bus EXCEPT ![s] = "gone"]
          /\ dev' = [dev EXCEPT ![s].action = "CLOSE"]
          /\ UNCHANGED usb
    /\ UNCHANGED <<appVars, client, ctl, scanVars, txVars, owner, retry>>

\* A pass of the client task starts with the results.
collect_scan_results ==
    /\ client = "events" /\ PassDue
    /\ LET results == Range(scanres) \union Range(txres)
       IN dev' = [s \in Slots |->
                    IF \E w \in results : w.slot = s /\ w.gen = dev[s].gen
                    THEN [dev[s] EXCEPT !.busy = FALSE] ELSE dev[s]]
    /\ scanres' = <<>> /\ txres' = <<>>
    /\ client' = "control"
    /\ UNCHANGED <<appVars, bus, usb, ctl, scanq, scan, txq, txn, owner, retry>>

Single == ~usb.latched /\ eligible_accessport_count(dev) = 1

Selectable(s) == Live(dev[s]) /\ ~dev[s].busy

\* A cancellation only raises the flag the transaction task polls.
accept_cancel ==
    /\ Head(ctl) = "CANCEL"
    /\ usb' = [usb EXCEPT !.cancelRequested = TRUE]
    /\ ctl' = Tail(ctl)
    /\ UNCHANGED <<appVars, bus, dev, client, scanVars, txVars, owner, retry>>

\* The accepted device is busy: the request goes to the back of the queue and
\* this pass ends.  An identity request is dropped instead.
defer_request ==
    /\ Head(ctl) # "CANCEL" /\ Single /\ ~\E s \in Slots : Selectable(s)
    /\ ctl' = IF Head(ctl) = "IDENTITY" THEN Tail(ctl) ELSE Append(Tail(ctl), Head(ctl))
    /\ client' = IF Head(ctl) = "IDENTITY" THEN client ELSE "inspect"
    /\ UNCHANGED <<appVars, bus, dev, usb, scanVars, txVars, owner, retry>>

\* A sync hears of its refusal.  Publishing it takes the lock of the network
\* runtime, on which the client task may block.
refuse_request ==
    /\ Head(ctl) # "CANCEL" /\ ~Single
    /\ LET ev == SyncEventOf("FAILED", Head(ctl) = "RECOVER")
       IN IF Head(ctl) # "IDENTITY" /\ SyncAccepts(sync, ev)
          THEN handle_sync_event(ev, FALSE) /\ ScheduleRetry(TRUE) /\ client' = "blocked"
          ELSE UNCHANGED <<appVars, retry, client>>
    /\ ctl' = Tail(ctl)
    /\ UNCHANGED <<bus, dev, usb, scanVars, txVars, owner>>

refusal_published ==
    /\ client = "blocked"
    /\ client' = "control"
    /\ UNCHANGED <<appVars, bus, dev, usb, ctl, scanVars, txVars, owner, retry>>

\* The one eligible device is pinned by handle and generation; a new request
\* starts with the cancel flag down.
dispatch_request ==
    /\ Head(ctl) # "CANCEL" /\ Single
    /\ \E s \in Slots :
          /\ Selectable(s)
          /\ dev' = [dev EXCEPT ![s].busy = TRUE]
          /\ txq' = Append(txq, [kind |-> Head(ctl), slot |-> s, gen |-> dev[s].gen])
    /\ usb' = [usb EXCEPT !.cancelRequested = FALSE]
    /\ ctl' = Tail(ctl)
    /\ UNCHANGED <<appVars, bus, client, scanVars, txn, txres, owner, retry>>

process_control_requests ==
    /\ client = "control"
    /\ \/ /\ ctl = <<>>
          /\ client' = "inspect"
          /\ UNCHANGED <<appVars, bus, dev, usb, ctl, scanVars, txVars, owner, retry>>
       \/ ctl # <<>> /\ accept_cancel
       \/ ctl # <<>> /\ defer_request
       \/ ctl # <<>> /\ refuse_request
       \/ ctl # <<>> /\ dispatch_request

inspect_open(s) ==
    /\ dev[s].action = "OPEN"
    /\ \/ /\ dev' = [dev EXCEPT ![s].action = "NONE", ![s].open = TRUE, ![s].busy = TRUE]
          /\ scanq' = Append(scanq, [kind |-> "SCAN", slot |-> s, gen |-> dev[s].gen])
       \/ /\ dev' = [dev EXCEPT ![s].action = "NONE"]
          /\ UNCHANGED scanq
    /\ UNCHANGED <<appVars, bus, usb, ctl, scan, scanres, txVars, owner, retry>>

\* The handle is closed, the detach reported, the conflict latch opened when
\* nothing eligible is left, and the entry cleared.
inspect_close(s) ==
    /\ Closable(s)
    /\ dev' = [dev EXCEPT ![s] = NoDevice]
    /\ bus' = [bus EXCEPT ![s] = "empty"]
    /\ LET left == eligible_accessport_count(dev')
           revision == IF dev[s].accessport THEN usb.revision + 1 ELSE usb.revision
       IN /\ usb' = [usb EXCEPT !.revision = revision,
                                !.expectPolite = @ \/ (dev[s].accessport /\ dev[s].polite),
                                !.latched = @ /\ left # 0]
          /\ IF dev[s].accessport
             THEN handle_usb_event(DeviceEventOf("DETACHED", NoIdentity, left, revision,
                                                 dev[s].polite))
             ELSE UNCHANGED <<appVars, ctl, retry>>
    /\ UNCHANGED <<scanVars, txVars, owner>>

\* The scan over the table, in the order of the addresses; what has no pending
\* action is skipped.
inspect_pending_devices ==
    /\ client = "inspect"
    /\ \/ /\ Pending = {}
          /\ client' = "events"
          /\ UNCHANGED <<appVars, bus, dev, usb, ctl, scanVars, txVars, owner, retry>>
       \/ /\ \E s \in Pending :
                /\ \A t \in Pending : s <= t
                /\ inspect_open(s) \/ inspect_close(s)
          /\ UNCHANGED client

ClientStep ==
    \/ \E s \in Slots : client_event_callback(s)
    \/ collect_scan_results
    \/ process_control_requests
    \/ refusal_published
    \/ inspect_pending_devices

(***************************************************************************)
(* Descriptor task                                                         *)
(***************************************************************************)
ScanDone == [ScanIdle EXCEPT !.pc = "done", !.slot = scan.slot, !.gen = scan.gen]

\* The descriptor task runs while the client task waits.
ScanRuns == ClientWaits /\ UNCHANGED <<bus, client, txVars, owner>>

scan_receive ==
    /\ scan.pc = "idle" /\ scanq # <<>>
    /\ scan' = [ScanIdle EXCEPT !.pc = "read", !.slot = Head(scanq).slot, !.gen = Head(scanq).gen]
    /\ scanq' = Tail(scanq)
    /\ UNCHANGED <<appVars, dev, usb, ctl, scanres, retry>> /\ ScanRuns

\* log_open_device up to the verdict on the active configuration.  A device whose
\* descriptors cannot be read, or of another make, ends here.  soft is the
\* classification: only inside the window after a polite close.
scan_read(verdict, soft) ==
    /\ scan.pc = "read"
    /\ soft => usb.expectPolite
    /\ IF verdict = "other"
       THEN scan' = ScanDone /\ UNCHANGED <<dev, usb>>
       ELSE LET match == verdict = "match"
            IN /\ dev' = [dev EXCEPT ![scan.slot].accessport = TRUE,
                                     ![scan.slot].eligible = match]
               /\ usb' = [usb EXCEPT !.expectPolite = FALSE,
                                     !.revision = IF match THEN @ + 1 ELSE @]
               /\ scan' = [scan EXCEPT !.soft = soft,
                                       !.revision = IF match THEN usb.revision + 1 ELSE 0,
                                       !.pc = IF match THEN "count" ELSE "attach_unmatched"]
    /\ UNCHANGED <<appVars, ctl, retry, scanq, scanres>> /\ ScanRuns

scan_count ==
    /\ scan.pc = "count"
    /\ scan' = [scan EXCEPT !.pc =
                  IF eligible_accessport_count(dev) >= 2 \/ usb.latched THEN "multiple" ELSE "attach"]
    /\ UNCHANGED <<appVars, dev, usb, ctl, retry, scanq, scanres>> /\ ScanRuns

\* publish_multiple_accessports: the count is taken again, then the latch goes up.
publish_multiple_accessports ==
    /\ scan.pc = "multiple"
    /\ LET count == eligible_accessport_count(dev)
       IN IF count < 2
          THEN scan' = ScanDone /\ UNCHANGED usb
          ELSE /\ usb' = [usb EXCEPT !.latched = TRUE]
               /\ scan' = [scan EXCEPT !.pc = "cancel", !.count = count]
    /\ UNCHANGED <<appVars, dev, ctl, retry, scanq, scanres>> /\ ScanRuns

\* A plausible slip: the conflict is latched, but the session in flight is not
\* told.
raise_cancel_silently ==
    /\ scan.pc = "cancel"
    /\ scan' = [scan EXCEPT !.pc = "report_multiple", !.revision = usb.revision]
    /\ UNCHANGED <<appVars, dev, usb, ctl, retry, scanq, scanres>> /\ ScanRuns

\* The transaction task, which has the same priority, may run before the flag it
\* polls goes up as well; the application hears of the conflict after that.
raise_cancel ==
    /\ scan.pc = "cancel"
    /\ usb' = [usb EXCEPT !.cancelRequested = TRUE]
    /\ scan' = [scan EXCEPT !.pc = "report_multiple", !.revision = usb.revision]
    /\ UNCHANGED <<appVars, dev, ctl, retry, scanq, scanres>> /\ ScanRuns

\* The event each reporting step publishes, and the step that follows.
ScanEvent ==
    CASE scan.pc = "report_multiple" ->
            DeviceEventOf("MULTIPLE_DETECTED", NoIdentity, scan.count, scan.revision, FALSE)
      [] scan.pc \in {"attach", "attach_unmatched"} ->
            DeviceEventOf("ATTACHED", scan.gen, 1, scan.revision, scan.soft)
      [] scan.pc = "accept" ->
            DeviceEventOf("ACCEPTED", scan.gen, 1, scan.revision, scan.soft)
      [] scan.pc = "fail" -> DeviceEventOf("FAILURE", NoIdentity, 0, 0, FALSE)

scan_publish ==
    /\ scan.pc \in {"report_multiple", "attach", "accept", "attach_unmatched", "fail"}
    /\ IF scan.pc = "attach_unmatched" /\ (eligible_accessport_count(dev) # 0 \/ usb.latched)
       THEN scan' = ScanDone /\ UNCHANGED <<appVars, ctl, retry>>
       ELSE /\ handle_usb_event(ScanEvent)
            /\ scan' = CASE scan.pc = "attach" -> [scan EXCEPT !.pc = "accept"]
                         [] scan.pc = "attach_unmatched" -> [scan EXCEPT !.pc = "fail"]
                         [] OTHER -> ScanDone
    /\ UNCHANGED <<dev, usb, scanq, scanres>> /\ ScanRuns

scan_result ==
    /\ scan.pc = "done"
    /\ scanres' = Append(scanres, [kind |-> "SCAN", slot |-> scan.slot, gen |-> scan.gen])
    /\ scan' = ScanIdle
    /\ UNCHANGED <<appVars, dev, usb, ctl, retry, scanq>> /\ ScanRuns

DescriptorStep ==
    \/ scan_receive
    \/ \E verdict \in {"other", "unmatched", "match"}, soft \in BOOLEAN : scan_read(verdict, soft)
    \/ scan_count
    \/ publish_multiple_accessports
    \/ raise_cancel
    \/ scan_publish
    \/ scan_result

(***************************************************************************)
(* Transaction task                                                        *)
(***************************************************************************)
\* So does the transaction task.
TxnRuns == ClientWaits /\ UNCHANGED <<bus, client, scanVars, owner>>

StaleWork(w) ==
    \/ ~dev[w.slot].open
    \/ dev[w.slot].gen # w.gen
    \/ ~dev[w.slot].eligible
    \/ ~Single

\* A plausible slip: refused work is dropped without a result.
txn_receive_drops_stale ==
    /\ txn.pc = "idle" /\ txq # <<>>
    /\ LET w == Head(txq)
           taken == [TxnIdle EXCEPT !.kind = w.kind, !.slot = w.slot, !.gen = w.gen]
       IN IF StaleWork(w)
          THEN txn' = TxnIdle
          ELSE txn' = [taken EXCEPT !.pc = "start"]
    /\ txq' = Tail(txq)
    /\ UNCHANGED <<appVars, ctl, retry, dev, usb, txres>> /\ TxnRuns

\* Work that is stale, or caught by a conflict, is refused; a sync hears of it.
txn_receive ==
    /\ txn.pc = "idle" /\ txq # <<>>
    /\ LET w == Head(txq)
           taken == [TxnIdle EXCEPT !.kind = w.kind, !.slot = w.slot, !.gen = w.gen]
       IN IF StaleWork(w)
          THEN /\ txn' = [taken EXCEPT !.pc = "result"]
               /\ IF w.kind = "IDENTITY" THEN UNCHANGED <<appVars, ctl, retry>>
                  ELSE main_handle_sync_event(SyncEventOf("FAILED", w.kind = "RECOVER"), FALSE)
          ELSE txn' = [taken EXCEPT !.pc = "start"] /\ UNCHANGED <<appVars, ctl, retry>>
    /\ txq' = Tail(txq)
    /\ UNCHANGED <<dev, usb, txres>> /\ TxnRuns

\* The session is over; what it did is known to no one else.
TxnDone == [TxnIdle EXCEPT !.pc = "result", !.kind = txn.kind, !.slot = txn.slot, !.gen = txn.gen]

ReportRuntime == txn.kind # "IDENTITY"
Recovering == txn.kind = "RECOVER"

txn_start ==
    /\ txn.pc = "start"
    /\ IF ReportRuntime THEN main_handle_sync_event(SyncEventOf("STARTED", Recovering), FALSE)
       ELSE UNCHANGED <<appVars, ctl, retry>>
    /\ txn' = [txn EXCEPT !.pc = "claim"]
    /\ UNCHANGED <<dev, usb, txq, txres>> /\ TxnRuns

txn_claim(ok) ==
    /\ txn.pc = "claim"
    /\ IF ok
       THEN /\ handle_usb_event(DeviceEventOf("SESSION_OPENED", NoIdentity, 0, 0, FALSE))
            /\ txn' = [txn EXCEPT !.pc = "check"]
       ELSE /\ IF ReportRuntime
               THEN main_handle_sync_event(SyncEventOf("FAILED", Recovering), FALSE)
               ELSE UNCHANGED <<appVars, ctl, retry>>
            /\ txn' = TxnDone
    /\ UNCHANGED <<dev, usb, txq, txres>> /\ TxnRuns

\* The flag is polled before each exchange with the AccessPort.
txn_check ==
    /\ txn.pc = "check"
    /\ txn' = [txn EXCEPT !.cancelled = usb.cancelRequested,
                          !.pc = IF usb.cancelRequested THEN "cleanup" ELSE "data"]
    /\ UNCHANGED <<appVars, dev, usb, ctl, retry, txq, txres>> /\ TxnRuns

\* One exchange of the identity, listing and download phases: a command or a read
\* of at most one transfer.  It fails, is followed by another or was the last; it
\* may complete a file.  Only a device still there answers, and a recovery session
\* goes from the identity straight to the close.
txn_data(result, moved) ==
    /\ txn.pc = "data"
    /\ result # "failed" => bus[txn.slot] = "present"
    /\ result = "last" => ~Recovering
    /\ moved => txn.kind = "SYNC" /\ result # "failed"
    /\ txn' = [txn EXCEPT !.pc = IF result = "more" THEN "check" ELSE "cleanup",
                          !.passed = result = "last", !.moved = @ \/ moved]
    /\ UNCHANGED <<appVars, dev, usb, ctl, retry, txq, txres>> /\ TxnRuns

\* The last look at the cancel flag, before the polite close.
txn_cleanup ==
    /\ txn.pc = "cleanup"
    /\ txn' = [txn EXCEPT !.pc = "close", !.cancelled = @ \/ usb.cancelRequested]
    /\ UNCHANGED <<appVars, dev, usb, ctl, retry, txq, txres>> /\ TxnRuns

\* send_polite_disconnect and the release of the interface.
txn_close(sent, ack, released) ==
    /\ txn.pc = "close"
    /\ ack => sent /\ bus[txn.slot] = "present"
    /\ dev' = [dev EXCEPT ![txn.slot].polite = sent]
    /\ txn' = [txn EXCEPT !.pc = "closed", !.ack = ack, !.clean = ack /\ released]
    /\ UNCHANGED <<appVars, usb, ctl, retry, txq, txres>> /\ TxnRuns

txn_closed ==
    /\ txn.pc = "closed"
    /\ handle_usb_event(DeviceEventOf("SESSION_CLOSED", NoIdentity, 0, 0, FALSE))
    /\ txn' = [txn EXCEPT !.pc = "report"]
    /\ UNCHANGED <<dev, usb, txq, txres>> /\ TxnRuns

Finished ==
    [kind |-> IF txn.cancelled /\ txn.clean THEN "CANCELLED"
              ELSE IF (txn.passed \/ Recovering) /\ txn.clean THEN "COMPLETED" ELSE "FAILED",
     recovery |-> Recovering, dataDone |-> txn.passed, closeAck |-> txn.ack,
     moved |-> txn.moved]

txn_report(pending) ==
    /\ txn.pc = "report"
    /\ IF ReportRuntime THEN main_handle_sync_event(Finished, pending)
       ELSE UNCHANGED <<appVars, ctl, retry>>
    /\ txn' = TxnDone
    /\ UNCHANGED <<dev, usb, txq, txres>> /\ TxnRuns

txn_result ==
    /\ txn.pc = "result"
    /\ txres' = Append(txres, [kind |-> txn.kind, slot |-> txn.slot, gen |-> txn.gen])
    /\ txn' = TxnIdle
    /\ UNCHANGED <<appVars, dev, usb, ctl, retry, txq>> /\ TxnRuns

TransactionStep ==
    \/ txn_receive
    \/ txn_start
    \/ \E ok \in BOOLEAN : txn_claim(ok)
    \/ txn_check
    \/ \E result \in {"failed", "more", "last"}, moved \in BOOLEAN : txn_data(result, moved)
    \/ txn_cleanup
    \/ \E sent, ack, released \in BOOLEAN : txn_close(sent, ack, released)
    \/ txn_closed
    \/ \E pending \in BOOLEAN : txn_report(pending)
    \/ txn_result

(***************************************************************************)
(* The portal and the retry task                                           *)
(***************************************************************************)

\* revlink_application_request_sync up to the queue, and the assignments that
\* follow it in request_operation and in the application.
owner_request ==
    /\ owner.pc = "idle" /\ owner.calls > 0
    /\ device.state = "AVAILABLE" /\ ~is_active(sync.state) /\ Room
    /\ ctl' = Append(ctl, "SYNC")
    /\ owner' = [pc |-> "requesting", calls |-> owner.calls - 1]
    /\ UNCHANGED <<appVars, bus, dev, usb, client, scanVars, txVars, retry>>

owner_request_recorded ==
    /\ owner.pc = "requesting"
    /\ sync' = Queued(FALSE)
    /\ app' = ManualFlags(app)
    /\ hist' = [hist EXCEPT !.recoveries = 0, !.conflict = FALSE]
    /\ owner' = [owner EXCEPT !.pc = "idle"]
    /\ UNCHANGED <<device, policy, bus, dev, usb, client, ctl, scanVars, txVars, retry>>

\* revlink_sync_coordinator_cancel up to the queue, and its assignment.
owner_cancel ==
    /\ owner.pc = "idle" /\ owner.calls > 0 /\ Cancellable(sync) /\ Room
    /\ ctl' = Append(ctl, "CANCEL")
    /\ owner' = [pc |-> "cancelling", calls |-> owner.calls - 1]
    /\ UNCHANGED <<appVars, bus, dev, usb, client, scanVars, txVars, retry>>

owner_cancel_recorded ==
    /\ owner.pc = "cancelling"
    /\ sync' = Cancelling(sync)
    /\ owner' = [owner EXCEPT !.pc = "idle"]
    /\ UNCHANGED <<device, policy, app, hist, bus, dev, usb, client, ctl, scanVars, txVars, retry>>

\* auto_sync_retry_task after its delay: only the attachment it was scheduled
\* for is retried; if another one wants a retry by now it is scheduled again.
auto_sync_retry_task ==
    /\ retry.pc = "delay"
    /\ retry' = IF device.identity = retry.gen THEN [retry EXCEPT !.pc = "check"]
                ELSE IF auto_sync_retry_needed THEN [retry EXCEPT !.gen = device.identity]
                ELSE NoRetry
    /\ UNCHANGED <<appVars, bus, dev, usb, client, ctl, scanVars, txVars, owner>>

\* revlink_application_retry_auto_sync looks at the conditions,
retry_checks ==
    /\ retry.pc = "check"
    /\ retry' = IF auto_sync_retry_needed THEN [retry EXCEPT !.pc = "request"] ELSE NoRetry
    /\ UNCHANGED <<appVars, bus, dev, usb, client, ctl, scanVars, txVars, owner>>

\* A plausible slip: the retry is not counted.
retry_requests_uncounted ==
    /\ retry.pc = "request"
    /\ app' = [app EXCEPT !.retryEligible = FALSE]
    /\ IF Granted(Room)
       THEN /\ ctl' = Append(ctl, "SYNC")
            /\ hist' = [hist EXCEPT !.autoRuns = @ + 1]
            /\ retry' = [retry EXCEPT !.pc = "record"]
       ELSE retry' = NoRetry /\ UNCHANGED <<ctl, hist>>
    /\ UNCHANGED <<device, sync, policy, bus, dev, usb, client, scanVars, txVars, owner>>

\* then counts the retry and asks the coordinator, which asks the queue,
retry_requests ==
    /\ retry.pc = "request"
    /\ app' = [app EXCEPT !.retryCount = @ + 1, !.retryEligible = FALSE]
    /\ IF Granted(Room)
       THEN /\ ctl' = Append(ctl, "SYNC")
            /\ hist' = [hist EXCEPT !.autoRuns = @ + 1]
            /\ retry' = [retry EXCEPT !.pc = "record"]
       ELSE retry' = NoRetry /\ UNCHANGED <<ctl, hist>>
    /\ UNCHANGED <<device, sync, policy, bus, dev, usb, client, scanVars, txVars, owner>>

\* and records what the queue took.
retry_recorded ==
    /\ retry.pc = "record"
    /\ sync' = Queued(FALSE)
    /\ app' = [app EXCEPT !.attempted = TRUE, !.active = TRUE, !.recovered = FALSE]
    /\ hist' = [hist EXCEPT !.recoveries = 0]
    /\ retry' = NoRetry
    /\ UNCHANGED <<device, policy, bus, dev, usb, client, ctl, scanVars, txVars, owner>>

RetryStep == auto_sync_retry_task \/ retry_checks \/ retry_requests \/ retry_recorded

\* usb_host_task publishes this once, before the client task is created.
monitor_started ==
    /\ device.state = "STOPPED"
    /\ handle_usb_event(DeviceEventOf("MONITOR_STARTED", NoIdentity, 0, 0, FALSE))
    /\ UNCHANGED <<bus, dev, usb, client, scanVars, txVars, owner>>

OwnerStep == owner_request_recorded \/ owner_cancel_recorded

UsbNext ==
    \/ monitor_started
    \/ \E s \in Slots : Plug(s) \/ Unplug(s)
    \/ ClientStep
    \/ DescriptorStep
    \/ TransactionStep
    \/ owner_request
    \/ owner_cancel
    \/ OwnerStep
    \/ RetryStep

(***************************************************************************)
(* Fairness: FreeRTOS runs the ready task of highest priority; the client  *)
(* task waits up to 100 ms for events in every round, so the tasks below   *)
(* it get their turn again and again; every transfer has a deadline.       *)
(* Nothing obliges the bus or the owner to do anything.                    *)
(***************************************************************************)
UsbSpec ==
    /\ UsbInit /\ [][UsbNext]_usbVars
    /\ WF_usbVars(ClientStep) /\ WF_usbVars(OwnerStep)
    /\ SF_usbVars(DescriptorStep) /\ SF_usbVars(TransactionStep)
    /\ WF_usbVars(monitor_started) /\ WF_usbVars(RetryStep)

(***************************************************************************)
(* Properties                                                              *)
(***************************************************************************)
Count(work, s) ==
    Cardinality({i \in DOMAIN work : work[i].slot = s /\ work[i].gen = dev[s].gen})

InHand(task, s) == IF task.pc # "idle" /\ task.slot = s /\ task.gen = dev[s].gen THEN 1 ELSE 0

\* Work queued, in hand or reported for the attachment at an address.
Outstanding(s) ==
    Count(scanq, s) + Count(scanres, s) + Count(txq, s) + Count(txres, s)
        + InHand(scan, s) + InHand(txn, s)

\* scan_in_progress is a lock on the device: while it is set exactly one work
\* item for this attachment is on its way, so one session at a time talks to the
\* device and the lock is always given back (process_control_requests,
\* inspect_pending_devices, collect_scan_results).
BusyAccounted ==
    \A s \in Slots : dev[s].open => Outstanding(s) = (IF dev[s].busy THEN 1 ELSE 0)

\* The device a session was pinned to keeps its handle and generation until the
\* session has reported, although the client task sees the device go meanwhile.
PinnedTarget ==
    txn.pc \notin {"idle", "result"} => dev[txn.slot].open /\ dev[txn.slot].gen = txn.gen

\* A conflict stops the session it finds at the next safe boundary
\* (docs/SINGLE_ACCESSPORT_SAFETY.md): from the moment the cancel flag is up no
\* further exchange begins, whichever phase the session is in, and no later
\* request takes the flag back while the conflict lasts (publish_multiple_accessports,
\* sync_cancelled).
ConflictStopsData ==
    [][txn.pc = "check" /\ txn'.pc = "data" => ~usb.latched \/ scan.pc = "cancel"]_usbVars

\* In the composed system a conflict may fall between the look and the request of
\* the delayed retry.  That retry alone, started before the conflict was seen, is
\* still asked for; the transport refuses it.
DisarmedButForLateRetry ==
    [][hist'.autoRuns > hist.autoRuns => ~hist.conflict \/ retry_requests]_usbVars

\* The handle of a device that has gone is closed, whatever work was queued or
\* running on it.
GoneIsClosed == \A s \in Slots : (bus[s] = "gone") ~> ~dev[s].open

\* A cancellation that has reached the transport while the session is running
\* takes effect: the coordinator leaves the cancelling state
\* (docs/FIRMWARE_ARCHITECTURE.md).
CancelEnds ==
    (/\ sync.state = "CANCELLING" /\ usb.cancelRequested
     /\ txn.kind = "SYNC" /\ txn.pc \notin {"idle", "result"}) ~> (sync.state # "CANCELLING")

\* A conflict latched in the transport is entered by the application, which
\* shows it to the owner (docs/SINGLE_ACCESSPORT_SAFETY.md).
ConflictIsShown == usb.latched ~> (~usb.latched \/ device.state = "CONFLICT")

(***************************************************************************)
(* The inductive invariant of the adapter                                  *)
(***************************************************************************)

\* Attachments are numbered as they are seen on the bus.
AttachmentsNumbered ==
    /\ usb.generation + Arriving <= MaxAttach
    /\ \A s \in Slots :
          /\ dev[s].open \/ dev[s].action = "OPEN" => dev[s].gen \in 1..usb.generation
          /\ dev[s].action = "OPEN" => ~dev[s].open
          /\ bus[s] = "arrived" => ~dev[s].open /\ dev[s].action = "NONE"

\* Work is asked for on an attachment that was numbered before.
Dated(work) == \A i \in DOMAIN work : work[i].gen <= usb.generation

WorkDated ==
    /\ Dated(scanq) /\ Dated(scanres) /\ Dated(txq) /\ Dated(txres)
    /\ scan.pc # "idle" => scan.gen \in 1..usb.generation
    /\ txn.pc # "idle" => txn.gen \in 1..usb.generation

\* BusyAccounted, with nothing on its way for a device that is not open.
WorkAccounted ==
    \A s \in Slots : Outstanding(s) = (IF dev[s].open /\ dev[s].busy THEN 1 ELSE 0)

\* While a conflict is latched the cancel flag is up, or about to go up.
LatchedCancels == usb.latched => usb.cancelRequested \/ scan.pc = "cancel"

AdapterIInv ==
    /\ AdapterTypeOK /\ AttachmentsNumbered /\ WorkDated /\ WorkAccounted /\ PinnedTarget
    /\ LatchedCancels
=============================================================================
