----------------------------- MODULE DeviceWork -----------------------------
(***************************************************************************)
(* Work that changes an AccessPort: writing a staged map and deleting a    *)
(* file.  The owner asks through the portal                                *)
(* (esp32p4/main/revlink_portal.c); the map upload and the file delete     *)
(* services keep the consents and the outcome (revlink_map_upload.c,       *)
(* revlink_file_delete.c); the transport carries the work out on the       *)
(* device that is attached when its turn comes                             *)
(* (components/accessport_usb/revlink_accessport_usb.c); the composition   *)
(* root applies a staged map by itself after a clean sync                  *)
(* (revlink_main.c).                                                       *)
(*                                                                         *)
(* One file is followed: the path the staged map is destined for, which is *)
(* also the path the owner deletes.  `holds' is the truth about it on each *)
(* AccessPort, `cache' the row of each dataset of the card.  The port      *)
(* takes one device at a time: conflicts, stale handles and the tasks      *)
(* behind an enumeration are the subject of UsbSync, the files behind a    *)
(* staged payload that of StagedMap, the catalogue behind a row that of    *)
(* Ledger.                                                                 *)
(***************************************************************************)
EXTENDS Naturals, Sequences, FiniteSets

CONSTANTS
    Serials,        \* the AccessPorts the owner has
    None,           \* no AccessPort
    Settings,       \* the consents saved earlier: "write", "delete", "auto"
    QueueDepth,     \* REVLINK_USB_SCAN_QUEUE_DEPTH: depth of control_requests
    MaxPlugs,       \* bound on the times a device appears on the bus
    MaxCalls        \* bound on the owner's calls

ASSUME SerialAssumption == Serials # {} /\ None \notin Serials
ASSUME SettingsAssumption == Settings \subseteq {"write", "delete", "auto"}
ASSUME QueueAssumption == QueueDepth \in Nat \ {0}
ASSUME CallBounds == MaxPlugs \in Nat /\ MaxCalls \in Nat

VARIABLES
    plugged,    \* external: the AccessPort in the port
    holds,      \* external: the AccessPorts that hold the file
    slot,       \* the open device of enumeration_client_t
    polite,     \* expect_polite_accessport_reenumeration
    latch,      \* write_recovery_required
    cancel,     \* sync_cancel_requested
    ctl, held,  \* control_requests, and the request taken from it to be deferred
    txn,        \* the work of the transaction task
    up, del,    \* the map upload and the file delete service
    sync,       \* the sync coordinator
    connected,  \* connected_accessport_identity
    autoDue,    \* auto_apply_after_sync
    auto,       \* revlink_map_upload_auto_apply in progress
    displayed,  \* the dataset the portal shows
    cache,      \* the row of the file in each dataset
    left,       \* arrivals and owner calls left
    hist        \* history: what the properties speak of

busVars == <<plugged, holds>>
portVars == <<slot, polite, latch>>
queueVars == <<ctl, held, cancel>>
rootVars == <<sync, connected, autoDue, auto>>
cardVars == <<displayed, cache>>
vars == <<busVars, portVars, queueVars, txn, up, del, rootVars, cardVars, left, hist>>

Devices == Serials \union {None}
UploadStates == {"IDLE", "RUNNING", "VERIFIED", "FAILED"}
DeleteStates == {"IDLE", "RUNNING", "REMOVED", "FAILED"}
WorkKinds == {"SYNC", "IDENTITY", "UPLOAD", "DELETE"}
Requests == [kind : WorkKinds \union {"CANCEL"}, target : Devices]
NoRequest == [kind |-> "CANCEL", target |-> None]

NoSlot == [dev |-> None, busy |-> FALSE, scan |-> FALSE, closing |-> FALSE, polite |-> FALSE]
TxnIdle == [pc |-> "idle", kind |-> "SYNC", target |-> None, begun |-> FALSE, ok |-> FALSE,
            cut |-> FALSE, late |-> FALSE]
TxnPcs == {"idle", "start", "identity", "send", "write", "readback", "data", "close",
           "report", "mark", "forget"}

TypeOK ==
    /\ plugged \in Devices /\ holds \subseteq Serials
    /\ slot \in [dev : Devices, busy : BOOLEAN, scan : BOOLEAN, closing : BOOLEAN,
                 polite : BOOLEAN]
    /\ polite \in BOOLEAN /\ latch \in BOOLEAN /\ cancel \in BOOLEAN
    /\ ctl \in Seq(Requests) /\ Len(ctl) <= QueueDepth /\ held \in Requests
    /\ txn \in [pc : TxnPcs, kind : WorkKinds, target : Devices, begun : BOOLEAN,
                ok : BOOLEAN, cut : BOOLEAN, late : BOOLEAN]
    /\ up \in [consent : BOOLEAN, auto : BOOLEAN, attempted : BOOLEAN, staged : BOOLEAN,
               pin : Devices, state : UploadStates, recovery : BOOLEAN]
    /\ del \in [consent : BOOLEAN, state : DeleteStates, recovery : BOOLEAN, forget : BOOLEAN]
    /\ sync \in {"idle", "busy", "cancelling"}
    /\ connected \in Devices /\ autoDue \in BOOLEAN
    /\ auto \in [pc : {"none", "eval", "request"}, dev : Devices]
    /\ displayed \in Devices /\ cache \in [Serials -> {"none", "present", "absent"}]
    /\ left \in [plugs : 0..MaxPlugs, calls : 0..MaxCalls]
    /\ hist \in [tries : Nat, lost : BOOLEAN, switched : BOOLEAN, doubt : BOOLEAN,
                overrun : BOOLEAN, lapsed : BOOLEAN]

\* The services start with the consents that the settings hold and with the pinned
\* payload that the card may hold, staged while its dataset was on display; nothing
\* is attached. Earlier syncs have listed the file wherever a device holds it.
Init ==
    /\ plugged = None /\ holds \in SUBSET Serials
    /\ slot = NoSlot /\ polite = FALSE /\ latch = FALSE /\ cancel = FALSE
    /\ ctl = <<>> /\ held = NoRequest /\ txn = TxnIdle
    /\ \E pin \in Devices :
         up = [consent |-> "write" \in Settings, auto |-> "auto" \in Settings,
               attempted |-> FALSE, staged |-> pin # None, pin |-> pin, state |-> "IDLE",
               recovery |-> FALSE]
    /\ del = [consent |-> "delete" \in Settings, state |-> "IDLE", recovery |-> FALSE,
              forget |-> FALSE]
    /\ sync = "idle" /\ connected = None /\ autoDue = FALSE
    /\ auto = [pc |-> "none", dev |-> None]
    /\ displayed = up.pin
    /\ cache = [d \in Serials |-> IF d \in holds THEN "present" ELSE "none"]
    /\ left = [plugs |-> MaxPlugs, calls |-> MaxCalls]
    /\ hist = [tries |-> 0, lost |-> FALSE, switched |-> FALSE, doubt |-> FALSE,
               overrun |-> FALSE, lapsed |-> FALSE]

(***************************************************************************)
(* Events that several steps publish                                       *)
(***************************************************************************)

\* observe_upload: a verified payload is discarded, a failed one is kept.
observe_upload(state, recovery) ==
    up' = [up EXCEPT !.state = state, !.recovery = recovery,
                     !.staged = @ /\ state # "VERIFIED",
                     !.pin = IF state = "VERIFIED" THEN None ELSE @]

\* observe_delete, without the card. A failure drops the wish to forget the cached copy.
observe_delete(state, recovery) ==
    del' = [del EXCEPT !.state = state, !.recovery = recovery,
                       !.forget = @ /\ state # "FAILED"]

\* handle_sync_event and the coordinator behind it: a cancelling coordinator
\* refuses a completion.
SyncAccepts(kind) == sync = "busy" \/ (sync = "cancelling" /\ kind # "COMPLETED")
handle_sync_event(kind) ==
    /\ sync' = IF SyncAccepts(kind) THEN "idle" ELSE sync
    /\ autoDue' = (autoDue \/ (kind = "COMPLETED" /\ SyncAccepts(kind)))

\* handle_usb_event at a genuine boundary: the identity is forgotten and a new
\* automatic attempt is granted.
notify_attach == up' = [up EXCEPT !.attempted = FALSE]

\* log_device_state: a return to AVAILABLE looks for a map to apply.
Returns == auto' = [auto EXCEPT !.pc = IF autoDue THEN "eval" ELSE "none"]

Room == Len(ctl) < QueueDepth
Eligible == slot.dev # None /\ ~slot.closing
SessionActive == txn.pc \in {"identity", "send", "write", "readback", "data", "close"}
Available == Eligible /\ ~slot.scan /\ ~SessionActive

(***************************************************************************)
(* The port, and the client and descriptor tasks                           *)
(***************************************************************************)

Plug(d) ==
    /\ plugged = None /\ left.plugs > 0
    /\ plugged' = d /\ left' = [left EXCEPT !.plugs = @ - 1]
    /\ UNCHANGED <<holds, portVars, queueVars, txn, up, del, rootVars, cardVars, hist>>

\* The owner pulls the cable, or the device drops off the bus by itself.
Unplug ==
    /\ plugged # None
    /\ plugged' = None
    /\ slot' = [slot EXCEPT !.closing = slot.dev # None]
    /\ hist' = [hist EXCEPT !.tries = 0, !.doubt = FALSE, !.overrun = FALSE, !.lapsed = FALSE]
    /\ UNCHANGED <<holds, polite, latch, queueVars, txn, up, del, rootVars, cardVars, left>>

\* After a polite close the device leaves the bus and comes back by itself.
Reenumerate ==
    /\ slot.polite /\ ~slot.closing /\ plugged = slot.dev /\ left.plugs > 0
    /\ slot' = [slot EXCEPT !.closing = TRUE]
    /\ left' = [left EXCEPT !.plugs = @ - 1]
    /\ UNCHANGED <<busVars, polite, latch, queueVars, txn, up, del, rootVars, cardVars, hist>>

\* A device that comes back after the window is taken for a new attachment,
\* although nobody has unplugged it.
PoliteWindowPasses ==
    /\ polite /\ slot.dev = None
    /\ polite' = FALSE
    /\ hist' = [hist EXCEPT !.lapsed = @ \/ plugged # None]
    /\ UNCHANGED <<busVars, slot, latch, queueVars, txn, up, del, rootVars, cardVars, left>>

\* log_open_device: ATTACHED and ACCEPTED. A genuine attachment starts a sync, if
\* the policy says so, or asks for the identity; every return to AVAILABLE may
\* lead to the automatic write.
log_open_device(autoSync) ==
    LET soft == polite
        room == ~soft /\ Room
        syncs == room /\ autoSync /\ sync = "idle"
        asks == room /\ ~syncs /\ sync = "idle"
    IN /\ plugged # None /\ slot.dev = None
       /\ slot' = [NoSlot EXCEPT !.dev = plugged, !.busy = TRUE, !.scan = TRUE]
       /\ polite' = FALSE
       /\ IF soft THEN UNCHANGED <<up, connected>> ELSE notify_attach /\ connected' = None
       /\ ctl' = IF syncs THEN Append(ctl, [kind |-> "SYNC", target |-> None])
                 ELSE IF asks THEN Append(ctl, [kind |-> "IDENTITY", target |-> None])
                 ELSE ctl
       /\ sync' = IF syncs THEN "busy" ELSE sync
       /\ Returns
       /\ UNCHANGED <<busVars, latch, held, cancel, txn, del, autoDue, cardVars, left, hist>>

\* The scan's result is collected once the observers have returned.
collect_scan_results ==
    /\ slot.scan /\ auto.pc = "none"
    /\ slot' = [slot EXCEPT !.scan = FALSE, !.busy = FALSE]
    /\ UNCHANGED <<busVars, polite, latch, queueVars, txn, up, del, rootVars, cardVars, left,
                   hist>>

\* inspect_pending_devices: DETACHED. Only a detach that was not announced, with
\* nothing left, clears the recovery latch.
inspect_close ==
    /\ slot.closing /\ ~slot.busy
    /\ IF slot.polite
       THEN polite' = TRUE /\ UNCHANGED <<latch, up, connected>>
       ELSE latch' = FALSE /\ notify_attach /\ connected' = None /\ UNCHANGED polite
    /\ slot' = NoSlot
    /\ UNCHANGED <<busVars, queueVars, txn, del, sync, autoDue, auto, cardVars, left, hist>>

(***************************************************************************)
(* process_control_requests: the client task takes the head of the queue   *)
(***************************************************************************)

\* Every refusal is published to whoever asked; an identity request has nobody.
refuse_work(r) ==
    /\ IF r.kind = "UPLOAD" THEN observe_upload("FAILED", latch) ELSE UNCHANGED up
    /\ IF r.kind = "DELETE" THEN observe_delete("FAILED", latch) ELSE UNCHANGED del
    /\ IF r.kind = "SYNC" THEN handle_sync_event("FAILED") ELSE UNCHANGED <<sync, autoDue>>

accept_cancel ==
    /\ held = NoRequest /\ ctl # <<>> /\ Head(ctl).kind = "CANCEL"
    /\ cancel' = TRUE /\ ctl' = Tail(ctl)
    /\ UNCHANGED <<busVars, portVars, held, txn, up, del, rootVars, cardVars, left, hist>>

refuse_request ==
    /\ held = NoRequest /\ ctl # <<>> /\ Head(ctl).kind # "CANCEL" /\ ~Eligible
    /\ refuse_work(Head(ctl))
    /\ ctl' = Tail(ctl)
    /\ UNCHANGED <<busVars, portVars, held, cancel, txn, connected, auto, cardVars, left, hist>>

\* A request that finds the device busy goes to the end of the queue; an identity
\* request is dropped.
defer_request ==
    /\ held = NoRequest /\ ctl # <<>> /\ Head(ctl).kind # "CANCEL" /\ Eligible /\ slot.busy
    /\ held' = IF Head(ctl).kind = "IDENTITY" THEN NoRequest ELSE Head(ctl)
    /\ ctl' = Tail(ctl)
    /\ UNCHANGED <<busVars, portVars, cancel, txn, up, del, rootVars, cardVars, left, hist>>

\* A plausible slip: a write that finds the queue full is dropped.
requeue_request_drop ==
    /\ held # NoRequest /\ held' = NoRequest
    /\ IF Room
       THEN ctl' = Append(ctl, held) /\ UNCHANGED <<sync, autoDue, hist>>
       ELSE /\ handle_sync_event("FAILED")
            /\ hist' = [hist EXCEPT !.lost = @ \/ held.kind = "DELETE"]
            /\ UNCHANGED ctl
    /\ UNCHANGED <<busVars, portVars, cancel, txn, up, del, connected, auto, cardVars, left>>

\* If someone has filled the queue meanwhile, the request fails; a delete is
\* answered as if it were a sync.
requeue_request ==
    /\ held # NoRequest /\ held' = NoRequest
    /\ IF Room
       THEN ctl' = Append(ctl, held) /\ UNCHANGED <<up, sync, autoDue, hist>>
       ELSE /\ IF held.kind = "UPLOAD"
               THEN observe_upload("FAILED", latch) /\ UNCHANGED <<sync, autoDue>>
               ELSE handle_sync_event("FAILED") /\ UNCHANGED up
            /\ hist' = [hist EXCEPT !.lost = @ \/ held.kind = "DELETE"]
            /\ UNCHANGED ctl
    /\ UNCHANGED <<busVars, portVars, cancel, txn, del, connected, auto, cardVars, left>>

\* Work is handed to the transaction task; only read-only work lowers the
\* cancel flag.
dispatch_request ==
    /\ held = NoRequest /\ ctl # <<>> /\ Head(ctl).kind # "CANCEL" /\ Eligible /\ ~slot.busy
    /\ LET r == Head(ctl)
           readOnly == r.kind \in {"SYNC", "IDENTITY"}
       IN /\ cancel' = (cancel /\ ~readOnly)
          /\ txn' = [TxnIdle EXCEPT !.pc = "start", !.kind = r.kind, !.target = r.target,
                                    !.late = cancel']
    /\ slot' = [slot EXCEPT !.busy = TRUE]
    /\ ctl' = Tail(ctl)
    /\ UNCHANGED <<busVars, polite, latch, held, up, del, rootVars, cardVars, left, hist>>

(***************************************************************************)
(* The transaction task                                                    *)
(***************************************************************************)

Answers == plugged # None /\ plugged = slot.dev /\ ~slot.closing

\* Exchanges that look at the cancel flag before each step, and one that does not.
read_true_device_identity == Answers /\ ~cancel
download_file_entry == Answers /\ ~cancel
stream_upload_chunk == Answers

\* What the listings say of the file.
map_destination_absent == slot.dev \notin holds
directory_entry_present == slot.dev \in holds

Goto(pc) == txn' = [txn EXCEPT !.pc = pc]
sessionVars == <<polite, latch, queueVars, del, sync, autoDue, auto, left>>

Changes(kind) == kind \in {"UPLOAD", "DELETE"}

\* polite_disconnect_sent is that of the last session, whatever came before.
Announces(sent, doubt) ==
    /\ slot' = [slot EXCEPT !.polite = sent]
    /\ hist' = [hist EXCEPT !.doubt = @ \/ doubt,
                            !.overrun = @ \/ (slot.polite /\ ~sent
                                                /\ (up.attempted \/ hist.doubt))]

\* The client task collects the result.
txn_result == txn' = TxnIdle /\ slot' = [slot EXCEPT !.busy = FALSE]

\* A device that has begun to leave is refused.
txn_refuse ==
    /\ txn.pc = "start" /\ ~Eligible
    /\ refuse_work(txn) /\ txn_result
    /\ UNCHANGED <<busVars, polite, latch, queueVars, connected, auto, cardVars, left, hist>>

\* A plausible slip: the recovery latch is looked at only when the work is requested.
txn_start_unlatched ==
    /\ txn.pc = "start" /\ Eligible
    /\ IF txn.kind = "UPLOAD" THEN observe_upload("RUNNING", FALSE) ELSE UNCHANGED up
    /\ IF txn.kind = "DELETE" THEN observe_delete("RUNNING", FALSE) ELSE UNCHANGED del
    /\ Answers /\ (txn.kind = "UPLOAD" => up.consent /\ up.staged)
    /\ Goto("identity")
    /\ UNCHANGED <<busVars, portVars, queueVars, rootVars, cardVars, left, hist>>

\* run_map_upload and run_file_delete announce themselves and look at the latch;
\* the upload opens the staged payload. Then the interface is claimed. Either that
\* fails leaves the device without a word, and withdraws what an earlier session
\* announced.
txn_start ==
    /\ txn.pc = "start" /\ Eligible
    /\ IF txn.kind = "UPLOAD" THEN observe_upload("RUNNING", FALSE) ELSE UNCHANGED up
    /\ IF txn.kind = "DELETE" THEN observe_delete("RUNNING", FALSE) ELSE UNCHANGED del
    /\ \/ Goto("report") /\ Announces(slot.polite /\ ~Changes(txn.kind), FALSE)
       \/ /\ Answers /\ (Changes(txn.kind) => ~latch)
          /\ (txn.kind = "UPLOAD" => up.consent /\ up.staged)
          /\ Goto("identity") /\ UNCHANGED <<slot, hist>>
    /\ UNCHANGED <<busVars, polite, latch, queueVars, rootVars, cardVars, left>>

\* A plausible slip: the identity is read without looking at the cancel flag.
txn_identity_uncancelled ==
    /\ txn.pc = "identity" /\ Answers
    /\ txn.kind \in {"UPLOAD", "DELETE"} => slot.dev = txn.target
    /\ connected' = IF txn.kind \in {"SYNC", "IDENTITY"} THEN slot.dev ELSE connected
    /\ displayed' = IF txn.kind = "DELETE" THEN displayed ELSE slot.dev
    /\ Goto(CASE txn.kind = "SYNC" -> "data" [] txn.kind = "IDENTITY" -> "close"
              [] OTHER -> "send")
    /\ UNCHANGED <<busVars, slot, up, cache, sessionVars, hist>>

\* The identity is read, and the caller acts on the answer. A sync
\* and an identity probe publish it; all but a delete select its dataset.
txn_identity ==
    /\ txn.pc = "identity"
    /\ \/ /\ txn' = [txn EXCEPT !.pc = "close", !.cut = cancel]
          /\ UNCHANGED <<connected, displayed>>
       \/ /\ read_true_device_identity
          /\ Changes(txn.kind) => slot.dev = txn.target
          /\ connected' = IF txn.kind \in {"SYNC", "IDENTITY"} THEN slot.dev ELSE connected
          /\ displayed' = IF txn.kind = "DELETE" THEN displayed ELSE slot.dev
          /\ CASE txn.kind = "SYNC" -> Goto("data")
               [] txn.kind = "IDENTITY" -> txn' = [txn EXCEPT !.pc = "close", !.ok = TRUE]
               [] OTHER -> Goto("send")
    /\ hist' = [hist EXCEPT !.switched = @ \/ (del.state = "RUNNING" /\ displayed' # displayed)]
    /\ UNCHANGED <<busVars, slot, up, cache, sessionVars>>

\* The destination must not be listed. A write has begun once the device is ready
\* for it.
upload_send ==
    /\ txn.pc = "send" /\ txn.kind = "UPLOAD"
    /\ \/ Goto("close")
       \/ Answers /\ map_destination_absent /\ txn' = [txn EXCEPT !.pc = "write", !.begun = TRUE]
    /\ UNCHANGED <<busVars, slot, up, connected, cardVars, sessionVars, hist>>

\* The target must be listed. A delete has begun once it is sent, whether or not
\* the device takes it or answers; it is done when a second listing lacks it.
delete_send ==
    /\ txn.pc = "send" /\ txn.kind = "DELETE"
    /\ \/ Goto("close") /\ UNCHANGED holds
       \/ /\ Answers /\ directory_entry_present
          /\ holds' \in {holds, holds \ {slot.dev}}
          /\ \E ok \in {FALSE, slot.dev \notin holds'} :
                txn' = [txn EXCEPT !.pc = "close", !.begun = TRUE, !.ok = ok]
    /\ UNCHANGED <<plugged, slot, up, connected, cardVars, sessionVars, hist>>

\* The chunk goes out and the device says it is complete.
upload_write ==
    /\ txn.pc = "write"
    /\ \/ /\ Goto("close")
          /\ holds' \in IF Answers THEN {holds, holds \union {slot.dev}} ELSE {holds}
       \/ stream_upload_chunk /\ Goto("readback") /\ holds' = holds \union {slot.dev}
    /\ UNCHANGED <<plugged, slot, up, connected, cardVars, sessionVars, hist>>

\* The file is read back into the cache and compared with the payload.
upload_readback ==
    /\ txn.pc = "readback"
    /\ \/ txn' = [txn EXCEPT !.pc = "close", !.cut = cancel] /\ UNCHANGED cache
       \/ /\ download_file_entry
          /\ txn' = [txn EXCEPT !.pc = "close", !.ok = TRUE]
          /\ cache' = [cache EXCEPT ![slot.dev] = "present"]
    /\ UNCHANGED <<busVars, slot, up, connected, displayed, sessionVars, hist>>

\* A read-only sync lists the file and keeps the rows of its dataset true.
sync_data ==
    /\ txn.pc = "data"
    /\ \/ Goto("close") /\ UNCHANGED cache
       \/ /\ Answers /\ ~cancel
          /\ txn' = [txn EXCEPT !.pc = "close", !.ok = TRUE]
          /\ cache' = [cache EXCEPT ![slot.dev] =
                         IF slot.dev \in holds THEN "present"
                         ELSE IF @ = "present" THEN "absent" ELSE @]
    /\ UNCHANGED <<busVars, slot, up, connected, displayed, sessionVars, hist>>

\* cleanup: an interrupted change takes the recovery latch; the polite close may
\* not get out, and the interface may not be released.
txn_close ==
    /\ txn.pc = "close"
    /\ latch' = (latch \/ (txn.begun /\ ~txn.ok))
    /\ \E sent \in BOOLEAN, released \in BOOLEAN :
        /\ sent => Answers
        /\ Announces(sent, txn.begun /\ ~txn.ok /\ Answers)
        /\ txn' = [txn EXCEPT !.pc = "report",
                     !.cut = @ \/ (txn.kind = "SYNC" /\ cancel),
                     !.ok = @ /\ released /\ (txn.kind = "SYNC" => sent)]
    /\ IF Eligible THEN Returns ELSE UNCHANGED auto
    /\ UNCHANGED <<busVars, polite, queueVars, up, del, sync, connected, autoDue, cardVars,
                   left>>

\* The outcome is published.
txn_report ==
    /\ txn.pc = "report" /\ auto.pc = "none"
    /\ IF txn.kind = "UPLOAD"
       THEN observe_upload(IF txn.ok THEN "VERIFIED" ELSE "FAILED", latch)
       ELSE UNCHANGED up
    /\ IF txn.kind = "DELETE"
       THEN observe_delete(IF txn.ok THEN "REMOVED" ELSE "FAILED", latch)
       ELSE UNCHANGED del
    /\ IF txn.kind = "SYNC"
       THEN handle_sync_event(IF txn.cut THEN "CANCELLED" ELSE IF txn.ok THEN "COMPLETED"
                              ELSE "FAILED")
       ELSE UNCHANGED <<sync, autoDue>>
    /\ IF txn.kind = "DELETE" /\ txn.ok THEN Goto("mark") /\ UNCHANGED slot ELSE txn_result
    /\ UNCHANGED <<busVars, polite, latch, queueVars, connected, auto, cardVars, left, hist>>

\* The portal knows that the file is gone, and the observer still has to record it.
Recording == txn.pc \in {"mark", "forget"}

\* The row of the dataset on display, if there is one, or nothing if the card fails.
Recorded(row) ==
    cache' \in {cache} \union IF displayed # None /\ cache[displayed] # "none"
                              THEN {[cache EXCEPT ![displayed] = row]} ELSE {}

\* revlink_sd_mark_absent
delete_marks ==
    /\ txn.pc = "mark" /\ Goto("forget")
    /\ Recorded("absent")
    /\ UNCHANGED <<busVars, portVars, queueVars, up, del, rootVars, displayed, left, hist>>

\* The wish to forget the cached copy is taken from the service, whoever left it there
\* last, and carried out: revlink_sd_forget_cached.
delete_forgets ==
    /\ txn.pc = "forget" /\ txn_result
    /\ del' = [del EXCEPT !.forget = FALSE]
    /\ IF del.forget THEN Recorded("none") ELSE UNCHANGED cache
    /\ UNCHANGED <<busVars, polite, latch, queueVars, up, rootVars, displayed, left, hist>>

(***************************************************************************)
(* The map upload service                                                  *)
(***************************************************************************)

\* revlink_map_upload_request: the gates, then the queue.
MayUpload == up.consent /\ up.staged /\ ~latch /\ up.state # "RUNNING"
map_upload_request(identity) ==
    /\ up' = IF ~MayUpload THEN up
             ELSE [up EXCEPT !.state = IF Room THEN "RUNNING" ELSE "FAILED"]
    /\ ctl' = IF MayUpload /\ Room
              THEN Append(ctl, [kind |-> "UPLOAD", target |-> identity])
              ELSE ctl

\* A plausible slip: an attempt already made is not looked at.
evaluate_apply_again(attached) ==
    /\ up.consent /\ up.auto /\ up.staged
    /\ up.pin # None /\ attached = up.pin
    /\ ~(up.recovery \/ latch) /\ up.state # "RUNNING"

\* revlink_staged_map_evaluate_apply after a clean sync.
evaluate_apply(attached) ==
    /\ up.consent /\ up.auto /\ up.staged
    /\ up.pin # None /\ attached = up.pin
    /\ ~(up.recovery \/ latch) /\ ~up.attempted /\ up.state # "RUNNING"

\* revlink_map_upload_auto_apply: the attempt is latched, then the lock is given up
\* before the request.
auto_apply ==
    /\ auto.pc = "eval"
    /\ autoDue' = FALSE
    /\ IF connected # None /\ evaluate_apply(connected)
       THEN /\ up' = [up EXCEPT !.attempted = TRUE]
            /\ auto' = [pc |-> "request", dev |-> connected]
            /\ hist' = [hist EXCEPT !.tries = IF Answers THEN @ + 1 ELSE @]
       ELSE auto' = [pc |-> "none", dev |-> None] /\ UNCHANGED <<up, hist>>
    /\ UNCHANGED <<busVars, portVars, queueVars, txn, del, sync, connected, cardVars, left>>

auto_request ==
    /\ auto.pc = "request"
    /\ map_upload_request(auto.dev)
    /\ auto' = [pc |-> "none", dev |-> None]
    /\ UNCHANGED <<busVars, portVars, held, cancel, txn, del, sync, connected, autoDue,
                   cardVars, left, hist>>

(***************************************************************************)
(* The owner, through the portal                                           *)
(***************************************************************************)

Call == left.calls > 0 /\ left' = [left EXCEPT !.calls = @ - 1]

\* A plausible slip: the consent can be withdrawn while a write is running.
map_upload_set_consent_any(enabled) == up' = [up EXCEPT !.consent = enabled]

map_upload_set_consent(enabled) ==
    up.state # "RUNNING" /\ up' = [up EXCEPT !.consent = enabled]

file_delete_set_consent(enabled) ==
    del.state # "RUNNING" /\ del' = [del EXCEPT !.consent = enabled]

map_upload_set_auto_apply(enabled) == up' = [up EXCEPT !.auto = enabled]

\* revlink_runtime_set_*: a failed save of the setting restores the old value,
\* which leaves nothing changed.
set_write_consent(enabled) ==
    map_upload_set_consent(enabled) /\ UNCHANGED del
set_delete_consent(enabled) ==
    file_delete_set_consent(enabled) /\ UNCHANGED up
set_map_auto_apply(enabled) ==
    map_upload_set_auto_apply(enabled) /\ UNCHANGED del

portal_settings(set(_), old) ==
    /\ Call /\ set(~old)
    /\ UNCHANGED <<busVars, portVars, queueVars, txn, rootVars, cardVars, hist>>
portal_write_consent == portal_settings(set_write_consent, up.consent)
portal_delete_consent == portal_settings(set_delete_consent, del.consent)
portal_map_auto_apply == portal_settings(set_map_auto_apply, up.auto)

\* portal_cached_destination_digest: a row of the dataset on display, whatever its
\* presence.
cached_destination == displayed # None /\ cache[displayed] # "none"

\* portal_selected_device_identity: the dataset on display says whom to pin to.
selected_device_identity == displayed

\* portal_map_stage_handler: the payload is pinned before it is taken, and dropped
\* again if the dataset on display lists the destination.
portal_map_stage ==
    /\ up.state # "RUNNING" /\ Call
    /\ up' = [up EXCEPT !.state = "IDLE", !.staged = ~cached_destination,
                        !.pin = IF cached_destination THEN None ELSE selected_device_identity]
    /\ UNCHANGED <<busVars, portVars, queueVars, txn, del, rootVars, cardVars, hist>>

portal_map_discard ==
    /\ up.staged /\ up.state # "RUNNING" /\ Call
    /\ up' = [up EXCEPT !.state = "IDLE", !.staged = FALSE, !.pin = None]
    /\ UNCHANGED <<busVars, portVars, queueVars, txn, del, rootVars, cardVars, hist>>

\* A plausible slip: the dataset on display is not compared with the device.
OnDisplay_any == connected # None /\ displayed # None /\ sync = "idle"

\* Both handlers require an identified device whose dataset is on display, and
\* no sync under way.
OnDisplay == connected # None /\ displayed = connected /\ sync = "idle"

portal_map_apply ==
    /\ OnDisplay /\ MayUpload /\ Call
    /\ map_upload_request(connected)
    /\ UNCHANGED <<busVars, portVars, held, cancel, txn, del, rootVars, cardVars, hist>>

\* revlink_file_delete_request: the gates, then the queue.
MayDelete == del.consent /\ del.state # "RUNNING" /\ ~del.recovery
file_delete_request(identity, both) ==
    LET taken == ~latch /\ Room
    IN /\ MayDelete
       /\ del' = [del EXCEPT !.state = IF taken THEN "RUNNING" ELSE "FAILED", !.forget = both]
       /\ ctl' = IF taken THEN Append(ctl, [kind |-> "DELETE", target |-> identity]) ELSE ctl

\* Scopes "device" and "both"; the scope "sidecar" is an action of Ledger.
portal_file_delete(both) ==
    /\ OnDisplay /\ Call
    /\ file_delete_request(connected, both)
    /\ hist' = [hist EXCEPT !.switched = @ /\ Recording, !.lost = FALSE]
    /\ UNCHANGED <<busVars, portVars, held, cancel, txn, up, rootVars, cardVars>>

\* portal_device_select_handler: another dataset is put on display.
portal_select(d) ==
    /\ sync = "idle" /\ ~SessionActive /\ ~slot.scan /\ displayed # d /\ Call
    /\ displayed' = d
    /\ hist' = [hist EXCEPT !.switched = del.state = "RUNNING" \/ Recording]
    /\ UNCHANGED <<busVars, portVars, queueVars, txn, up, del, rootVars, cache>>

portal_sync ==
    /\ sync = "idle" /\ Available /\ Room /\ Call
    /\ sync' = "busy" /\ ctl' = Append(ctl, [kind |-> "SYNC", target |-> None])
    /\ UNCHANGED <<busVars, portVars, held, cancel, txn, up, del, connected, autoDue, auto,
                   cardVars, hist>>

portal_cancel ==
    /\ sync = "busy" /\ Room /\ Call
    /\ sync' = "cancelling" /\ ctl' = Append(ctl, [kind |-> "CANCEL", target |-> None])
    /\ UNCHANGED <<busVars, portVars, held, cancel, txn, up, del, connected, autoDue, auto,
                   cardVars, hist>>

Bus == (\E d \in Serials : Plug(d)) \/ Unplug \/ Reenumerate \/ PoliteWindowPasses
Client ==
    \/ accept_cancel \/ refuse_request \/ defer_request \/ requeue_request \/ dispatch_request
Ports == collect_scan_results \/ inspect_close
Scan == \E autoSync \in BOOLEAN : log_open_device(autoSync)
Transaction ==
    \/ txn_refuse \/ txn_start \/ txn_identity \/ upload_send \/ delete_send
    \/ upload_write \/ upload_readback \/ sync_data \/ txn_close \/ txn_report
    \/ delete_marks \/ delete_forgets
AutoWrite == auto_apply \/ auto_request
Owner ==
    \/ portal_write_consent \/ portal_delete_consent \/ portal_map_auto_apply
    \/ \E both \in BOOLEAN : portal_file_delete(both)
    \/ portal_map_stage \/ portal_map_discard \/ portal_map_apply
    \/ \E d \in Serials : portal_select(d)
    \/ portal_sync \/ portal_cancel

Next == Bus \/ Client \/ Ports \/ Scan \/ Transaction \/ AutoWrite \/ Owner

Spec == Init /\ [][Next]_vars

(***************************************************************************)
(* Properties                                                              *)
(***************************************************************************)

\* The contents of an AccessPort change only on the device that the owner's
\* request named, with the consent for that operation still given
\* (revlink_map_upload_set_consent, revlink_file_delete_set_consent, the identity
\* check of run_map_upload and run_file_delete), however devices are swapped and
\* consents withdrawn between the request and the transfer.
ChangesAuthorised ==
    [][\A d \in Serials : (d \in holds') # (d \in holds) =>
         /\ d = txn.target
         /\ IF txn.kind = "UPLOAD" THEN up.consent ELSE del.consent]_vars

\* After a change whose outcome is unknown nothing more is changed on that device
\* until it has been unplugged, requests that were queued before the doubt arose
\* included (write_recovery_required). The one exception is a session that ran
\* between a polite close and the detach it announced: see DetachLiftsDoubt.
RecoveryHolds == [][holds' # holds => ~hist.doubt \/ hist.overrun]_vars

\* "One automatic attempt per attach" (auto_apply_attempted): neither a polite
\* re-enumeration nor a second sync grants another. The exceptions are a session
\* that ran between a polite close and its detach, as above, and a device that took
\* longer than the polite window to come back: see OneAttemptPerAttach.
OneAutomaticAttempt == hist.tries <= 1 \/ hist.overrun \/ hist.lapsed

\* A cancel flag left up by an earlier sync may refuse a write, but never lets one
\* begin that could then not be read back (dispatch lowers the flag for read-only
\* work only).
LeftoverCancelHarmless == ~(txn.late /\ txn.begun)

\* What a delete may do to the card: a cached copy is forgotten only when the
\* AccessPort that was named has really lost its own ("Only now", observe_delete),
\* and the rows of another dataset are left alone, unless that was put on display
\* since the delete was asked for, by the owner or by a session with another device
\* (observe_delete writes to the dataset on display: see DeleteOwnRow).
DeleteRecorded ==
    [][\A d \in Serials : cache'[d] # cache[d] =>
         /\ cache'[d] = "none" => txn.kind = "DELETE" /\ txn.target \notin holds
         /\ txn.kind = "DELETE" => d = txn.target \/ hist.switched]_vars

Places(kind) ==
    Cardinality({i \in DOMAIN ctl : ctl[i].kind = kind})
      + (IF held.kind = kind THEN 1 ELSE 0)
      + (IF txn.kind = kind /\ txn.pc # "idle" /\ ~Recording THEN 1 ELSE 0)

\* A map write is owed exactly one answer: while the service says
\* RUNNING its request is in the queue, in the hands of the client task or with
\* the transaction task, in one of these places only, and never outlives the
\* answer, whatever is unplugged, swapped, cancelled or deferred meanwhile.
UploadOwed == Places("UPLOAD") = IF up.state = "RUNNING" THEN 1 ELSE 0

\* So is a delete, except one that was deferred and then found the
\* control queue full: its failure is published as that of a sync, and the
\* service waits for good.
DeleteOwed ==
    Places("DELETE") = IF del.state = "RUNNING" /\ ~hist.lost THEN 1 ELSE 0

\* What the services accepted is answered once: no write or delete is lost or doubled
\* on its way from the portal to the observer and back.
WorkOwed == UploadOwed /\ DeleteOwed

\* docs/MAP_WRITE_ACCEPTANCE.md: the recovery latch is "cleared only by a physical
\* detach rather than polite software re-enumeration".
DetachLiftsDoubt == [][holds' # holds => ~hist.doubt]_vars

\* docs/STAGED_MAPS.md: "one physical attach gets exactly one automatic attempt".
OneAttemptPerAttach == hist.tries <= 1 \/ hist.overrun

\* A delete is recorded in the dataset of the AccessPort it was carried out on.
DeleteOwnRow ==
    [][\A d \in Serials : cache'[d] # cache[d] /\ txn.kind = "DELETE" => d = txn.target]_vars

\* docs/STAGED_MAPS.md: a map pinned to one car is never written to another.
PinnedWrites ==
    [][txn.kind = "UPLOAD" /\ holds' # holds => up.pin \in {None, slot.dev}]_vars

(***************************************************************************)
(* The inductive invariant                                                 *)
(***************************************************************************)

\* A device is busy for its scan or for one transaction, and stays in its slot for it.
SlotHeld ==
    /\ slot.scan => slot.busy /\ txn.pc = "idle"
    /\ txn.pc # "idle" => slot.busy /\ slot.dev # None

\* A transaction reaches a change only on the device that was asked for, with no doubt
\* about an earlier change, and with no cancel flag left up.
TxnInOrder ==
    /\ txn.pc = "data" => txn.kind = "SYNC"
    /\ txn.pc \in {"write", "readback"} => txn.kind = "UPLOAD"
    /\ txn.pc = "send" => Changes(txn.kind)
    /\ txn.pc \in {"send", "write", "readback"} \/ txn.begun => slot.dev = txn.target
    /\ txn.kind = "DELETE" /\ txn.ok => txn.begun /\ txn.target \notin holds
    /\ txn.begun => txn.pc \in {"write", "readback", "close", "report", "mark", "forget"}
    /\ Recording => txn.kind = "DELETE" /\ txn.ok
    /\ txn.pc \in {"identity", "send", "write", "readback"} /\ Changes(txn.kind) => ~latch
    /\ txn.late => cancel /\ ~txn.begun /\ txn.pc \notin {"send", "write", "readback", "idle"}

\* A request that was taken keeps the consent it was taken with.
Consented ==
    /\ up.state = "RUNNING" => up.consent
    /\ del.state = "RUNNING" => del.consent

\* An attempt made on a device is remembered as long as that device may come back by itself.
AttemptKept ==
    /\ hist.tries > 0 => plugged # None
    /\ hist.tries > 0 /\ ~hist.overrun /\ ~hist.lapsed =>
          /\ hist.tries = 1 /\ up.attempted
          /\ slot.closing => slot.polite
          /\ slot.dev = None => polite

\* So is a doubt about what it holds.
DoubtKept ==
    hist.doubt /\ ~hist.overrun => latch /\ (slot.closing => slot.polite)

\* A delete under way names the dataset on display, unless another one was put there.
DeleteAimed ==
    ~hist.switched =>
        /\ \A i \in DOMAIN ctl : ctl[i].kind = "DELETE" => ctl[i].target = displayed
        /\ held.kind = "DELETE" => held.target = displayed
        /\ txn.kind = "DELETE" /\ txn.pc # "idle" => txn.target = displayed

WorkIInv ==
    /\ TypeOK /\ SlotHeld /\ TxnInOrder /\ WorkOwed /\ Consented /\ AttemptKept /\ DoubtKept
    /\ DeleteAimed
=============================================================================
