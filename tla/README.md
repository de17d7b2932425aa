# RevLink Sidecar: formal models

TLA+ models, TLC configurations and TLAPS proofs for the firmware of RevLink
Sidecar (`src/firmware`), the device that keeps the files of a Cobb AccessPort
on a microSD card and serves them over Wi-Fi.

Contents: [inventory](#inventory) · [modules](#modules-and-the-code) ·
[runs](#runs) · [bounds](#bounds) · [fairness](#fairness) ·
[proofs](#proofs) · [findings and departures](#findings-and-departures) · [not modelled](#not-modelled) ·
[plan](#plan)

## Inventory

The firmware is C on ESP-IDF and FreeRTOS. Portable components
(`firmware/components`) keep state machines and parsers without platform calls;
`firmware/esp32p4/main` joins them to USB, Wi-Fi, NVS, the card and HTTP.

| Component | State | Operations | Talks to | What makes it correct |
|---|---|---|---|---|
| device lifecycle (`revlink_core`) | one snapshot: state, identity, eligible count, topology revision, recovery mark | `revlink_device_service_handle` with eight events | application | a stale report changes nothing; a conflict lasts until no eligible device is left |
| sync coordinator (`revlink_sync`) | one snapshot, the policy | request, cancel, five events | transport port, application | one session at a time, every request ends |
| application (`revlink_application`) | automatic-sync, retry, conflict and recovery flags | device event, sync event, request, cancel, retry, policy | both of the above, and the network through an observer | automatic work is bounded per attachment; a conflict disarms it |
| USB adapter (`accessport_usb`) | device table, conflict latch, cancel flag, four queues | client, descriptor and transaction task | USB host, application, card | a session keeps the device it was pinned to; each lock on a device is given back; no data under a conflict |
| composition root (`revlink_main.c`) | retry timer, pending continuation | observers, delayed retry | everything | at most one retry per failed attachment |
| network coordinator (`revlink_network`) | phase, elapsed time, attempts, selected network, transfer lock | fifteen events, each with one action as answer | runtime | bounded attempts; a transfer holds the mode |
| network runtime (`revlink_network_runtime.c`) | coordinator, credentials, timers, RTC reboot guard | runtime task, configure, force hotspot, transfer | radio, NVS, application observer | no phase is left half done; a lasting fault is answered by a reboot |
| microSD ledger (`revlink_sd_storage.c`, `revlink_sync_manifest.c`, `revlink_sync_history.c`) | objects, history, manifest, each with `.tmp` and `.bak` companions; their copies in RAM | download begin/write/commit/abort, forget, presence scan, select and release device | transaction task, portal | a power cut loses nothing that was published; a catalogue names only objects that exist |
| annotations (`revlink_sync_annotations.c`) | notes by digest | load, save, migrate, forget | portal | a note follows its content |
| map upload (`revlink_map_upload.c`, `revlink_staged_map`) | consents, what is staged and for which AccessPort, state of the last write; payload and record files | stage begin/write/commit/abort, restore at start, discard, request, automatic apply, source open/read/close | portal, transaction task, composition root | what is written is one whole upload, at the place and on the device it was meant for, with the owner's consent |
| file delete (`revlink_file_delete.c`) | consent, the path asked for, state of the last delete | consent, request, observer | portal, transaction task, card | an accepted delete gets one answer; a confirmed one is recorded where it belongs |
| soft power (`revlink_soft_power.c`, `revlink_power`) | debounced button, group of presses, shutdown phase | sample, gesture, ordered shutdown | card, syncs, panel | a shutdown sleeps with the card unmounted and the sync stopped, or stays awake |
| storage recovery (`revlink_storage_recovery.c`) | the offer to format and its deadline | begin, double press, tick, finish | soft power, card | a card is formatted only after the confirmation, and never one that can be read |
| Wi-Fi radio (`revlink_wifi_radio.c`) | published state, join flag, event bits, driver mode | start, scan, connect, hotspot, stop, probe, event handler, end of an onboarding | runtime, event loop, driver | a stale event settles nothing; a lost link is noticed |
| onboarding (`revlink_onboarding.c`) | setup status, join tasks, what the panel shows | join, direct, network list, display task | runtime, panel, HTTP worker | every join is answered; the hotspot credentials are shown when, and only when, they are of use |
| portal, backup | HTTP buffers | consents, staging, apply, delete, select, sync; pages | all | its calls find the state they were made for |
| update health, USB control | none: a decision and a parser | | host tests only | |
| status, panel | copies for display | render | all | presentation |
| protocol, catalog, identity, DNS, time | none | parse, encode | USB adapter, portal | lengths and bounds |

The hard behaviour is where tasks meet. The client task of the adapter outranks
the descriptor and the transaction task and preempts them between any two
steps; all three, the portal and the delayed retry call the application, which
has no lock. The network runtime has a mutex, but a radio call holds it for
seconds; the radio's event loop and the task an onboarding leaves behind do not
take it. The card is written by two tasks. Work that changes an AccessPort waits
in a queue while devices are swapped and consents withdrawn. A card may be pulled or the power
cut between any two file operations; an AccessPort comes, goes, re-enumerates
after a polite close, or is joined by a second one.
`PROJECT.json` lists each such place with its line under `hazards`.

## Modules and the code

| Module | Models | Notes |
|---|---|---|
| `DeviceService` | `revlink_device_service.c` | `DeviceAccepts` holds the guards of the switch, `AfterEvent` its assignments. An identity stands for the four fields `identity_matches` compares. |
| `SyncCoordinator` | `revlink_sync_coordinator.c` | `SyncAccepts`/`SyncAfter`; the displayed counters are left out, except whether anything was moved. |
| `Application` | `revlink_application.c` | Extends both. One action per entry point, each with everything it calls; `ok` is the answer of the transport port. `hist` is a history variable: it counts what the properties bound and is read by no action. |
| `UsbSync` | `revlink_accessport_usb.c`, the observers and the retry of `revlink_main.c` | Composes the application with the three tasks, the queues and the bus. |
| `NetworkCoordinator` | `revlink_network_coordinator.c` | One operator per event; `act` is the action it returns. |
| `NetworkRuntime` | `revlink_network_runtime.c` | Composes the coordinator with the calls that drive it. One step per round of `execute_action`. |
| `DurableFile` | | The promise of a catalogue on the card, as an abstract specification. |
| `CatalogueFile` | `load_` and `save_sync_manifest` of `revlink_sd_storage.c` and their twins for the history, the annotations and the last-device pointer | One step per file operation. |
| `Ledger` | the rest of the ledger in `revlink_sd_storage.c`, `revlink_sync_manifest.c`, `revlink_sync_history.c` | Objects, history and manifest of one AccessPort and the two tasks that use them; each catalogue is a durable value, as `CatalogueFile` shows. |
| `DeviceWork` | the write and delete work of `revlink_accessport_usb.c`, `revlink_map_upload.c`, `revlink_file_delete.c`, their portal handlers and the automatic apply of `revlink_main.c` | One file on every AccessPort and in every dataset, one port. |
| `StagedMap` | `revlink_map_upload.c`, `revlink_staged_map.c`, the staging handlers of `revlink_portal.c` | One step per file operation, as in `CatalogueFile`. |
| `WifiRadio` | `revlink_wifi_radio.c` | The calls of the runtime step by step against the event loop. |
| `SoftPower` | `revlink_soft_power.c`, `revlink_power_button.c`, `revlink_storage_recovery.c`, start, stop and format of `revlink_sd_storage.c`, the shutdown gate of `revlink_main.c` | Extends `SyncCoordinator`. |
| `NetworkView` | | What the runtime promises its users, as an abstract specification; `NetworkRuntime` implements it. |
| `Onboarding` | `revlink_onboarding.c`, the setup screens of `revlink_status_oled.c` | Extends `NetworkView`: the handlers and tasks over what the runtime promises. |
| `MC*` | | Instantiations for TLC. |
| `ApplicationProofs`, `UsbProofs`, `NetworkProofs`, `CatalogueProofs`, `LedgerProofs`, `StagedMapProofs`, `DeviceWorkProofs`, `SoftPowerProofs` | | Theorems and their proofs. `UsbProofs` builds on `ApplicationProofs`; `NetworkProofs` is about `NetworkRuntime`, `WifiRadio` and `Onboarding`. |

Definitions named `..._forgets`, `...Always`, `..._unguarded` and the like,
introduced by "A plausible slip", are wrong variants of the definition that
follows them. No specification uses them: each shows that the property named
with it in `PROJECT.json` would catch that slip.

### Application

The handlers run to completion on the task that calls them, so `Application`
takes each as one action and lets the events come in any order with any
revision the adapter could attach. `AdapterEvents` and `AdapterSyncEvents`
restrict the fields to the combinations the adapter publishes.

### UsbSync

`bus` is what is plugged in, `dev` the table of `enumeration_client_t`. The
client task goes through `events` (delivery of bus events), `control` (the
request queue) and `inspect` (open and close); it is `blocked` while publishing a
refused request, because the observer takes the mutex of the network runtime.
The descriptor and transaction tasks have lower priority on the same core and
take steps only while the client waits, but it may run between any two of them. A
pass of the client that would find nothing to do is not a step; the system then
has no next step when every task waits, so the deadlock check is off there.
The portal's request is two steps, the queue and the record in the coordinator,
because the code does them in that order without a lock. So is the conflict: the
descriptor task latches it and raises the cancel flag afterwards, and the session,
which looks at the flag before each exchange, may begin one in between. The delayed
retry (`retry`) looks at the attachment, then at the conditions, then asks, then
records; a conflict may fall between any two of these.

Left out: progress events, the policy switch, the root-port power cycle (an
unplug and a plug, to the bus) and overflow of the work queues. The write and
delete sessions are in `DeviceWork`.

### DeviceWork

`holds` is the truth about the file on each AccessPort, `cache` what each dataset
of the card says of it. A request goes from the portal into `ctl`, may be taken
and deferred (`held`), is dispatched to the transaction task (`txn`) and is
answered through the observer of its service (`up`, `del`). Each exchange of a
session is a step and may fail, the device may leave before any of them, and a
send or a delete that fails has happened or not. `latch` is the recovery latch
that such a doubt sets. The identity is compared in the session itself, which is
why the target travels with the request.

A confirmed delete is published first; then the row of the dataset on display is
marked (`delete_marks`) and, if the owner asked for both copies, forgotten
(`delete_forgets`), and the card may refuse either.

Four things the code does are exceptions in the properties, and history
variables mark them: a session that runs between a polite close and the detach it
announced (`hist.overrun`), a device that takes longer than the polite window to
come back (`hist.lapsed`), a deferred delete that finds the queue full
(`hist.lost`), and a dataset put on display while a delete is on its way
(`hist.switched`). Each is under [departures](#findings-and-departures).

Left out: a second device at the same time and the enumeration tasks (`UsbSync`),
the files of the payload (`StagedMap`), the catalogue behind a row (`Ledger`).

### StagedMap

`files` are the payload, its record and the temporary copies of both; `svc` what
the service believes; `call` the sequence of file operations under its mutex;
`usb` the write the USB side was given. Any operation may fail, removal included,
a reset may come between two, and the payload on the card may decay between two
starts. `source_close` and `observe_upload` give up after a second without the
mutex. `hist.received` and `hist.over` say which uploads arrived whole and which
were verified, discarded or replaced; `hist.unlearnt` which of them the card still
records as pending, because the verification was not heard of or the power was cut
before the record was removed.

### SoftPower

Time is counted in samples of the button. The soft-power task does all its work
in line, so `task` is its program counter from a sample through the gesture to
the format or the shutdown. Beside it, `asked` are the callers that have looked
at the gate, or for an attachment at the policy, and not yet asked the coordinator;
`medium` is the card the owner may change whenever it is not mounted. Closing the
gate, turning the automatic sync off and cancelling are steps of their own. `hist`
follows the line by itself (levels, rows of presses, the time between two rows), so
that the gesture that confirms a format is stated without the code's counters.
After a shutdown that is given up everything goes on as before. Write and delete sessions are not in the model, because the
shutdown neither asks nor waits for them.

### NetworkRuntime

`caller` is who holds `runtime_mutex`. A call hands its event to the coordinator
and keeps the mutex while `act` is executed; `iter` counts the rounds against
`ACTION_LIMIT`. The radio may lose the link, the power may be cut and the
scheduled restart may come at any time. The reboot guard is `RTC_DATA_ATTR`: the
bootloader loads it from the image on every start but a wake from deep sleep, so
`deep_sleep` keeps `guard` and the restart and the power cut clear it; NVS (`saved`)
survives all three. `ImplementsView` is the
refinement: the phase of the coordinator as its users see it, the caller as the
holder, the credential as configured or not.

### WifiRadio

`op` is the call that has the runtime's mutex and where it is, `events` what the
driver has posted and the event loop not yet handled, `bits` and `snap` what both
sides read and write. Which call comes next is left open, except that a client
is probed. `PromptEvents` is the one assumption about the platform: stopping and
starting the driver takes longer than the event loop needs for the events posted
before. `finish` is the task that ends an onboarding without the mutex.
`transferring` is the transfer lock of the network policy, which puts the probes off.

### Onboarding

Every handler, join task and round of the display task that looks at the network
waits for the mutex (`holder`), so each such look is a step. Calls of others are
steps of `NetworkView`. Two join tasks may be alive: a second request is accepted
while the first is at work. The QR code is drawn a step after the state of the
network was looked at.

### CatalogueFile

`current`, `tmp`, `bak` and `legacy` are the files, `pc` the next file operation
of the load or save under way, `ram` the catalogue in memory. Every operation may
fail, and the outcome of an unlink is open, because the code ignores it; a reset
may come before any step. A rename is taken to be atomic and a synced file to
stay: what FAT does when the power fails inside one directory update is below
this model. So is a card that an older firmware used after a newer one, which
would have both `current` and `legacy`.
A load takes a backup it cannot stat for none and the catalogue for empty; the
rename that puts the backup back after a failed publication may fail as well. Either
leaves a value that only the backup holds: `DurableFile` calls it `alone` and says
what may become of it, and that nothing else is lost. A save has a copy to write or
the catalogue in memory, edited in place (`inplace`), which a failed save leaves
changed.

### Ledger

`mem` is what the storage adapter keeps in memory and both tasks share: whether a
namespace is selected, the two catalogues and their ready flags. `task` holds the
locals of the transaction task and of the portal. An upload session only selects
and releases the namespace, as the identity session does. Nothing keeps the two
tasks apart: the check in the portal is one look, and nothing holds the namespace
afterwards. `spoilt` records that they have worked at the same time, or that a
catalogue was left in its backup alone (`BackupGap`, what `CatalogueFile` shows of
each catalogue); the properties are about the ledger until then.

## Runs

| Run | Specification | Checks | Shows |
|---|---|---|---|
| `application` | `MCApplication.cfg` | `OneRecovery`, `ConflictDisarms`, `ConflictLatched` | Under every order of device events, sync events, requests and policy changes a conflict stops automatic work until the owner asks, and ends only when no device is left; each request earns one close recovery. |
| `usb_two_devices` | `MCUsbSync.cfg` | `BusyAccounted`, `PinnedTarget`, `ConflictStopsData` | Two AccessPorts come and go: each set lock belongs to exactly one work item on its way, a session keeps its handle and generation until it has reported, and it begins no further exchange once a conflict has raised the cancel flag. |
| `usb_session` | `MCUsbSession.cfg` | `AutoSyncBounded`, `GoneIsClosed` | An attachment gets one automatic sync and its retries, also under the interleaving of tasks that `Application` alone does not have; the handle of a device that has gone is closed. |
| `network` | `MCNetwork.cfg` | `NeverStranded`, `TransferLock`, `ReconnectEnds`, `FaultReboots`, `ImplementsView` | Every chain of actions ends in a phase that can be left; a transfer holds the mode; a lost link is restored or given up; a lasting fault reboots while the guard allows it. To its users it is a `NetworkView`. |
| `catalogue_file` | `MCCatalogueFile.cfg` | `ImplementsDurable` | The files of a catalogue behave as one durable value (`DurableFile`), whatever operation fails and wherever a reset comes; only a value that the backup alone holds can be taken for none, and then be lost by a save. |
| `ledger` | `MCLedger.cfg` | `RowsBacked`, `WithinCapacity`, `VersionsKept`, `AbsentIsTrue`, `RowsStay` | Two tasks that nothing keeps apart. Through failed saves and power cuts, until they overlap or a backup is missed, every row has its object and its recorded version, a version is never dropped, a row leaves only when the owner forgets the file, and only a complete listing or a confirmed delete marks a file absent. Neither catalogue outgrows its array. |
| `device_work` | `MCDeviceWork.cfg` | `ChangesAuthorised`, `RecoveryHolds`, `OneAutomaticAttempt`, `LeftoverCancelHarmless`, `WorkOwed`, `DeleteRecorded` | However devices are swapped, consents withdrawn and sessions cut short, an AccessPort changes only if a request named it and consent still stands; a doubtful outcome stops further changes; one attachment gets one automatic write; a cached copy is forgotten only after the file itself; every accepted write or delete is in exactly one place until it is answered. |
| `wrong_car` | `MCDeviceWrongCar.cfg` | `PinnedWrites` | Violated; see [findings](#findings-and-departures). |
| `staged_map` | `MCStagedMap.cfg` | `StagedIsAnUpload`, `OverStaysOver`, `SourceStable` | What is offered for writing is one whole upload with its own destination and pin, before and after a restart; an upload that is over does not come back; the file does not change under its reader. |
| `radio` | `MCWifiRadio.cfg` | `JoinedForReal`, `HotspotIsUp`, `LossNoticed` | No event of an earlier join or start settles a later one; a link lost in the window where its event is dropped is found by the probes, once no transfer puts them off. |
| `soft_power` | `MCSoftPower.cfg` | `FormatConfirmed`, `FilesKept`, `SleepsUnmounted`, `SleepsSynced`, `HoldAnswered` | Bounces, holds, dismissals and presses too far apart never add up to a format; a readable card is never formatted; what may still be running when the Sidecar sleeps; every hold is answered. |
| `onboarding` | `MCOnboarding.cfg` | `ConnectingEnds`, `CredentialsShown`, `CredentialsHidden` | Overlapping joins are all answered; the hotspot's credentials come back after failed joins and go away from a client's screen. |

The runs ask the questions that could have another answer. Each module also has a
type invariant, and the proved modules the inductive invariant of their proof.
These are proved for every module that models code ([proofs](#proofs)), so no run
repeats them; naming one in a configuration as an `INVARIANT` is all it takes to
see it hold on the small instance, as each did before it was proved.

Every property of a passing run is paired in `PROJECT.json` with a slip in the
mapped code that breaks it.

## Bounds

| Bound | Value | Why it is enough |
|---|---|---|
| `Identities` | 2 (application), 1 or 2 (USB) | the handlers compare one identity with another; a third behaves as the second |
| `MaxRevision` | 3 or 4 | older, equal and newer than the snapshot; it bounds the events `Application` enumerates, not those of `UsbSync`, whose revisions the adapter counts |
| `MaxCount` | 2 | zero, one and several eligible devices |
| `AUTO_SYNC_RETRY_LIMIT` | 1 (the code's value) | the proofs cover every limit |
| `retry_unclean_readonly_close_once` | TRUE, FALSE in `usb_session` | `usb_session` has no close recovery, which `application` and `usb_two_devices` have; the proofs cover both |
| `NumSlots`, `MaxAttach` | 2 and 2, or 1 and 2 | two devices at once, or one that comes back at the same address |
| `MaxCalls` | 0, 1 or 2 | calls the owner still makes; a request and its cancellation need two |
| `CONTROL_QUEUE_DEPTH` | 4 (the code's value) | |
| `NetworkIds` | 2 | the network that was lost and the one it was replaced by |
| timeouts, delays | 1 or 2 ticks | below, at and past the deadline all occur |
| `STARTUP_ATTEMPT_LIMIT`, `ACTION_LIMIT` | 2 and 8 (the code's values) | the proofs cover every pair under `LimitAssumption` |
| `Values` | empty and two more | a save replaces one catalogue by another, and either may be the empty one |
| `Paths`, `Digests` | 2 and 2 | two files with the same content, one file that changes, a file that is forgotten while the other keeps the object |
| `HISTORY_CAPACITY`, `MANIFEST_CAPACITY` | 3 and 2 (512 and 128 in the code) | the history of four possible versions fills up; two files never fill the manifest, but a refused row takes the same path as a failed save |
| `Serials`, `MaxPlugs`, `MaxCalls` (`DeviceWork`) | 2, 3, 2 | the device meant and another, a swap and the way back; a write and a delete, or a request and what undoes it. All consents may be saved beforehand, so they cost no call. The two devices are symmetric. |
| `QueueDepth` | 2 (4 in the code) | a full queue is reached with the calls above |
| `MapPaths`, `Payloads`, pins (`StagedMap`) | 1 and the startup screen, 2, 2 | an upload replaced by one that differs in any one part |
| `Chunks`, `MaxUploads`, `MaxFaults` | 2, 3, 3 | a partial payload; a replacement of a replacement; a failure and the failure of its clean-up. Resets are not bounded. |
| `Networks`, `Threshold`, `MaxEvents` (`WifiRadio`) | 2, 2, 2 | an event of the other network's join still waiting; a failed probe that does not yet count and one that does |
| `Debounce`, `Hold`, `Window`, `Confirm` | 2, 4, 5, 11 samples | a bounce shorter than the debounce time, a hold between two windows; two more presses fit the confirmation time and may also miss it |
| `Patience`, `Attempts` | 1, 2 | the cancelled sync stops in time or not; a mount is retried |
| `MaxAsked`, `MaxPresses` | 1, 3 | one caller between its look and its request, an attachment included; a row of one, two and more presses. Presses, holds and syncs are not bounded. |
| `RebootsCounted` | 2 | the history of `NetworkRuntime` counts to two; nothing stops at it |
| `SpoiltBound` (`MCLedger`) | at most one version | a spoilt ledger is followed while the tasks overlap; no property is about it but `WithinCapacity`, which is proved without |
| `Joins` | 2 | a join refused or answered while another is at work |

`CHECK_DEADLOCK FALSE` stands only in the configurations of `UsbSync` and
`DeviceWork`, whose tasks all wait once the bounded arrivals and calls are spent.
Everywhere else TLC also shows that no state is without a next step.

The counters of the history variables need no bound of their own: the
properties are what bounds them.

## Fairness

`UsbSpec` assumes weak fairness of the client task, of the second half of a
portal call, of the start of the monitor and of each step of the delayed retry: each is ready
until it runs, and nothing of higher priority runs for ever. The descriptor and
transaction tasks get strong fairness, because the client task preempts them
but waits up to 100 ms for events in every round; every USB transfer has a
deadline, so a session step ends. `NetSpec` assumes weak fairness of each step
under the mutex (radio calls have deadlines) and of the restart timer, and
strong fairness of the task's tick, since other calls may hold the mutex
whenever it looks but FreeRTOS hands a mutex to the waiting task of highest
priority. `ViewSpec` assumes that a boot and a call end, which `NetSpec` is
checked to give. `Onboarding` takes that over, with weak fairness of the handlers
(a socket has a timeout) and strong fairness of the join tasks and the display
task, which wait for the mutex. `WifiRadio` assumes weak fairness of the event
loop and of the call under way (every wait for bits has a deadline) and strong
fairness of the runtime's round. `SoftPower` assumes weak fairness of the
steps of a shutdown and of the tick after it, none of which waits for anyone; the
sync it cancels may never stop. The bus, the owner, the radio link and the power are never obliged to
do anything.

## Proofs

TLAPS checks the following for every value of the constants that satisfies the
named assumptions.

**Application** (`ApplicationProofs`). Assumptions: `NoIdentity` is not an
identity, the bounds are naturals with `MaxCount >= 2`, the retry limit is a
natural and the recovery switch a Boolean. `AutoSyncBounded` and `OneRecovery`
are not inductive: a state with all runs spent and the flags clear satisfies
both and breaks the first with one step. `IInv` adds what bounds them: each
automatic run is accounted for by `auto_sync_attempted` or
`auto_sync_retry_count` (`RunsAccounted`), each recovery by
`unclean_close_recovery_attempted`, a conflict since the owner's last request
implies the disarm flag, and that implies the attempted flag
(`DisarmedIsAttempted`), and a device in use is the only one
(`OpenDeviceIsSingle`). Theorem `Invariance` shows `Spec => []IInv` with one
lemma for each action; `TypeCorrect`, `AutomaticSyncsBounded`,
`RecoveriesBounded` and `ConflictIsMarked` follow from it, and the action
properties `ConflictIsLatched`, `ConflictStopsAutoSync` and
`QueuesOnlyWhenAvailable` from it and one step.

**USB adapter** (`UsbProofs`). Assumptions: the numbers of addresses and of
queue places are positive, attachments are numbered `1..MaxAttach` and each has
its own identity. Two results.

The adapter's account of itself: `BusyAccounted` and `PinnedTarget` are read off
`AdapterIInv`, which adds that attachments are numbered in the order the bus
shows them (`AttachmentsNumbered`), that every work item carries the number of an
attachment already seen (`WorkDated`; without it an item could later fit a new
device at the same address), that nothing is on its way for a device that is not
open (`WorkAccounted`), and that a session under a latched conflict finds its cancel
flag raised, but for the step between the two (`LatchedCancels`, which gives
`ConflictStopsData`). Theorem `AdapterInvariance` has one lemma for each step of
the client, descriptor and transaction task and of the bus.

The application under the adapter: `Application` takes any event in any order
but each call whole; in `UsbSync` a request is queued in one step and recorded in
another, and three tasks interleave between them. `UsbNextMoves` shows that each step
of the composition is one of the moves listed in `AppMoves`: a handler with a
device or sync event, the delayed retry, the record of a request or of a cancellation made late, or
nothing. Each of these keeps `IInv`, so `ApplicationInvariance` holds for
`UsbSpec`, and with it `AutoSyncBounded`, `OneRecovery` and `ConflictLatched`.
`ConflictDisarms` has one exception here, a delayed retry that had passed its look
before the conflict was reported: `ConflictAlwaysDisarms` is about
`DisarmedButForLateRetry`. The retry is asked for and counted within its limit; the
transport, latched, does not serve it. What does not carry over is `QueuedOnlyWhenAvailable`:
between the two steps of a request the device may go, so it is a theorem of
`Application` alone. `UsbTypeCorrect` adds the control queue within its depth
and puts no bound on the topology revision.

**Network** (`NetworkProofs`). Assumptions: the action limit exceeds the attempt
limit by at least three (the build has 8 and 2), and timeouts and thresholds are
positive. `ActionsFit` needs the number of iterations each pending action may
still cost (`Need`, `Budgeted`), and that needs the attempt counter to stay
within its limit while connecting; `NeverStranded` is about a free mutex and
follows from `SettledWhenIdle`, which holds from the moment no action is left.
Theorem `NetInvariance` shows `NetSpec => []NetIInv`; `NetTypeCorrect`,
`ActionsAlwaysAnswerable`, `ActionsAlwaysFit`, `NotStranded` and `TransferIsLocked`
follow.

`NetworkKeepsView` is the safety part of the refinement `ImplementsView`: the
initial state of the runtime is one of `NetworkView`, and every step is a step
of the view or leaves it alone. Two facts carry it beyond `NetIInv`: a runtime
that starts the hotspot without an action left waits for a credential
(`AwaitsCredential`), and one that is off shows none (`NothingShownWhenOff`).
`Onboarding` rests on this view.

**Radio** (also `NetworkProofs`). Assumptions: `None` is no network and the
threshold is positive. Both results are about events that arrive late.
`HotspotIsUp` needs that nothing reports a start between the clearing of the bit
and the restart of the driver (`HotspotInOrder`), and that each call publishes
only its own states (`CallPublishes`); it holds whatever `PromptEvents` is.
`JoinedForReal` needs that no address of an earlier join is on its way when the
bits of a new one are cleared (`JoinInOrder`). `AlwaysJoinedForReal` therefore has
the hypothesis `PromptEvents`: with a driver that restarts faster than the event
loop drains, TLC shows the stale address taken for the new join. The queue of
the event loop has no bound in either proof.

**Onboarding** (also `NetworkProofs`). The properties of its run are liveness; what
is proved is the safety each of them rests on, for any set of join tasks and over
`NetworkView`, which the runtime is shown to implement. `JoinOwned`: a join that
is announced as under way has a handler or a task at work that will publish
another status, so overlapping joins cannot leave the page waiting
(`ConnectingEnds`). `ScreenRemembered`: the display task compares with what it did
last and not with the screen, and until the offer is taken up or the owner presses
the button the two agree, so it is not blind to a screen it has to change
(`CredentialsShown`, `CredentialsHidden`). `OnboardIInv` adds that nothing is asked
before the start is over (`NothingAsked`) and that who hides the credentials has
recorded why (`TakenBeforeHidden`).

**Catalogue files** (`CatalogueProofs`). Assumptions: `Empty` is a value,
`Absent` and `Torn` are none; nothing is assumed of the operations.
`NeverTorn` is not inductive: what is published must be known to be complete,
which holds from the end of the write to the rename. `FileIInv` adds that, and which
of the three files exist at each step. `FileInvariance` shows `[]FileIInv`, `TornIsNeverCurrent` follows,
and `FileImplementsDurable` shows that `FileSpec` implements `DurableSpec` under
the mapping at the end of `CatalogueFile`: the rename that publishes replaces the
durable value, the unlink of a backup that holds the only copy loses it, and every
other file operation leaves it alone.

**Ledger** (`LedgerProofs`). Assumptions: `NoDigest` is no digest, the paths
are finite and the capacities natural. `RowsBacked` is kept by no step alone: it
needs that the copy in memory is the one on the card while a row is edited
(`MemInStep`), that only a task that selected the namespace finds it open
(`MemHeld`), that a download puts the object in place before the version and the
version before the row (`CommitInOrder`), and that a listing has seen what it will
not mark absent (`ListingTrue`). These make `LedgerIInv`, and
`LedgerInvariance` shows that it holds until the ledger is spoilt. The four results
from it (`RowsBacked`, `VersionsKept`, `AbsentIsTrue`, `RowsStay`) carry that
exception in their statement; `MCLedgerOverlap.cfg` shows that it is needed.
`WithinCapacity` has no exception: it is proved from an invariant of its own,
`CapacityIInv`, that follows the sizes of the lists through both tasks.

**Staged maps** (`StagedMapProofs`). Assumptions: a payload has at least one
chunk, and the sentinels are no values. `StagedIsAnUpload`, `OverStaysOver` and
`SourceStable` become inductive with who holds the service's mutex (`CallFits`),
when a write is under way (`UsbFits`), what each step of a commit has on the card
(`UploadInOrder`) and that a record that decodes is of an upload received whole
(`RecordTrue`, which also says that a record of an upload that is over is one of
`hist.unlearnt` or one the card would not let go). A reset between any two file operations is a step like the others,
so what the card holds then has to be true at each of them.

**Writes and deletes** (`DeviceWorkProofs`). Assumptions: there is an
AccessPort, the settings are among the three, the queue has a place.
`WorkOwed` is proved along the way of a request through queue, deferral,
transaction and observer; `ChangesAuthorised` needs that a transaction gets past
the identity check only on the device it names (`TxnInOrder`) and that a request
keeps the consent it was taken with (`Consented`); `OneAutomaticAttempt` and
`RecoveryHolds` need that what is remembered of an attempt or a doubt outlasts a
device that comes back by itself within the polite window (`AttemptKept`,
`DoubtKept`); `DeleteRecorded` needs that a delete that is being recorded has
removed the file of its target (`TxnInOrder`), and that the dataset a delete names is
on display unless another one was put there (`DeleteAimed`).

**Soft power** (`SoftPowerProofs`). Assumptions: the times are positive, a group
can have three presses. `FormatConfirmed` is about the line, not the counters:
`ButtonSeen` ties what the history has seen of the line to debouncer and group,
`RequestSeen` ties the time since the first pair of presses to the deadline of the
offer. `GateHolds` gives `SleepsSynced`: behind a closed gate a sync is the recovery
of the cancelled one or was begun by a caller who was on the way when the automatic
sync went off. `CardHeld` gives `SleepsUnmounted`. `FilesKept` is an action
property of its own.

Only model-checked, and why:

* the liveness properties `GoneIsClosed`, `ReconnectEnds`, `FaultReboots`,
  `LossNoticed`, `HoldAnswered`, `ConnectingEnds`, `CredentialsShown` and
  `CredentialsHidden`, and the fairness that `ImplementsView` claims: this prover
  has no rules for fairness and ENABLED;
* that the `..._forgets` and other slips break what they should, and the
  departures below.

## Findings and departures

One finding is a run that is expected to be violated; the trace shows the steps.

* `PinnedWrites` (`wrong_car`): `docs/STAGED_MAPS.md:56-61` says that the target
  recorded with a staged map is checked again immediately before the write. The
  automatic write does so; the write the owner asks for by hand looks at consent,
  the staged flag and the recovery latch, never at the pin
  (`revlink_map_upload_request`). A map staged for one car goes to another.

The models reproduce further departures from what a document or a comment says.
Each has a configuration that TLC ends with the trace; they are not among the
listed runs.

| Configuration (module) | Property | What happens |
|---|---|---|
| `MCUsbCancelEnds.cfg` (`MCUsbSync`) | `CancelEnds` | `run_download_acceptance` looks at the cancel flag for the last time before the polite close. A cancellation recorded after that is answered with COMPLETED, which the coordinator refuses while CANCELLING; it stays there and accepts no further sync. |
| `MCUsbConflictIsShown.cfg` (`MCUsbSync`) | `ConflictIsShown` | The revision of a conflict report is read before the report is published. A detach reported in between makes it stale; the transport stays latched and the application never shows the conflict. |
| `MCNetworkReconnect.cfg` (`MCNetwork`) | `ReconnectsSame` | `configure_station` replaces the credential before the coordinator refuses the change under a transfer; a link lost afterwards is looked for under an id the runtime no longer has. |
| `MCNetworkComesBack.cfg` (`MCNetwork`) | `ComesBack` | When the radio cannot be stopped during a restart of the policy the coordinator has already stopped, and nothing starts it again. |
| `MCNetworkReboots.cfg` (`MCNetwork`) | `OneReboot` | `docs/PRODUCT_NETWORKING.md:142`: "RTC-retained state prevents a boot loop". `RTC_DATA_ATTR` is loaded from the image again on `esp_restart`, and the check of its mark then starts it afresh, so a lasting fault reboots again and again. |
| `MCCatalogueRollback.cfg` (`MCCatalogueFile`) | `OldOrNew` | A publication and its rollback both fail and leave the backup as the only copy, or a stat of the backup fails and the catalogue is taken for empty. The next save unlinks the backup before it publishes; a power cut there leaves no catalogue. |
| `MCLedgerOverlap.cfg` (`MCLedger`) | `RowsBackedAlways` | The portal looks at the sync state once and then works on the shared manifest without a lock. A session that starts after that look may put an object in place that the portal, forgetting another file with the same content, unlinks before the row is recorded; a load of the one empties the catalogue the other is about to save. |
| `MCDeviceAttempt.cfg` (`MCDeviceWork`) | `OneAttemptPerAttach` | `docs/STAGED_MAPS.md:114-115` and the comment at `revlink_main.c:1300-1305` give one physical attachment one automatic attempt. A device that takes longer than the polite window to come back counts as a new attachment and gets another. |
| `MCDeviceRow.cfg` (`MCDeviceWork`) | `DeleteOwnRow` | A confirmed delete is recorded in the dataset on display at that moment. After another one was selected, or another device synced, its row of the same path is marked absent or forgotten. |
| `MCStagedAgain.cfg` (`MCStagedMap`) | `OfferedOnce` | `docs/STAGED_MAPS.md:98-102` has a verified payload no longer staged. `observe_upload` returns without a trace when the mutex is not free within a second, and a power cut may come before the record is removed; the payload is offered again. |
| `MCRadioTransfer.cfg` (`MCWifiRadio`) | `LossNoticedAnyway` | The probes that find a loss whose event was dropped are put off while a transfer is active. A transfer that never ends, as the sync of `MCUsbCancelEnds.cfg`, hides the loss for good. |
| `MCDeviceRecovery.cfg` (`MCDeviceWork`) | `DetachLiftsDoubt` | `docs/MAP_WRITE_ACCEPTANCE.md:167` has the recovery latch cleared only by a physical detach. A session that runs between a polite close and the re-enumeration it announced overwrites `polite_disconnect_sent`; the re-enumeration then counts as a detach and lifts the latch. |
| `MCOnboardingRestored.cfg` (`MCOnboarding`) | `CredentialsRestored` | `docs/PRODUCT_NETWORKING.md:244` has the credentials restored when the network returns to the hotspot. SUCCEEDED is never taken back, so after a successful join they stay hidden until a restart. |

Met while modelling, and written into the properties as exceptions or left
without one:

* A deferred delete that finds the control queue full is answered with the failure
  of a sync; the delete service stays RUNNING (`hist.lost` in `DeviceWork`).
* A confirmed delete is recorded in the dataset on display when the answer comes
  (`hist.switched`).
* A failed unmount forgets the card handle, so the next hold skips the unmount and
  sleeps with the filesystem mounted (`hist.skipped` in `SoftPower`).
* A shutdown that is given up leaves `shutdown_requested` set: nothing syncs until a
  restart. A shutdown neither asks nor waits for a write or delete session.
* The task that ends an onboarding switches the radio's mode without the mutex and
  may take down a hotspot that has just come up; a late AP_START settles the next
  start of a hotspot (`hist.raced` in `WifiRadio`).
* DIRECT and a refused join within one period of the display task leave the
  credentials hidden.
* DETACHED clears the device snapshot whatever device it is about, and ATTACHED is
  accepted in WAITING only, so an AccessPort-like device with an unmatched
  configuration that fails or leaves takes the one eligible AccessPort with it.
* A comment in `revlink_sync_manifest_upsert_at` says that a fresh row is recorded
  as on the device; the code records it as unknown, and it stays so if the listing
  pass is discarded.

## Not modelled

| Part | Why |
|---|---|
| protocol, catalog, identity, credentials, DNS, time, CLI | parsers and formatters without shared state; their answers appear as outcomes of exchanges. Candidates for operator modules. |
| update health, USB control | a pure decision and a parser that only host tests call at this commit |
| pages and lists of the portal, backup and restore, rendering of the panel | presentation of state modelled elsewhere |
| annotations, startup profiles, portal projection, metadata maintenance, several datasets in `Ledger` | data of the same catalogues; `DeviceWork` has two datasets with one row each |
| byte layout and checksum of a staged record, the audit record of a delete | abstracted to valid or not, or left out |
| NVS store | one record that is written, read or unreadable (`saved` in `NetworkRuntime`) |
| progress events, root-port recovery task | no state the properties tell apart; an unplug and a plug, to the bus |
| anonymous scan, client count and name of the hotspot | acceptance build, display |
| the semaphore of the gateway probe, which a late ping callback may still use | lifetime of memory; the models have no memory |
| `revlink_network_runtime_forget_station` | has no caller |

## Plan

1. Sync path: `DeviceService`, `SyncCoordinator`, `Application`, `UsbSync`. Done.
2. Network: `NetworkCoordinator`, `NetworkRuntime`, `WifiRadio`, and `Onboarding` over
   the abstraction `NetworkView`. Done.
3. Card: `CatalogueFile` with its abstraction `DurableFile`, `Ledger`. Done, except
   several datasets, the portal projection, the annotations and the maintenance.
4. Map upload, staged maps and file delete: `DeviceWork`, `StagedMap`. Done.
5. Soft power and storage recovery: `SoftPower`. Done; its composition with
   `DeviceWork`, for a shutdown during a write, is left.
6. Operators: manifest and history algorithms (upsert, remove, capacity, sequence
   numbers), captive DNS and protocol framing against reference definitions over
   bounded inputs. Left.
7. Proofs: the safety properties of every run and the safety part of
   `ImplementsView`, and of `Onboarding` the safety its liveness rests on. Done.
