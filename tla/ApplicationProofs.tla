-------------------------- MODULE ApplicationProofs --------------------------
(***************************************************************************)
(* Proofs about Application, for every set of attachments, every retry     *)
(* limit and both values of the recovery flag.                             *)
(***************************************************************************)
EXTENDS Application, TLAPS

USE IdentityAssumption, RevisionAssumption, CountAssumption,
    RetryLimitAssumption, RecoveryFlagAssumption DEF History

\* The device service maps snapshots to snapshots.
LEMMA DeviceAfterType ==
    ASSUME NEW d \in DeviceSnapshot, NEW ev \in AnyDeviceEvent
    PROVE  DeviceAfter(d, ev) \in DeviceSnapshot
<1> USE DEF DeviceSnapshot, AnyDeviceEvent, DeviceEventOver, DeviceStates, TopologyKinds, PlainKinds, AfterEvent
<1>1. CASE ev.kind = "MONITOR_STARTED"
  <2>1. AfterEvent(d, ev) \in DeviceSnapshot
    BY <1>1
  <2>2. QED
    BY <2>1 DEF DeviceAfter
<1>2. CASE ev.kind = "ATTACHED"
  <2>1. AfterEvent(d, ev) \in DeviceSnapshot
    BY <1>2
  <2>2. QED
    BY <2>1 DEF DeviceAfter
<1>3. CASE ev.kind = "ACCEPTED"
  <2>1. AfterEvent(d, ev) \in DeviceSnapshot
    BY <1>3
  <2>2. QED
    BY <2>1 DEF DeviceAfter
<1>4. CASE ev.kind = "SESSION_OPENED"
  <2>1. AfterEvent(d, ev) \in DeviceSnapshot
    BY <1>4
  <2>2. QED
    BY <2>1 DEF DeviceAfter
<1>5. CASE ev.kind = "SESSION_CLOSED"
  <2>1. AfterEvent(d, ev) \in DeviceSnapshot
    BY <1>5
  <2>2. QED
    BY <2>1 DEF DeviceAfter
<1>6. CASE ev.kind = "DETACHED"
  <2>1. AfterEvent(d, ev) \in DeviceSnapshot
    BY <1>6 DEF AfterDetach
  <2>2. QED
    BY <2>1 DEF DeviceAfter
<1>7. CASE ev.kind = "MULTIPLE_DETECTED"
  <2>1. AfterEvent(d, ev) \in DeviceSnapshot
    BY <1>7
  <2>2. QED
    BY <2>1 DEF DeviceAfter
<1>8. CASE ev.kind = "FAILURE"
  <2>1. AfterEvent(d, ev) \in DeviceSnapshot
    BY <1>8
  <2>2. QED
    BY <2>1 DEF DeviceAfter
<1>9. QED
  BY <1>1, <1>2, <1>3, <1>4, <1>5, <1>6, <1>7, <1>8

\* What an accepted event does to the state, by kind: the facts the proofs of
\* the handlers need, without the rest of the snapshot.
LEMMA DeviceAfterState ==
    ASSUME NEW d \in DeviceSnapshot, NEW ev \in AnyDeviceEvent, DeviceAccepts(d, ev)
    PROVE  LET e == DeviceAfter(d, ev) IN
           /\ e.state = "WAITING" => \/ ev.kind = "MONITOR_STARTED" /\ d.state = "STOPPED"
                                     \/ ev.kind = "DETACHED"
           /\ e.state = "INSPECTING" /\ d.state = "WAITING" => ev.kind = "ATTACHED"
           /\ e.state # "STOPPED"
           /\ e.state = "AVAILABLE" /\ d.state = "INSPECTING" => ev.kind = "ACCEPTED"
           /\ e.state = "AVAILABLE" =>
                 \/ ev.kind = "ACCEPTED" /\ e.count = 1
                 \/ d.state = "SESSION_ACTIVE" /\ e.count = d.count
           /\ e.state = "SESSION_ACTIVE" => d.state = "AVAILABLE" /\ e.count = d.count
           /\ (d.recoveryRequired <=> d.state = "CONFLICT")
                 => (e.recoveryRequired <=> e.state = "CONFLICT")
  BY DEF DeviceAccepts, StaleRevision, DeviceAfter, AfterEvent, AfterDetach,
         DeviceSnapshot, AnyDeviceEvent, DeviceEventOver, DeviceStates,
         TopologyKinds, PlainKinds, event_has_topology_revision

\* The events a bounded run enumerates are events.
LEMMA EnumeratedEvents == AdapterEvents \subseteq AnyDeviceEvent /\ AdapterSyncEvents \subseteq SyncEvent
<1>1. 0..MaxCount \subseteq Nat /\ 0..MaxRevision \subseteq Nat
  OBVIOUS
<1>2. DeviceEvent \subseteq AnyDeviceEvent
  BY <1>1 DEF DeviceEvent, AnyDeviceEvent, DeviceEventOver
<1>3. QED
  BY <1>2 DEF AdapterEvents, AdapterSyncEvents

\* The initial state satisfies the inductive invariant.
LEMMA InitIInv == Init => IInv
  BY DEF Init, DeviceInit, SyncInit, IInv, AppTypeOK, DeviceTypeOK, SyncTypeOK,
         DeviceSnapshot, DeviceStates, SyncSnapshot, SyncStates, AppFlags,
         RunsAccounted, RecoveriesAccounted, DisarmedIsAttempted, ConflictMarked,
         OpenDeviceIsSingle, One

\* A device event keeps the invariant: a boundary that clears the run counter's
\* account also ends the attachment the counter is about.
LEMMA DeviceEventIInv ==
    ASSUME IInv, NEW ev \in AnyDeviceEvent, NEW ok \in BOOLEAN,
           handle_device_event(ev, ok)
    PROVE  IInv'
<1> DEFINE flags   == ClassifyBoundary(DisarmOnConflict(app, ev), ev)
           after   == DeviceAfter(device, ev).state
           rearmed == IF Accepts(ev) THEN RearmAtBoundary(flags, device.state, after) ELSE flags
           request == AttachSync(rearmed, ev)
           asked   == IF request THEN request_automatic_sync(rearmed, FALSE, Granted(ok))
                                 ELSE rearmed
           genuine == Accepts(ev) /\ ev.kind \in {"ATTACHED", "DETACHED"} /\ ~ev.soft
<1>1. /\ ev.kind \in TopologyKinds \union PlainKinds
      /\ ev.soft \in BOOLEAN
  BY DEF AnyDeviceEvent, DeviceEventOver
<1>2. /\ device' \in DeviceSnapshot
      /\ ConflictMarked'
      /\ OpenDeviceIsSingle'
      /\ device.state = "STOPPED" \/ device'.state # "STOPPED"
  <2>1. CASE Accepts(ev)
    <3>1. device' = DeviceAfter(device, ev)
      BY <2>1 DEF handle_device_event, device_service_handle, Accepts
    <3>2. QED
      BY <3>1, <2>1, <1>1, DeviceAfterType, DeviceAfterState
      DEF IInv, AppTypeOK, DeviceTypeOK, ConflictMarked, OpenDeviceIsSingle, Accepts
  <2>2. CASE ~Accepts(ev)
    <3>1. device' = device
      BY <2>2 DEF handle_device_event, device_service_handle, Accepts
    <3>2. QED
      BY <3>1 DEF IInv, AppTypeOK, DeviceTypeOK, ConflictMarked, OpenDeviceIsSingle
  <2>3. QED
    BY <2>1, <2>2
<1>3. sync' \in SyncSnapshot /\ policy' \in BOOLEAN
  BY DEF handle_device_event, IInv, AppTypeOK, SyncTypeOK, SyncSnapshot, SyncStates,
         Cancelling, Queued
<1>4. /\ flags \in AppFlags
      /\ flags.retryCount = app.retryCount
      /\ flags.recovered = app.recovered
      /\ app.attempted => flags.attempted
      /\ flags.disarmed => flags.attempted
      /\ hist.conflict \/ ev.kind = "MULTIPLE_DETECTED" => flags.disarmed
      /\ ev.kind \in {"ATTACHED", "DETACHED"} => flags.preserve = ev.soft
  BY <1>1 DEF ClassifyBoundary, DisarmOnConflict, IInv, AppTypeOK, AppFlags,
              DisarmedIsAttempted
<1>5. /\ rearmed \in AppFlags
      /\ rearmed.retryCount <= app.retryCount
      /\ rearmed.recovered = app.recovered
      /\ rearmed.disarmed => rearmed.attempted
      /\ flags.disarmed => rearmed.disarmed
      /\ \/ rearmed = flags
         \/ genuine
         \/ device.state = "STOPPED"
  <2>1. CASE Accepts(ev)
    <3>1. /\ after = "WAITING" => ev.kind = "DETACHED" \/ device.state = "STOPPED"
          /\ after = "INSPECTING" /\ device.state = "WAITING" => ev.kind = "ATTACHED"
      BY <2>1, DeviceAfterState DEF IInv, AppTypeOK, DeviceTypeOK, Accepts
    <3>2. CASE rearmed = flags
      BY <3>2, <1>4 DEF IInv, AppTypeOK, AppFlags
    <3>3. CASE rearmed # flags
      <4>1. /\ after = "WAITING" \/ (after = "INSPECTING" /\ device.state = "WAITING")
            /\ ~flags.preserve
            /\ ~flags.disarmed
            /\ rearmed = [flags EXCEPT !.attempted = FALSE, !.active = FALSE,
                                       !.retryEligible = FALSE, !.retryCount = 0]
        BY <2>1, <3>3 DEF RearmAtBoundary
      <4>2. genuine \/ device.state = "STOPPED"
        BY <2>1, <3>1, <4>1, <1>4
      <4>3. /\ rearmed \in AppFlags
            /\ rearmed.retryCount = 0
            /\ rearmed.recovered = flags.recovered
            /\ ~rearmed.disarmed
        <5> HIDE DEF flags, rearmed
        <5> QED
          BY <4>1, <1>4 DEF AppFlags
      <4>4. 0 <= app.retryCount
        BY DEF IInv, AppTypeOK, AppFlags
      <4>5. QED
        BY <4>1, <4>2, <4>3, <4>4, <1>4
    <3>4. QED
      BY <3>2, <3>3
  <2>2. CASE ~Accepts(ev)
    BY <2>2, <1>4 DEF IInv, AppTypeOK, AppFlags
  <2>3. QED
    BY <2>1, <2>2
<1>6. /\ asked \in AppFlags
      /\ asked.retryCount = rearmed.retryCount
      /\ request /\ Granted(ok) => asked.attempted /\ ~rearmed.attempted
      /\ ~(request /\ Granted(ok)) => asked.attempted = rearmed.attempted
                                      /\ asked.recovered = rearmed.recovered
      /\ asked.disarmed => asked.attempted
      /\ flags.disarmed => asked.disarmed
  BY <1>5 DEF request_automatic_sync, AppFlags, AttachSync
<1>7. /\ app' \in AppFlags
      /\ app'.retryCount = asked.retryCount
      /\ app'.attempted = asked.attempted
      /\ app'.recovered = asked.recovered
      /\ app'.disarmed = asked.disarmed
  BY <1>6 DEF handle_device_event, AppFlags
<1>8. /\ hist' \in History
      /\ hist'.autoRuns = IF genuine THEN 0
                          ELSE IF request /\ Granted(ok) THEN hist.autoRuns + 1
                          ELSE hist.autoRuns
      /\ hist'.recoveries = IF request /\ Granted(ok) THEN 0 ELSE hist.recoveries
      /\ hist'.conflict = (hist.conflict \/ ev.kind = "MULTIPLE_DETECTED")
  <2>1. hist.autoRuns \in Nat /\ hist.autoRuns + 1 \in Nat /\ hist.recoveries \in Nat
        /\ hist.conflict \in BOOLEAN
    BY DEF IInv, AppTypeOK
  <2>2. QED
    BY <2>1 DEF handle_device_event
<1>9. request => device.state # "STOPPED" /\ ~genuine
  BY DeviceAfterState DEF AttachSync, IInv, AppTypeOK, DeviceTypeOK, Accepts
<1>10. /\ hist' \in History
       /\ RunsAccounted'
       /\ RecoveriesAccounted'
  <2>0. /\ hist \in History
        /\ app.retryCount \in Nat /\ app'.retryCount \in Nat
        /\ app'.retryCount <= app.retryCount
        /\ app.retryCount <= AUTO_SYNC_RETRY_LIMIT
    BY <1>5, <1>6, <1>7 DEF IInv, AppTypeOK, AppFlags, RunsAccounted
  <2>1. app'.retryCount <= AUTO_SYNC_RETRY_LIMIT
    BY <2>0
  <2>2. CASE genuine
    <3>1. /\ hist' \in History
          /\ hist'.autoRuns = 0
          /\ hist'.recoveries = hist.recoveries
      BY <2>0, <2>2, <1>8, <1>9
    <3>2. app'.recovered = app.recovered
      BY <2>2, <1>5, <1>6, <1>7, <1>9
    <3>3. RunsAccounted'
      BY <2>0, <2>1, <3>1 DEF RunsAccounted, One
    <3>4. RecoveriesAccounted'
      BY <3>1, <3>2 DEF IInv, RecoveriesAccounted, One
    <3>5. QED
      BY <3>1, <3>3, <3>4
  <2>3. CASE ~genuine /\ request /\ Granted(ok)
    <3>1. /\ hist' \in History
          /\ hist'.autoRuns = hist.autoRuns + 1
          /\ hist'.recoveries = 0
      BY <2>0, <2>3, <1>8
    <3>2. rearmed = flags /\ ~rearmed.attempted /\ app'.attempted
      BY <2>3, <1>5, <1>6, <1>7, <1>9
    <3>3. ~app.attempted /\ app'.retryCount = app.retryCount
      BY <3>2, <1>4, <1>6, <1>7
    <3>4. device'.state # "STOPPED"
      BY <2>3, <1>2, <1>9
    <3>5. hist.autoRuns <= app.retryCount
      BY <2>0, <3>3 DEF IInv, RunsAccounted, One
    <3>6. hist'.autoRuns <= One(app'.attempted) + app'.retryCount
      BY <2>0, <3>1, <3>2, <3>3, <3>5 DEF One
    <3>7. QED
      BY <2>1, <3>1, <3>4, <3>6 DEF RunsAccounted, RecoveriesAccounted, One
  <2>4. CASE ~genuine /\ ~(request /\ Granted(ok))
    <3>1. hist'.autoRuns = hist.autoRuns /\ hist'.recoveries = hist.recoveries
      BY <2>4, <1>8
    <3>2. /\ app'.attempted = rearmed.attempted
          /\ app'.recovered = app.recovered
          /\ app'.retryCount = rearmed.retryCount
      BY <2>4, <1>5, <1>6, <1>7
    <3>3. RecoveriesAccounted'
      BY <3>1, <3>2 DEF IInv, RecoveriesAccounted
    <3>4. CASE rearmed = flags
      <4>1. app'.retryCount = app.retryCount /\ (app.attempted => app'.attempted)
        BY <3>2, <3>4, <1>4
      <4>2. One(app.attempted) <= One(app'.attempted)
        BY <4>1 DEF One
      <4>3. One(app.attempted) \in Nat /\ One(app'.attempted) \in Nat
        BY DEF One
      <4>4. hist.autoRuns <= One(app.attempted) + app.retryCount
        BY DEF IInv, RunsAccounted
      <4>5. hist'.autoRuns <= One(app'.attempted) + app'.retryCount
        BY <2>0, <3>1, <4>1, <4>2, <4>3, <4>4
      <4>6. device'.state = "STOPPED" => hist'.autoRuns = 0
        BY <3>1, <1>2 DEF IInv, RunsAccounted
      <4>7. QED
        BY <1>8, <2>1, <3>3, <4>5, <4>6 DEF RunsAccounted
    <3>5. CASE device.state = "STOPPED"
      <4>1. hist'.autoRuns = 0
        BY <3>1, <3>5 DEF IInv, RunsAccounted
      <4>2. hist'.autoRuns <= One(app'.attempted) + app'.retryCount
        BY <2>0, <4>1 DEF One
      <4>3. QED
        BY <1>8, <2>1, <3>3, <4>1, <4>2 DEF RunsAccounted
    <3>6. QED
      BY <2>4, <1>5, <3>4, <3>5
  <2>5. QED
    BY <2>2, <2>3, <2>4
<1>11. hist'.conflict => app'.disarmed
  BY <1>4, <1>6, <1>7, <1>8
<1>12. QED
  BY <1>2, <1>3, <1>6, <1>7, <1>10, <1>11
  DEF IInv, AppTypeOK, DeviceTypeOK, SyncTypeOK, DisarmedIsAttempted

\* request_automatic_sync counts a retry whatever the coordinator answers.
LEMMA RetryIsCounted ==
    ASSUME NEW a \in AppFlags, NEW granted
    PROVE  LET b == request_automatic_sync(a, TRUE, granted) IN
           /\ b \in AppFlags
           /\ b.retryCount = a.retryCount + 1
           /\ b.disarmed = a.disarmed
<1> DEFINE counted == [a EXCEPT !.retryCount = a.retryCount + 1, !.retryEligible = FALSE]
<1>1. request_automatic_sync(a, TRUE, granted) =
        IF granted THEN [counted EXCEPT !.attempted = TRUE, !.active = TRUE, !.recovered = FALSE]
                   ELSE [counted EXCEPT !.retryEligible = FALSE]
  BY DEF request_automatic_sync
<1>2. a.retryCount + 1 \in Nat
  BY DEF AppFlags
<1>3. counted \in AppFlags /\ counted.retryCount = a.retryCount + 1
      /\ counted.disarmed = a.disarmed
  <2> DEFINE n == a.retryCount + 1
  <2>1. n \in Nat
    BY <1>2
  <2> HIDE DEF n
  <2>2. [a EXCEPT !.retryCount = n, !.retryEligible = FALSE] \in AppFlags
    BY <2>1 DEF AppFlags
  <2>3. /\ [a EXCEPT !.retryCount = n, !.retryEligible = FALSE].retryCount = n
        /\ [a EXCEPT !.retryCount = n, !.retryEligible = FALSE].disarmed = a.disarmed
    BY DEF AppFlags
  <2>4. QED
    BY <2>2, <2>3 DEF n
<1> HIDE DEF counted
<1>4. QED
  BY <1>1, <1>3 DEF AppFlags

\* Requests, retries, cancellations and policy changes keep the invariant: a
\* retry is counted before it can run.
LEMMA RequestIInv ==
    ASSUME IInv, NEW ok \in BOOLEAN,
           \/ request_sync(ok) \/ retry_auto_sync(ok) \/ cancel_sync(ok)
           \/ \E enabled \in BOOLEAN : set_sync_policy(enabled)
    PROVE  IInv'
<1> USE DEF IInv, AppTypeOK, DeviceTypeOK, SyncTypeOK, SyncSnapshot, SyncStates, AppFlags,
            RunsAccounted, RecoveriesAccounted, DisarmedIsAttempted, ConflictMarked,
            OpenDeviceIsSingle, One
<1>1. CASE request_sync(ok)
  <2>1. /\ sync' \in SyncSnapshot
        /\ device' = device /\ policy' = policy
        /\ app' \in AppFlags
        /\ hist' \in History
    BY <1>1 DEF request_sync, Queued, ManualFlags
  <2>2. /\ app'.attempted /\ ~app'.recovered
        /\ app'.retryCount = app.retryCount
        /\ hist'.autoRuns = hist.autoRuns /\ hist'.recoveries = 0
        /\ ~hist'.conflict
    BY <1>1 DEF request_sync, ManualFlags
  <2>3. hist.autoRuns <= 1 + app.retryCount
    BY DEF One
  <2>4. QED
    BY <2>1, <2>2, <2>3
<1>2. CASE retry_auto_sync(ok)
  <2>1. app.retryCount \in Nat /\ app.retryCount < AUTO_SYNC_RETRY_LIMIT
        /\ device.state # "STOPPED" /\ ~app.disarmed
    BY <1>2 DEF retry_auto_sync, auto_sync_retry_needed
  <2>2. device' = device /\ policy' = policy /\ sync' \in SyncSnapshot
    BY <1>2 DEF retry_auto_sync, Queued
  <2>3. /\ app' \in AppFlags
        /\ app'.retryCount = app.retryCount + 1
        /\ app'.disarmed = app.disarmed
    <3>1. app \in AppFlags /\ app' = request_automatic_sync(app, TRUE, Granted(ok))
      BY <1>2 DEF retry_auto_sync
    <3>2. QED
      BY <3>1, RetryIsCounted
  <2>4. app'.retryCount <= AUTO_SYNC_RETRY_LIMIT
    BY <2>1, <2>3
  <2>5. CASE Granted(ok)
    <3>1. app'.attempted /\ ~app'.recovered
      BY <1>2, <2>5 DEF retry_auto_sync, request_automatic_sync
    <3>2. hist' \in History
          /\ hist'.autoRuns = hist.autoRuns + 1 /\ hist'.recoveries = 0
          /\ hist'.conflict = hist.conflict
      <4>1. hist \in History /\ hist.autoRuns + 1 \in Nat
        OBVIOUS
      <4>2. hist' = [hist EXCEPT !.autoRuns = hist.autoRuns + 1, !.recoveries = 0]
        BY <1>2, <2>5 DEF retry_auto_sync
      <4>3. QED
        BY <4>1, <4>2
    <3>3. hist.autoRuns <= 1 + app.retryCount
      BY <2>1 DEF One
    <3>4. hist'.autoRuns <= One(app'.attempted) + app'.retryCount
      BY <2>1, <2>3, <3>1, <3>2, <3>3
    <3>5. QED
      BY <2>1, <2>2, <2>3, <2>4, <3>1, <3>2, <3>4
  <2>6. CASE ~Granted(ok)
    <3>1. app'.attempted = app.attempted /\ app'.recovered = app.recovered
      BY <1>2, <2>6 DEF retry_auto_sync, request_automatic_sync
    <3>2. hist' = hist
      BY <1>2, <2>6 DEF retry_auto_sync
    <3>3. hist'.autoRuns <= One(app'.attempted) + app'.retryCount
      BY <2>1, <2>3, <3>1, <3>2
    <3>4. QED
      BY <2>1, <2>2, <2>3, <2>4, <3>1, <3>2, <3>3
  <2>7. QED
    BY <2>5, <2>6
<1>3. CASE cancel_sync(ok)
  <2>1. sync' \in SyncSnapshot /\ device' = device /\ policy' = policy /\ hist' = hist
    BY <1>3 DEF cancel_sync, Cancelling
  <2>2. app' \in AppFlags
    BY <1>3 DEF cancel_sync
  <2>3. app' = app \/ app' = [app EXCEPT !.retryEligible = FALSE]
    BY <1>3 DEF cancel_sync
  <2>4. QED
    BY <2>1, <2>2, <2>3
<1>4. CASE \E enabled \in BOOLEAN : set_sync_policy(enabled)
  BY <1>4 DEF set_sync_policy
<1>5. QED
  BY <1>1, <1>2, <1>3, <1>4

\* A sync event keeps the invariant: a recovery is marked as it is started.
LEMMA SyncEventIInv ==
    ASSUME IInv, NEW ev \in SyncEvent, NEW ok \in BOOLEAN,
           handle_sync_event(ev, ok)
    PROVE  IInv'
<1> DEFINE flags == AutoAfterSyncEvent(app, ev)
<1>1. /\ ev.kind \in SyncEventKinds
      /\ ev.recovery \in BOOLEAN
  BY DEF SyncEvent
<1>2. sync' \in SyncSnapshot
  BY <1>1 DEF handle_sync_event, SyncAfter, Queued, SyncSnapshot, SyncStates, SyncEventKinds,
              TerminalKinds, IInv, AppTypeOK, SyncTypeOK
<1>3. /\ flags \in AppFlags
      /\ flags.retryCount = app.retryCount
      /\ flags.attempted = app.attempted
      /\ flags.disarmed = app.disarmed
      /\ flags.recovered = app.recovered
  BY DEF AutoAfterSyncEvent, IInv, AppTypeOK, AppFlags
<1>4. RecoveryDue(flags, ev) => ~flags.recovered
  BY DEF RecoveryDue
<1>5. /\ device' = device /\ policy' = policy
      /\ app' \in AppFlags
      /\ app'.retryCount = app.retryCount
      /\ app'.attempted = app.attempted
      /\ app'.disarmed = app.disarmed
  BY <1>3 DEF handle_sync_event, AppFlags
<1>6. /\ hist' \in History
      /\ hist'.autoRuns = hist.autoRuns
      /\ hist'.conflict = hist.conflict
  BY DEF handle_sync_event, IInv, AppTypeOK
<1>7. RecoveriesAccounted'
  <2>1. CASE RecoveryDue(flags, ev)
    <3>1. app'.recovered /\ ~app.recovered
      BY <2>1, <1>3, <1>4 DEF handle_sync_event, AppFlags
    <3>2. hist.recoveries \in Nat /\ hist.recoveries <= 0
      BY <3>1 DEF IInv, AppTypeOK, RecoveriesAccounted, One
    <3>3. hist'.recoveries \in {hist.recoveries, hist.recoveries + 1}
      BY <2>1 DEF handle_sync_event, IInv, AppTypeOK
    <3>4. QED
      BY <3>1, <3>2, <3>3 DEF RecoveriesAccounted, One
  <2>2. CASE ~RecoveryDue(flags, ev)
    BY <2>2, <1>3 DEF handle_sync_event, IInv, RecoveriesAccounted
  <2>3. QED
    BY <2>1, <2>2
<1>8. QED
  BY <1>2, <1>5, <1>6, <1>7
  DEF IInv, AppTypeOK, DeviceTypeOK, SyncTypeOK, RunsAccounted, DisarmedIsAttempted,
      ConflictMarked, OpenDeviceIsSingle

\* Every step of the application keeps the inductive invariant.
LEMMA StepIInv == IInv /\ [Next]_vars => IInv'
<1> SUFFICES ASSUME IInv, [Next]_vars PROVE IInv'
  OBVIOUS
<1>1. ASSUME NEW ev \in AdapterEvents, NEW ok \in BOOLEAN, handle_device_event(ev, ok)
      PROVE  IInv'
  BY <1>1, EnumeratedEvents, DeviceEventIInv
<1>2. ASSUME NEW ok \in BOOLEAN, request_sync(ok) \/ retry_auto_sync(ok) \/ cancel_sync(ok)
      PROVE  IInv'
  BY <1>2, RequestIInv
<1>3. ASSUME NEW enabled \in BOOLEAN, set_sync_policy(enabled)
      PROVE  IInv'
  BY <1>3, RequestIInv
<1>4. ASSUME NEW ev \in AdapterSyncEvents, NEW ok \in BOOLEAN, handle_sync_event(ev, ok)
      PROVE  IInv'
  BY <1>4, EnumeratedEvents, SyncEventIInv
<1>5. CASE UNCHANGED vars
  BY <1>5 DEF vars, IInv, AppTypeOK, DeviceTypeOK, SyncTypeOK, RunsAccounted,
              RecoveriesAccounted, DisarmedIsAttempted, ConflictMarked, OpenDeviceIsSingle
<1>6. QED
  BY <1>1, <1>2, <1>3, <1>4, <1>5 DEF Next

\* The inductive invariant holds in every reachable state.
THEOREM Invariance == Spec => []IInv
  BY InitIInv, StepIInv, PTL DEF Spec

\* The snapshots and flags of revlink_application.c keep their types.
THEOREM TypeCorrect == Spec => []AppTypeOK
<1>1. IInv => AppTypeOK
  BY DEF IInv
<1>2. QED
  BY <1>1, Invariance, PTL

\* What is accounted for is bounded by the retries and by the one recovery mark.
LEMMA BoundedRuns ==
    ASSUME IInv
    PROVE  AutoSyncBounded
<1>1. /\ app.retryCount \in Nat /\ hist.autoRuns \in Nat
      /\ app.retryCount <= AUTO_SYNC_RETRY_LIMIT
      /\ hist.autoRuns <= One(app.attempted) + app.retryCount
  BY DEF IInv, AppTypeOK, AppFlags, RunsAccounted
<1>2. One(app.attempted) \in {0, 1}
  BY DEF One
<1>3. QED
  BY <1>1, <1>2 DEF AutoSyncBounded

LEMMA BoundedRecoveries ==
    ASSUME IInv
    PROVE  OneRecovery
<1>1. hist.recoveries \in Nat /\ hist.recoveries <= One(app.recovered)
  BY DEF IInv, AppTypeOK, RecoveriesAccounted
<1>2. QED
  BY <1>1 DEF OneRecovery, One

\* request_automatic_sync runs at most 1 + AUTO_SYNC_RETRY_LIMIT times in one
\* physical attachment, whatever events and requests arrive.
THEOREM AutomaticSyncsBounded == Spec => []AutoSyncBounded
  BY BoundedRuns, Invariance, PTL

\* handle_sync_event starts at most one close-recovery session per request.
THEOREM RecoveriesBounded == Spec => []OneRecovery
  BY BoundedRecoveries, Invariance, PTL

\* conflict_recovery_required is set exactly in the conflict state.
THEOREM ConflictIsMarked == Spec => []ConflictMarked
<1>1. IInv => ConflictMarked
  BY DEF IInv
<1>2. QED
  BY <1>1, Invariance, PTL

\* An event ends a conflict only if it reports that no eligible device is left.
LEMMA ConflictEnds ==
    ASSUME device \in DeviceSnapshot, NEW ev \in AnyDeviceEvent, device_service_handle(ev),
           device.state = "CONFLICT", device'.state # "CONFLICT"
    PROVE  device'.state = "WAITING" /\ device'.count = 0
  BY DEF device_service_handle, DeviceAccepts, DeviceAfter, AfterEvent, AfterDetach, DeviceSnapshot,
         AnyDeviceEvent, DeviceEventOver, DeviceStates, TopologyKinds, PlainKinds

\* A conflict is left only for WAITING with no eligible device
\* (revlink_device_service_handle).
THEOREM ConflictIsLatched == Spec => ConflictLatched
<1>1. ASSUME IInv, [Next]_vars, device.state = "CONFLICT", device'.state # "CONFLICT"
      PROVE  device'.state = "WAITING" /\ device'.count = 0
  <2>1. PICK ev \in AdapterEvents : device_service_handle(ev)
    BY <1>1 DEF Next, vars, handle_device_event, request_sync, retry_auto_sync,
                cancel_sync, set_sync_policy, handle_sync_event
  <2>2. device \in DeviceSnapshot
    BY <1>1 DEF IInv, AppTypeOK, DeviceTypeOK
  <2>3. QED
    BY <1>1, <2>1, <2>2, EnumeratedEvents, ConflictEnds
<1>2. QED
  BY <1>1, Invariance, PTL DEF Spec, ConflictLatched

\* A device event starts no automatic sync after a conflict.
LEMMA DisarmedAttachesAlone ==
    ASSUME IInv, NEW ev \in AnyDeviceEvent, NEW ok \in BOOLEAN, handle_device_event(ev, ok),
           hist.conflict
    PROVE  ~(hist'.autoRuns > hist.autoRuns)
<1> DEFINE flags   == ClassifyBoundary(DisarmOnConflict(app, ev), ev)
           after   == DeviceAfter(device, ev).state
           rearmed == IF Accepts(ev) THEN RearmAtBoundary(flags, device.state, after) ELSE flags
           request == AttachSync(rearmed, ev)
<1>1. hist \in History /\ app \in AppFlags /\ app.disarmed /\ app.attempted
  BY DEF IInv, AppTypeOK, DisarmedIsAttempted
<1>2. flags \in AppFlags /\ flags.disarmed /\ flags.attempted
  BY <1>1 DEF ClassifyBoundary, DisarmOnConflict, AppFlags, AnyDeviceEvent, DeviceEventOver
<1>3. rearmed = flags
  BY <1>2 DEF RearmAtBoundary
<1>4. ~request
  BY <1>2, <1>3 DEF AttachSync
<1>5. hist'.autoRuns = 0 \/ hist'.autoRuns = hist.autoRuns
  BY <1>4 DEF handle_device_event
<1>6. QED
  BY <1>1, <1>5

\* Nor does the retry.
LEMMA DisarmedRetriesNot ==
    ASSUME IInv, NEW ok \in BOOLEAN, retry_auto_sync(ok)
    PROVE  ~hist.conflict
  BY DEF retry_auto_sync, auto_sync_retry_needed, IInv, DisarmedIsAttempted

\* While a conflict has disarmed it, no automatic sync starts.
THEOREM ConflictStopsAutoSync == Spec => ConflictDisarms
<1>1. ASSUME IInv, [Next]_vars, hist'.autoRuns > hist.autoRuns
      PROVE  ~hist.conflict
  <2> SUFFICES ASSUME hist.conflict PROVE FALSE
    OBVIOUS
  <2>0. hist \in History
    BY <1>1 DEF IInv, AppTypeOK
  <2>1. ASSUME NEW ev \in AdapterEvents, NEW ok \in BOOLEAN, handle_device_event(ev, ok)
        PROVE  FALSE
    BY <1>1, <2>1, EnumeratedEvents, DisarmedAttachesAlone
  <2>2. ASSUME NEW ok \in BOOLEAN, request_sync(ok) \/ retry_auto_sync(ok) \/ cancel_sync(ok)
        PROVE  FALSE
    <3>1. ~retry_auto_sync(ok)
      BY <1>1, DisarmedRetriesNot
    <3>2. hist'.autoRuns = hist.autoRuns
      BY <2>0, <2>2, <3>1 DEF request_sync, cancel_sync
    <3>3. QED
      BY <1>1, <2>0, <3>2
  <2>3. ASSUME NEW enabled \in BOOLEAN, set_sync_policy(enabled)
        PROVE  FALSE
    BY <1>1, <2>0, <2>3 DEF set_sync_policy
  <2>4. ASSUME NEW ev \in AdapterSyncEvents, NEW ok \in BOOLEAN, handle_sync_event(ev, ok)
        PROVE  FALSE
    BY <1>1, <2>0, <2>4 DEF handle_sync_event
  <2>5. CASE UNCHANGED vars
    BY <1>1, <2>0, <2>5 DEF vars
  <2>6. QED
    BY <1>1, <2>1, <2>2, <2>3, <2>4, <2>5 DEF Next
<1>2. QED
  BY <1>1, Invariance, PTL DEF Spec, ConflictDisarms

\* Every path that queues a sync does so with exactly one accepted, idle
\* AccessPort.
THEOREM QueuesOnlyWhenAvailable == Spec => QueuedOnlyWhenAvailable
<1>1. ASSUME IInv, [Next]_vars, sync'.state = "QUEUED", sync.state # "QUEUED"
      PROVE  device'.state = "AVAILABLE" /\ device'.count = 1
  <2>0. IInv'
    BY <1>1, StepIInv
  <2>1. ASSUME NEW ev \in AdapterEvents, NEW ok \in BOOLEAN, handle_device_event(ev, ok)
        PROVE  device'.state = "AVAILABLE"
    <3>1. sync \in SyncSnapshot
      BY <1>1 DEF IInv, AppTypeOK, SyncTypeOK
    <3>2. Cancelling(sync).state = "CANCELLING"
      BY <3>1 DEF Cancelling, SyncSnapshot
    <3>3. PICK a : AttachSync(a, ev)
      BY <1>1, <2>1, <3>2 DEF handle_device_event
    <3>4. QED
      BY <2>1, <3>3 DEF handle_device_event, device_service_handle, AttachSync, Accepts
  <2>2. ASSUME NEW ok \in BOOLEAN, request_sync(ok) \/ retry_auto_sync(ok) \/ cancel_sync(ok)
        PROVE  device'.state = "AVAILABLE"
    BY <1>1, <2>2 DEF request_sync, retry_auto_sync, auto_sync_retry_needed, cancel_sync,
       Cancelling, IInv, AppTypeOK, SyncTypeOK, SyncSnapshot
  <2>3. ASSUME NEW enabled \in BOOLEAN, set_sync_policy(enabled)
        PROVE  FALSE
    BY <1>1, <2>3 DEF set_sync_policy
  <2>4. ASSUME NEW ev \in AdapterSyncEvents, NEW ok \in BOOLEAN, handle_sync_event(ev, ok)
        PROVE  device'.state = "AVAILABLE"
    <3>1. SyncAfter(sync, ev).state # "QUEUED"
      BY <1>1, <2>4 DEF SyncAfter, TerminalKinds
    <3>2. RecoveryDue(AutoAfterSyncEvent(app, ev), ev) /\ device' = device
      BY <1>1, <2>4, <3>1 DEF handle_sync_event
    <3>3. QED
      BY <3>2 DEF RecoveryDue
  <2>5. CASE UNCHANGED vars
    BY <1>1, <2>5 DEF vars
  <2>6. device'.state = "AVAILABLE"
    BY <1>1, <2>1, <2>2, <2>3, <2>4, <2>5 DEF Next
  <2>7. QED
    BY <2>0, <2>6 DEF IInv, OpenDeviceIsSingle
<1>2. QED
  BY <1>1, Invariance, PTL DEF Spec, QueuedOnlyWhenAvailable

=============================================================================
