------------------------------- MODULE UsbProofs -------------------------------
(***************************************************************************)
(* Proofs about UsbSync, for any number of USB addresses and attachments,  *)
(* and whatever the application and the owner do meanwhile.                *)
(***************************************************************************)
EXTENDS UsbSync, ApplicationProofs, FunctionTheorems, FiniteSetTheorems

\* The types of the tasks and of what the client keeps, by name.
UsbSet == [latched : BOOLEAN, cancelRequested : BOOLEAN, revision : Nat,
           generation : 0..MaxAttach, expectPolite : BOOLEAN]
ScanSet == [pc : ScanPcs, slot : Slots, gen : Identities \union {0}, revision : Nat,
            soft : BOOLEAN, count : Nat]
TxnSet == [pc : TxnPcs, kind : WorkKinds, slot : Slots, gen : Identities \union {0},
           cancelled : BOOLEAN, passed : BOOLEAN, moved : BOOLEAN, ack : BOOLEAN,
           clean : BOOLEAN]
ClientSet == {"events", "control", "blocked", "inspect"}
ScanWork == Work({"SCAN"})
TxnWork == Work(WorkKinds)

LEMMA AdapterTypes ==
    /\ AdapterTypeOK <=>
          /\ bus \in [Slots -> BusStates] /\ dev \in [Slots -> Entry] /\ usb \in UsbSet
          /\ client \in ClientSet /\ ctl \in Seq(Requests)
          /\ scanq \in Seq(ScanWork) /\ scanres \in Seq(ScanWork)
          /\ txq \in Seq(TxnWork) /\ txres \in Seq(TxnWork)
          /\ scan \in ScanSet /\ txn \in TxnSet
    /\ AdapterTypeOK' <=>
          /\ bus' \in [Slots -> BusStates] /\ dev' \in [Slots -> Entry] /\ usb' \in UsbSet
          /\ client' \in ClientSet /\ ctl' \in Seq(Requests)
          /\ scanq' \in Seq(ScanWork) /\ scanres' \in Seq(ScanWork)
          /\ txq' \in Seq(TxnWork) /\ txres' \in Seq(TxnWork)
          /\ scan' \in ScanSet /\ txn' \in TxnSet
  BY DEF AdapterTypeOK, UsbSet, ScanSet, TxnSet, ClientSet, ScanWork, TxnWork

LEMMA AdapterFacts ==
    ASSUME AdapterIInv
    PROVE  /\ bus \in [Slots -> BusStates] /\ dev \in [Slots -> Entry] /\ usb \in UsbSet
           /\ client \in ClientSet /\ ctl \in Seq(Requests)
           /\ scanq \in Seq(ScanWork) /\ scanres \in Seq(ScanWork)
           /\ txq \in Seq(TxnWork) /\ txres \in Seq(TxnWork)
           /\ scan \in ScanSet /\ txn \in TxnSet
  BY AdapterTypes DEF AdapterIInv

(***************************************************************************)
(* Work on its way                                                         *)
(***************************************************************************)

\* The items of a queue for the attachment g at the address s, and the item in the
\* hands of a task.
Marks(q, s, g) == {i \in DOMAIN q : q[i].slot = s /\ q[i].gen = g}
Tally(q, s, g) == Cardinality(Marks(q, s, g))
Match(w, s, g) == IF w.slot = s /\ w.gen = g THEN 1 ELSE 0
Task(t, s, g) == IF t.pc # "idle" /\ t.slot = s /\ t.gen = g THEN 1 ELSE 0

LEMMA TallyNumber ==
    ASSUME NEW S, NEW q \in Seq(S), NEW s, NEW g
    PROVE  IsFiniteSet(Marks(q, s, g)) /\ Tally(q, s, g) \in Nat
<1>1. IsFiniteSet(1..Len(q)) BY FS_Interval
<1>2. Marks(q, s, g) \subseteq 1..Len(q) BY DEF Marks
<1>3. IsFiniteSet(Marks(q, s, g)) BY <1>1, <1>2, FS_Subset
<1>4. QED BY <1>3, FS_CardinalityType DEF Tally

LEMMA TallyNone ==
    ASSUME NEW S, NEW q \in Seq(S), NEW s, NEW g
    PROVE  Tally(q, s, g) = 0 <=> \A i \in DOMAIN q : ~(q[i].slot = s /\ q[i].gen = g)
<1>1. IsFiniteSet(Marks(q, s, g)) BY TallyNumber
<1>2. Tally(q, s, g) = 0 <=> Marks(q, s, g) = {} BY <1>1, FS_EmptySet DEF Tally
<1>3. QED BY <1>2 DEF Marks

LEMMA TallyEmpty == ASSUME NEW s, NEW g PROVE Tally(<<>>, s, g) = 0
<1>1. Marks(<<>>, s, g) = {} BY DEF Marks
<1>2. QED BY <1>1, FS_EmptySet DEF Tally

LEMMA TallyAppend ==
    ASSUME NEW S, NEW q \in Seq(S), NEW w \in S, NEW s, NEW g
    PROVE  Tally(Append(q, w), s, g) = Tally(q, s, g) + Match(w, s, g)
<1>1. /\ Append(q, w) \in Seq(S) /\ Len(Append(q, w)) = Len(q) + 1
      /\ \A i \in 1..Len(q) : Append(q, w)[i] = q[i]
      /\ Append(q, w)[Len(q) + 1] = w
      /\ DOMAIN q = 1..Len(q) /\ DOMAIN Append(q, w) = 1..Len(q) + 1
  OBVIOUS
<1>2. IsFiniteSet(Marks(q, s, g)) /\ Tally(q, s, g) \in Nat BY TallyNumber
<1>3. CASE w.slot = s /\ w.gen = g
  <2>1. Marks(Append(q, w), s, g) = Marks(q, s, g) \union {Len(q) + 1}
    BY <1>1, <1>3 DEF Marks
  <2>2. Len(q) + 1 \notin Marks(q, s, g) BY <1>1 DEF Marks
  <2>3. Tally(Append(q, w), s, g) = Tally(q, s, g) + 1
    BY <1>2, <2>1, <2>2, FS_AddElement DEF Tally
  <2>4. Match(w, s, g) = 1 BY <1>3 DEF Match
  <2>5. QED BY <2>3, <2>4
<1>4. CASE ~(w.slot = s /\ w.gen = g)
  <2>1. Marks(Append(q, w), s, g) = Marks(q, s, g) BY <1>1, <1>4 DEF Marks
  <2>2. Tally(Append(q, w), s, g) = Tally(q, s, g) BY <2>1 DEF Tally
  <2>3. Match(w, s, g) = 0 BY <1>4 DEF Match
  <2>4. QED BY <1>2, <2>2, <2>3
<1>5. QED BY <1>3, <1>4

LEMMA TallyTail ==
    ASSUME NEW S, NEW q \in Seq(S), q # <<>>, NEW s, NEW g
    PROVE  Tally(q, s, g) = Match(Head(q), s, g) + Tally(Tail(q), s, g)
<1>1. /\ Tail(q) \in Seq(S) /\ Len(Tail(q)) = Len(q) - 1 /\ Len(q) >= 1
      /\ \A i \in 1..Len(q) - 1 : Tail(q)[i] = q[i + 1]
      /\ Head(q) = q[1]
      /\ DOMAIN q = 1..Len(q) /\ DOMAIN Tail(q) = 1..Len(q) - 1
  OBVIOUS
<1> DEFINE rest == Marks(q, s, g) \ {1}
           shift == [i \in Marks(Tail(q), s, g) |-> i + 1]
<1>2. shift \in Bijection(Marks(Tail(q), s, g), rest)
  <2>1. \A i \in Marks(Tail(q), s, g) : i + 1 \in rest BY <1>1 DEF Marks
  <2>2. \A j \in rest : j - 1 \in Marks(Tail(q), s, g) BY <1>1 DEF Marks
  <2>3. Marks(Tail(q), s, g) \subseteq Nat /\ rest \subseteq Nat BY <1>1 DEF Marks
  <2> HIDE DEF rest
  <2>4. shift \in [Marks(Tail(q), s, g) -> rest] BY <2>1
  <2>5. \A a, b \in Marks(Tail(q), s, g) : shift[a] = shift[b] => a = b BY <2>3
  <2>6. \A j \in rest : \E i \in Marks(Tail(q), s, g) : shift[i] = j
    <3> SUFFICES ASSUME NEW j \in rest PROVE \E i \in Marks(Tail(q), s, g) : shift[i] = j
      OBVIOUS
    <3>1. j - 1 \in Marks(Tail(q), s, g) /\ j \in Nat BY <2>2, <2>3
    <3>2. shift[j - 1] = j BY <3>1
    <3>3. QED BY <3>1, <3>2
  <2>7. QED BY <2>4, <2>5, <2>6, Fun_IsBij
<1>3. IsFiniteSet(Marks(Tail(q), s, g)) /\ Tally(Tail(q), s, g) \in Nat
  BY <1>1, TallyNumber
<1>4. ExistsBijection(Marks(Tail(q), s, g), rest) BY <1>2 DEF ExistsBijection
<1>5. Cardinality(rest) = Tally(Tail(q), s, g)
  BY <1>3, <1>4, FS_Bijection DEF Tally
<1>6. IsFiniteSet(Marks(q, s, g)) /\ Tally(q, s, g) \in Nat BY TallyNumber
<1>7. CASE Head(q).slot = s /\ Head(q).gen = g
  <2>1. 1 \in Marks(q, s, g) BY <1>1, <1>7 DEF Marks
  <2>2. Cardinality(rest) = Tally(q, s, g) - 1
    BY <1>6, <2>1, FS_RemoveElement DEF Tally
  <2>3. Match(Head(q), s, g) = 1 BY <1>7 DEF Match
  <2>4. QED BY <1>3, <1>5, <1>6, <2>2, <2>3
<1>8. CASE ~(Head(q).slot = s /\ Head(q).gen = g)
  <2>1. rest = Marks(q, s, g) BY <1>1, <1>8 DEF Marks
  <2> HIDE DEF rest
  <2>2. Tally(q, s, g) = Tally(Tail(q), s, g) BY <1>5, <2>1 DEF Tally
  <2>3. Match(Head(q), s, g) = 0 BY <1>8 DEF Match
  <2>4. QED BY <1>3, <2>2, <2>3
<1>9. QED BY <1>7, <1>8

\* All that is on its way for an attachment.
Flow(a, b, c, d, t, u, s, g) ==
    Tally(a, s, g) + Tally(b, s, g) + Tally(c, s, g) + Tally(d, s, g)
        + Task(t, s, g) + Task(u, s, g)

LEMMA OutstandingIs ==
    ASSUME NEW s
    PROVE  /\ Outstanding(s) = Flow(scanq, scanres, txq, txres, scan, txn, s, dev[s].gen)
           /\ Outstanding(s)' =
                Flow(scanq', scanres', txq', txres', scan', txn', s, dev'[s].gen)
  BY DEF Outstanding, Count, InHand, Flow, Tally, Marks, Task

LEMMA FlowNumbers ==
    ASSUME AdapterIInv, NEW s, NEW g
    PROVE  /\ Tally(scanq, s, g) \in Nat /\ Tally(scanres, s, g) \in Nat
           /\ Tally(txq, s, g) \in Nat /\ Tally(txres, s, g) \in Nat
           /\ Task(scan, s, g) \in 0..1 /\ Task(txn, s, g) \in 0..1
<1>1. /\ scanq \in Seq(ScanWork) /\ scanres \in Seq(ScanWork)
      /\ txq \in Seq(TxnWork) /\ txres \in Seq(TxnWork)
  BY AdapterFacts
<1>2. /\ Tally(scanq, s, g) \in Nat /\ Tally(scanres, s, g) \in Nat
      /\ Tally(txq, s, g) \in Nat /\ Tally(txres, s, g) \in Nat
  BY <1>1, TallyNumber
<1>3. QED BY <1>2 DEF Task

\* Nothing is on its way for an attachment that has not been numbered.
LEMMA FlowNothing ==
    ASSUME AdapterIInv, NEW s, NEW g \in Nat, g = 0 \/ g > usb.generation
    PROVE  Flow(scanq, scanres, txq, txres, scan, txn, s, g) = 0
<1>1. usb.generation \in Nat BY AdapterFacts, AttachAssumption DEF UsbSet
<1>2. ASSUME NEW kinds, NEW q \in Seq(Work(kinds)), Dated(q)
      PROVE Tally(q, s, g) = 0
  <2>1. \A i \in DOMAIN q : q[i] \in Work(kinds) OBVIOUS
  <2>2. \A i \in DOMAIN q : q[i].gen \in 1..usb.generation
    BY <1>1, <1>2, <2>1, AttachAssumption DEF Work, Dated
  <2>3. \A i \in DOMAIN q : q[i].gen # g BY <1>1, <2>2
  <2>4. QED BY <2>3, TallyNone
<1>3. /\ Tally(scanq, s, g) = 0 /\ Tally(scanres, s, g) = 0
      /\ Tally(txq, s, g) = 0 /\ Tally(txres, s, g) = 0
  BY <1>2, AdapterFacts DEF AdapterIInv, WorkDated, ScanWork, TxnWork
<1>4. Task(scan, s, g) = 0 /\ Task(txn, s, g) = 0
  BY <1>1 DEF AdapterIInv, WorkDated, Task
<1>5. QED BY <1>3, <1>4 DEF Flow

(***************************************************************************)
(* The parts of the invariant in the steps that leave them alone           *)
(***************************************************************************)

\* A task keeps what it has in hand.
Keeps(old, new) == new.slot = old.slot /\ new.gen = old.gen /\ (new.pc = "idle" <=> old.pc = "idle")

\* The devices keep their handles, their numbers and their locks.
LEMMA WorkFrame ==
    ASSUME AdapterIInv, UNCHANGED <<scanq, scanres, txq, txres>>,
           Keeps(scan, scan'), Keeps(txn, txn'), usb'.generation = usb.generation,
           \A s \in Slots : /\ dev'[s].open = dev[s].open /\ dev'[s].busy = dev[s].busy
                            /\ dev'[s].gen = dev[s].gen
    PROVE  WorkAccounted' /\ WorkDated'
<1>1. \A s, g : Task(scan', s, g) = Task(scan, s, g) /\ Task(txn', s, g) = Task(txn, s, g)
  BY DEF Task, Keeps
<1>2. \A s, g : Flow(scanq', scanres', txq', txres', scan', txn', s, g)
                  = Flow(scanq, scanres, txq, txres, scan, txn, s, g)
  BY <1>1 DEF Flow
<1>3. \A s \in Slots : Outstanding(s)' = Outstanding(s) BY <1>2, OutstandingIs
<1>4. WorkAccounted' BY <1>3 DEF AdapterIInv, WorkAccounted
<1>5. WorkDated' BY DEF AdapterIInv, WorkDated, Dated, Keeps
<1>6. QED BY <1>4, <1>5

LEMMA PortFrame ==
    ASSUME AdapterIInv, bus' = bus, usb'.generation = usb.generation,
           \A s \in Slots : /\ dev'[s].open = dev[s].open /\ dev'[s].gen = dev[s].gen
                            /\ dev'[s].action = dev[s].action
    PROVE  AttachmentsNumbered'
  BY DEF AdapterIInv, AttachmentsNumbered, Arriving

LEMMA PinFrame ==
    ASSUME AdapterIInv, Keeps(txn, txn'),
           txn'.pc \notin {"idle", "result"} => txn.pc \notin {"idle", "result"},
           \A s \in Slots : dev'[s].open = dev[s].open /\ dev'[s].gen = dev[s].gen
    PROVE  PinnedTarget'
<1>1. txn.slot \in Slots BY AdapterFacts DEF TxnSet
<1>2. QED BY <1>1 DEF AdapterIInv, PinnedTarget, Keeps

LEMMA LatchFrame ==
    ASSUME AdapterIInv, usb'.latched => usb.latched,
           usb.cancelRequested => usb'.cancelRequested,
           scan.pc = "cancel" => scan'.pc = "cancel"
    PROVE  LatchedCancels'
  BY DEF AdapterIInv, LatchedCancels

LEMMA KeepsItself == ASSUME NEW t PROVE Keeps(t, t)
  BY DEF Keeps

\* The steps outside the adapter, and those that touch only the control queue, where
\* the client is in its loop, the flags and the numbers of its reports.
LEMMA QuietKeeps ==
    ASSUME AdapterIInv, UNCHANGED <<bus, dev, scanVars, txVars>>, usb' \in UsbSet,
           usb'.generation = usb.generation, usb'.latched => usb.latched,
           usb.cancelRequested => usb'.cancelRequested,
           ctl' \in Seq(Requests), client' \in ClientSet
    PROVE  AdapterIInv'
<1>1. UNCHANGED <<scanq, scan, scanres, txq, txn, txres>> BY DEF scanVars, txVars
<1>2. AdapterTypeOK' BY <1>1, AdapterFacts, AdapterTypes
<1>3. Keeps(scan, scan') /\ Keeps(txn, txn') BY <1>1, KeepsItself
<1>4. WorkAccounted' /\ WorkDated' BY <1>1, <1>3, WorkFrame
<1>5. AttachmentsNumbered' /\ PinnedTarget' /\ LatchedCancels'
  BY <1>1, <1>3, PortFrame, PinFrame, LatchFrame
<1>6. QED BY <1>2, <1>4, <1>5 DEF AdapterIInv

\* The steps of the descriptor task between taking a request and reporting.
LEMMA ScanStepKeeps ==
    ASSUME AdapterIInv, UNCHANGED <<bus, client, scanq, scanres, txVars>>,
           scan' \in ScanSet, Keeps(scan, scan'), ctl' \in Seq(Requests),
           dev' \in [Slots -> Entry],
           \A s \in Slots : /\ dev'[s].open = dev[s].open /\ dev'[s].busy = dev[s].busy
                            /\ dev'[s].gen = dev[s].gen /\ dev'[s].action = dev[s].action,
           usb' \in UsbSet, usb'.generation = usb.generation,
           \/ /\ usb'.latched = usb.latched /\ usb'.cancelRequested = usb.cancelRequested
              /\ scan.pc # "cancel"
           \/ usb'.cancelRequested
           \/ scan'.pc = "cancel"
    PROVE  AdapterIInv'
<1>1. UNCHANGED <<txq, txn, txres>> BY DEF txVars
<1>2. AdapterTypeOK' BY <1>1, AdapterFacts, AdapterTypes
<1>3. Keeps(txn, txn') BY <1>1, KeepsItself
<1>4. WorkAccounted' /\ WorkDated' BY <1>1, <1>3, WorkFrame
<1>5. AttachmentsNumbered' /\ PinnedTarget' BY <1>1, <1>3, PortFrame, PinFrame
<1>6. LatchedCancels' BY <1>1 DEF AdapterIInv, LatchedCancels
<1>7. QED BY <1>2, <1>4, <1>5, <1>6 DEF AdapterIInv

\* The steps of a session between its start and its report.
LEMMA TxnStepKeeps ==
    ASSUME AdapterIInv, UNCHANGED <<bus, usb, client, scanVars, txq, txres>>,
           txn' \in TxnSet, Keeps(txn, txn'), ctl' \in Seq(Requests),
           txn.pc \notin {"idle", "result"},
           dev' \in [Slots -> Entry],
           \A s \in Slots : /\ dev'[s].open = dev[s].open /\ dev'[s].busy = dev[s].busy
                            /\ dev'[s].gen = dev[s].gen /\ dev'[s].action = dev[s].action
    PROVE  AdapterIInv'
<1>1. UNCHANGED <<scanq, scan, scanres>> BY DEF scanVars
<1>2. AdapterTypeOK' BY <1>1, AdapterFacts, AdapterTypes
<1>3. Keeps(scan, scan') BY <1>1, KeepsItself
<1>4. WorkAccounted' /\ WorkDated' BY <1>1, <1>3, WorkFrame
<1>5. AttachmentsNumbered' /\ PinnedTarget' /\ LatchedCancels'
  BY <1>1, PortFrame, PinFrame, LatchFrame
<1>6. QED BY <1>2, <1>4, <1>5 DEF AdapterIInv

(***************************************************************************)
(* What the application sends to the control queue                         *)
(***************************************************************************)

LEMMA SentTypes ==
    ASSUME ctl \in Seq(Requests)
    PROVE  /\ ctl \o Sent \in Seq(Requests)
           /\ \A r \in Requests : Append(ctl, r) \in Seq(Requests)
           /\ ctl # <<>> => Tail(ctl) \in Seq(Requests) /\ Head(ctl) \in Requests
<1>1. "SYNC" \in Requests /\ "RECOVER" \in Requests /\ "CANCEL" \in Requests
  BY DEF Requests, WorkKinds
<1>2. Sent \in Seq(Requests) BY <1>1 DEF Sent
<1>3. ctl \o Sent \in Seq(Requests) BY <1>2
<1>4. QED BY <1>3

LEMMA UsbEventSends ==
    ASSUME ctl \in Seq(Requests), NEW ev, handle_usb_event(ev)
    PROVE  ctl' \in Seq(Requests)
<1>1. "IDENTITY" \in Requests BY DEF Requests, WorkKinds
<1>2. ctl' = ctl \/ ctl' = ctl \o Sent \/ ctl' = Append(ctl, "IDENTITY")
  BY DEF handle_usb_event
<1>3. QED BY <1>1, <1>2, SentTypes

LEMMA SyncEventSends ==
    ASSUME ctl \in Seq(Requests), NEW ev, NEW pending, main_handle_sync_event(ev, pending)
    PROVE  ctl' \in Seq(Requests)
<1>1. ctl' = ctl \/ ctl' = ctl \o Sent BY DEF main_handle_sync_event
<1>2. QED BY <1>1, SentTypes

(***************************************************************************)
(* The steps outside the adapter                                           *)
(***************************************************************************)

LEMMA MonitorKeeps ==
    ASSUME AdapterIInv, monitor_started
    PROVE  AdapterIInv'
<1>1. ctl' \in Seq(Requests) BY AdapterFacts, UsbEventSends DEF monitor_started
<1>2. UNCHANGED <<bus, dev, usb, client, scanVars, txVars>> BY DEF monitor_started
<1>3. QED BY <1>1, <1>2, AdapterFacts, QuietKeeps

LEMMA OwnerKeeps ==
    ASSUME AdapterIInv, owner_request \/ owner_cancel \/ OwnerStep
    PROVE  AdapterIInv'
<1>1. "SYNC" \in Requests /\ "CANCEL" \in Requests BY DEF Requests, WorkKinds
<1>2. ctl' = ctl \/ ctl' = Append(ctl, "SYNC") \/ ctl' = Append(ctl, "CANCEL")
  BY DEF owner_request, owner_cancel, OwnerStep, owner_request_recorded, owner_cancel_recorded
<1>3. ctl' \in Seq(Requests) BY <1>1, <1>2, AdapterFacts, SentTypes
<1>4. UNCHANGED <<bus, dev, usb, client, scanVars, txVars>>
  BY DEF owner_request, owner_cancel, OwnerStep, owner_request_recorded, owner_cancel_recorded
<1>5. QED BY <1>3, <1>4, AdapterFacts, QuietKeeps

LEMMA RetryKeeps ==
    ASSUME AdapterIInv, RetryStep
    PROVE  AdapterIInv'
<1>1. "SYNC" \in Requests BY DEF Requests, WorkKinds
<1>2. ctl' = ctl \/ ctl' = Append(ctl, "SYNC")
  BY DEF RetryStep, auto_sync_retry_task, retry_checks, retry_requests, retry_recorded
<1>3. ctl' \in Seq(Requests) BY <1>1, <1>2, AdapterFacts, SentTypes
<1>4. UNCHANGED <<bus, dev, usb, client, scanVars, txVars>>
  BY DEF RetryStep, auto_sync_retry_task, retry_checks, retry_requests, retry_recorded
<1>5. QED BY <1>3, <1>4, AdapterFacts, QuietKeeps

(***************************************************************************)
(* The control queue                                                       *)
(***************************************************************************)

LEMMA AcceptCancelKeeps ==
    ASSUME AdapterIInv, accept_cancel, ctl # <<>>
    PROVE  AdapterIInv'
<1>1. usb' \in UsbSet /\ usb'.generation = usb.generation /\ usb'.latched = usb.latched
      /\ usb'.cancelRequested
  BY AdapterFacts DEF accept_cancel, UsbSet
<1>2. ctl' \in Seq(Requests) BY AdapterFacts, SentTypes DEF accept_cancel
<1>3. UNCHANGED <<bus, dev, client, scanVars, txVars>> BY DEF accept_cancel
<1>4. QED BY <1>1, <1>2, <1>3, AdapterFacts, QuietKeeps

LEMMA DeferKeeps ==
    ASSUME AdapterIInv, defer_request, ctl # <<>>
    PROVE  AdapterIInv'
<1>1. Tail(ctl) \in Seq(Requests) /\ Head(ctl) \in Requests BY AdapterFacts, SentTypes
<1>2. ctl' = Tail(ctl) \/ ctl' = Append(Tail(ctl), Head(ctl)) BY DEF defer_request
<1>3. ctl' \in Seq(Requests) BY <1>1, <1>2
<1>4. client' \in ClientSet BY AdapterFacts DEF defer_request, ClientSet
<1>5. UNCHANGED <<bus, dev, usb, scanVars, txVars>> BY DEF defer_request
<1>6. QED BY <1>3, <1>4, <1>5, AdapterFacts, QuietKeeps

LEMMA RefuseKeeps ==
    ASSUME AdapterIInv, refuse_request, ctl # <<>>
    PROVE  AdapterIInv'
<1>1. ctl' \in Seq(Requests) BY AdapterFacts, SentTypes DEF refuse_request
<1>2. client' = client \/ client' = "blocked" BY DEF refuse_request
<1>3. client' \in ClientSet BY <1>2, AdapterFacts DEF ClientSet
<1>4. UNCHANGED <<bus, dev, usb, scanVars, txVars>> BY DEF refuse_request
<1>5. QED BY <1>1, <1>3, <1>4, AdapterFacts, QuietKeeps

LEMMA PublishedKeeps ==
    ASSUME AdapterIInv, refusal_published
    PROVE  AdapterIInv'
<1>1. client' \in ClientSet /\ UNCHANGED <<bus, dev, usb, ctl, scanVars, txVars>>
  BY DEF refusal_published, ClientSet
<1>2. QED BY <1>1, AdapterFacts, QuietKeeps

(***************************************************************************)
(* The bus and the client's callback                                       *)
(***************************************************************************)

\* The devices that wait to be seen on a bus.
Waiting(b) == {s \in Slots : b[s] = "arrived"}

LEMMA WaitingNumber ==
    ASSUME NEW b
    PROVE  IsFiniteSet(Waiting(b)) /\ Cardinality(Waiting(b)) \in Nat
<1>1. IsFiniteSet(1..NumSlots) BY SlotAssumption, FS_Interval
<1>2. IsFiniteSet(Waiting(b)) BY <1>1, FS_Subset DEF Waiting, Slots
<1>3. QED BY <1>2, FS_CardinalityType

LEMMA ArrivingIs ==
    /\ Arriving = Cardinality(Waiting(bus)) /\ Arriving' = Cardinality(Waiting(bus'))
    /\ Arriving \in Nat
<1>1. Arriving = Cardinality(Waiting(bus)) /\ Arriving' = Cardinality(Waiting(bus'))
  BY DEF Arriving, Waiting
<1>2. QED BY <1>1, WaitingNumber

LEMMA PlugKeeps ==
    ASSUME AdapterIInv, NEW s \in Slots, Plug(s)
    PROVE  AdapterIInv'
<1>1. UNCHANGED <<dev, usb, client, ctl, scanq, scan, scanres, txq, txn, txres>>
  BY DEF Plug, scanVars, txVars
<1>2. bus' \in [Slots -> BusStates] /\ \A t \in Slots : t # s => bus'[t] = bus[t]
  BY AdapterFacts DEF Plug, BusStates
<1>3. bus'[s] = "arrived" /\ bus[s] = "empty" BY AdapterFacts DEF Plug
<1>4. AdapterTypeOK' BY <1>1, <1>2, AdapterFacts, AdapterTypes
<1>5. Keeps(scan, scan') /\ Keeps(txn, txn') BY <1>1, KeepsItself
<1>6. WorkAccounted' /\ WorkDated' BY <1>1, <1>5, WorkFrame
<1>7. PinnedTarget' /\ LatchedCancels' BY <1>1, <1>5, PinFrame, LatchFrame
<1>8. AttachmentsNumbered'
  <2>1. Waiting(bus') = Waiting(bus) \union {s} /\ s \notin Waiting(bus)
    BY <1>2, <1>3 DEF Waiting
  <2>2. Arriving' = Arriving + 1 BY <2>1, ArrivingIs, WaitingNumber, FS_AddElement
  <2>3. usb.generation \in Nat BY AdapterFacts, AttachAssumption DEF UsbSet
  <2>4. usb.generation + Arriving < MaxAttach BY DEF Plug
  <2>5. usb'.generation + Arriving' <= MaxAttach
    BY <1>1, <2>2, <2>3, <2>4, ArrivingIs, AttachAssumption
  <2>6. ~dev[s].open /\ dev[s].action = "NONE" BY DEF Plug
  <2>7. QED BY <1>1, <1>2, <2>5, <2>6 DEF AdapterIInv, AttachmentsNumbered
<1>9. QED BY <1>4, <1>6, <1>7, <1>8 DEF AdapterIInv

LEMMA UnplugKeeps ==
    ASSUME AdapterIInv, NEW s \in Slots, Unplug(s)
    PROVE  AdapterIInv'
<1>1. UNCHANGED <<dev, usb, client, ctl, scanq, scan, scanres, txq, txn, txres>>
  BY DEF Unplug, scanVars, txVars
<1>2. bus' \in [Slots -> BusStates] /\ \A t \in Slots : t # s => bus'[t] = bus[t]
  BY AdapterFacts DEF Unplug, BusStates
<1>3. bus'[s] # "arrived" /\ bus[s] = "present" BY AdapterFacts DEF Unplug
<1>4. AdapterTypeOK' BY <1>1, <1>2, AdapterFacts, AdapterTypes
<1>5. Keeps(scan, scan') /\ Keeps(txn, txn') BY <1>1, KeepsItself
<1>6. WorkAccounted' /\ WorkDated' BY <1>1, <1>5, WorkFrame
<1>7. PinnedTarget' /\ LatchedCancels' BY <1>1, <1>5, PinFrame, LatchFrame
<1>8. AttachmentsNumbered'
  <2>1. Waiting(bus') = Waiting(bus) BY <1>2, <1>3 DEF Waiting
  <2>2. Arriving' = Arriving BY <2>1, ArrivingIs
  <2>3. QED BY <1>1, <1>2, <1>3, <2>2 DEF AdapterIInv, AttachmentsNumbered
<1>9. QED BY <1>4, <1>6, <1>7, <1>8 DEF AdapterIInv

LEMMA ArrivalKeeps ==
    ASSUME AdapterIInv, NEW s \in Slots, client_event_callback(s), bus[s] = "arrived"
    PROVE  AdapterIInv'
<1> DEFINE gen == usb.generation + 1
<1>1. /\ bus' = [bus EXCEPT ![s] = "present"]
      /\ usb' = [usb EXCEPT !.generation = gen]
      /\ dev' = [dev EXCEPT ![s] = [NoDevice EXCEPT !.gen = gen, !.action = "OPEN"]]
  BY DEF client_event_callback
<1>2. UNCHANGED <<client, ctl, scanq, scan, scanres, txq, txn, txres>>
  BY DEF client_event_callback, scanVars, txVars
<1>3. /\ bus' \in [Slots -> BusStates] /\ bus'[s] = "present"
      /\ \A t \in Slots : t # s => bus'[t] = bus[t]
  BY <1>1, AdapterFacts DEF BusStates
<1>4. Waiting(bus') = Waiting(bus) \ {s} /\ s \in Waiting(bus) BY <1>3 DEF Waiting
<1>5. Arriving' = Arriving - 1 /\ Arriving' \in Nat
  BY <1>4, ArrivingIs, WaitingNumber, FS_RemoveElement
<1>6. usb.generation \in Nat /\ usb.generation + Arriving <= MaxAttach
  BY AdapterFacts, AttachAssumption DEF UsbSet, AdapterIInv, AttachmentsNumbered
<1>7. gen \in 1..MaxAttach /\ gen > usb.generation /\ gen + Arriving' <= MaxAttach
  BY <1>5, <1>6, ArrivingIs, AttachAssumption
<1> HIDE DEF gen
<1>8. usb' \in UsbSet /\ usb'.generation = gen /\ usb'.latched = usb.latched
      /\ usb'.cancelRequested = usb.cancelRequested
  <2>1. gen \in 0..MaxAttach BY <1>7, AttachAssumption
  <2>2. usb \in UsbSet BY AdapterFacts
  <2>3. QED BY <1>1, <2>1, <2>2 DEF UsbSet
<1>9. [NoDevice EXCEPT !.gen = gen, !.action = "OPEN"] \in Entry
  BY <1>7, AttachAssumption DEF NoDevice, Entry
<1>10. /\ dev' \in [Slots -> Entry] /\ \A t \in Slots : t # s => dev'[t] = dev[t]
       /\ dev'[s] = [NoDevice EXCEPT !.gen = gen, !.action = "OPEN"]
  BY <1>1, <1>9, AdapterFacts
<1>11. ~dev'[s].open /\ dev'[s].action = "OPEN" /\ dev'[s].gen = gen
  BY <1>10 DEF NoDevice
<1>12. ~dev[s].open BY DEF AdapterIInv, AttachmentsNumbered
<1>13. AdapterTypeOK' BY <1>2, <1>3, <1>8, <1>10, AdapterFacts, AdapterTypes
<1>14. AttachmentsNumbered'
  <2>1. usb'.generation + Arriving' <= MaxAttach BY <1>7, <1>8
  <2>2. ASSUME NEW t \in Slots
        PROVE  /\ dev'[t].open \/ dev'[t].action = "OPEN" => dev'[t].gen \in 1..usb'.generation
               /\ dev'[t].action = "OPEN" => ~dev'[t].open
               /\ bus'[t] = "arrived" => ~dev'[t].open /\ dev'[t].action = "NONE"
    <3>1. CASE t = s BY <3>1, <1>3, <1>7, <1>8, <1>11
    <3>2. CASE t # s
      BY <3>2, <1>3, <1>6, <1>7, <1>8, <1>10 DEF AdapterIInv, AttachmentsNumbered
    <3>3. QED BY <3>1, <3>2
  <2>3. QED BY <2>1, <2>2 DEF AttachmentsNumbered
<1>15. WorkDated'
  <2>1. ASSUME NEW kinds, NEW q \in Seq(Work(kinds)), Dated(q)
        PROVE  \A i \in DOMAIN q : q[i].gen <= gen
    <3>1. \A i \in DOMAIN q : q[i] \in Work(kinds) OBVIOUS
    <3>2. QED BY <1>6, <1>7, <2>1, <3>1, AttachAssumption DEF Work, Dated
  <2>2. Dated(scanq)' /\ Dated(scanres)' /\ Dated(txq)' /\ Dated(txres)'
    BY <2>1, <1>2, <1>8, AdapterFacts DEF AdapterIInv, WorkDated, ScanWork, TxnWork, Dated
  <2>3. QED BY <2>2, <1>2, <1>6, <1>7, <1>8 DEF AdapterIInv, WorkDated
<1>16. WorkAccounted'
  <2>1. \A t \in Slots :
           Outstanding(t)' = Flow(scanq, scanres, txq, txres, scan, txn, t, dev'[t].gen)
    BY <1>2, OutstandingIs
  <2>2. Flow(scanq, scanres, txq, txres, scan, txn, s, dev'[s].gen) = 0
    BY <1>6, <1>7, <1>11, FlowNothing
  <2>3. \A t \in Slots : t # s => Outstanding(t)' = Outstanding(t)
    BY <1>10, <2>1, OutstandingIs
  <2>4. QED BY <1>10, <1>11, <2>1, <2>2, <2>3 DEF AdapterIInv, WorkAccounted
<1>17. PinnedTarget'
  <2>1. txn.slot \in Slots BY AdapterFacts DEF TxnSet
  <2>2. QED BY <1>2, <1>10, <1>12, <2>1 DEF AdapterIInv, PinnedTarget
<1>18. LatchedCancels' BY <1>2, <1>8, LatchFrame
<1>19. QED BY <1>13, <1>14, <1>15, <1>16, <1>17, <1>18 DEF AdapterIInv

LEMMA LeavingKeeps ==
    ASSUME AdapterIInv, NEW s \in Slots, client_event_callback(s), bus[s] # "arrived"
    PROVE  AdapterIInv'
<1>1. /\ bus[s] = "leaving" /\ bus' = [bus EXCEPT ![s] = "gone"]
      /\ dev' = [dev EXCEPT ![s].action = "CLOSE"] /\ usb' = usb
  BY DEF client_event_callback
<1>2. UNCHANGED <<client, ctl, scanq, scan, scanres, txq, txn, txres>>
  BY DEF client_event_callback, scanVars, txVars
<1>3. /\ bus' \in [Slots -> BusStates] /\ bus'[s] = "gone"
      /\ \A t \in Slots : t # s => bus'[t] = bus[t]
  BY <1>1, AdapterFacts DEF BusStates
<1>4. /\ dev' \in [Slots -> Entry] /\ dev'[s].action = "CLOSE"
      /\ \A t \in Slots : t # s => dev'[t] = dev[t]
      /\ \A t \in Slots : dev'[t].open = dev[t].open /\ dev'[t].busy = dev[t].busy
                          /\ dev'[t].gen = dev[t].gen
  <2>1. dev \in [Slots -> Entry] /\ dev[s] \in Entry BY AdapterFacts
  <2>2. [dev[s] EXCEPT !.action = "CLOSE"] \in Entry BY <2>1 DEF Entry
  <2>3. /\ dev' = [dev EXCEPT ![s] = [dev[s] EXCEPT !.action = "CLOSE"]]
        /\ dev' \in [Slots -> Entry]
    BY <1>1, <2>1, <2>2
  <2>4. dev'[s] = [dev[s] EXCEPT !.action = "CLOSE"] /\ \A t \in Slots : t # s => dev'[t] = dev[t]
    BY <2>1, <2>3
  <2>5. QED BY <2>1, <2>3, <2>4 DEF Entry
<1>5. AdapterTypeOK' BY <1>1, <1>2, <1>3, <1>4, AdapterFacts, AdapterTypes
<1>6. Keeps(scan, scan') /\ Keeps(txn, txn') BY <1>2, KeepsItself
<1>7. WorkAccounted' /\ WorkDated' BY <1>1, <1>2, <1>4, <1>6, WorkFrame
<1>8. PinnedTarget' /\ LatchedCancels' BY <1>1, <1>2, <1>4, <1>6, PinFrame, LatchFrame
<1>9. AttachmentsNumbered'
  <2>1. Waiting(bus') = Waiting(bus) BY <1>1, <1>3 DEF Waiting
  <2>2. Arriving' = Arriving BY <2>1, ArrivingIs
  <2>3. QED BY <1>1, <1>3, <1>4, <2>2 DEF AdapterIInv, AttachmentsNumbered
<1>10. QED BY <1>5, <1>7, <1>8, <1>9 DEF AdapterIInv

(***************************************************************************)
(* The pass of the client task                                             *)
(***************************************************************************)

\* An attachment with a result has nothing else on its way.
LEMMA CollectKeeps ==
    ASSUME AdapterIInv, collect_scan_results
    PROVE  AdapterIInv'
<1> DEFINE results == Range(scanres) \union Range(txres)
           reported(s) == \E w \in results : w.slot = s /\ w.gen = dev[s].gen
<1>1. dev' = [s \in Slots |-> IF reported(s) THEN [dev[s] EXCEPT !.busy = FALSE] ELSE dev[s]]
  BY DEF collect_scan_results
<1>2. /\ UNCHANGED <<bus, usb, ctl, scanq, scan, txq, txn>>
      /\ scanres' = <<>> /\ txres' = <<>> /\ client' = "control"
  BY DEF collect_scan_results
<1>3. \A s \in Slots : reported(s) <=> \/ Tally(scanres, s, dev[s].gen) # 0
                                       \/ Tally(txres, s, dev[s].gen) # 0
  <2>1. \A s, g : /\ Tally(scanres, s, g) = 0
                        <=> \A i \in DOMAIN scanres : ~(scanres[i].slot = s /\ scanres[i].gen = g)
                  /\ Tally(txres, s, g) = 0
                        <=> \A i \in DOMAIN txres : ~(txres[i].slot = s /\ txres[i].gen = g)
    BY AdapterFacts, TallyNone
  <2>2. QED BY <2>1 DEF Range
<1> HIDE DEF results, reported
<1>4. \A s \in Slots : /\ dev'[s] \in Entry /\ dev'[s].open = dev[s].open
                       /\ dev'[s].gen = dev[s].gen /\ dev'[s].action = dev[s].action
                       /\ dev'[s].busy = (dev[s].busy /\ ~reported(s))
  <2> SUFFICES ASSUME NEW s \in Slots
               PROVE  /\ dev'[s] \in Entry /\ dev'[s].open = dev[s].open
                      /\ dev'[s].gen = dev[s].gen /\ dev'[s].action = dev[s].action
                      /\ dev'[s].busy = (dev[s].busy /\ ~reported(s))
    OBVIOUS
  <2>1. dev[s] \in Entry BY AdapterFacts
  <2>2. CASE reported(s)
    <3>1. dev'[s] = [dev[s] EXCEPT !.busy = FALSE] BY <1>1, <2>2
    <3>2. QED BY <2>1, <2>2, <3>1 DEF Entry
  <2>3. CASE ~reported(s)
    <3>1. dev'[s] = dev[s] BY <1>1, <2>3
    <3>2. QED BY <2>1, <2>3, <3>1 DEF Entry
  <2>4. QED BY <2>2, <2>3
<1>5. dev' \in [Slots -> Entry] BY <1>1, <1>4
<1>6. AdapterTypeOK'
  BY <1>2, <1>5, AdapterFacts, AdapterTypes DEF ClientSet
<1>7. AttachmentsNumbered' BY <1>2, <1>4, PortFrame
<1>8. WorkDated' BY <1>2 DEF AdapterIInv, WorkDated, Dated
<1>9. PinnedTarget' BY <1>2, <1>4, KeepsItself, PinFrame
<1>10. LatchedCancels' BY <1>2, LatchFrame
<1>11. WorkAccounted'
  <2> SUFFICES ASSUME NEW s \in Slots
               PROVE  Outstanding(s)' = (IF dev'[s].open /\ dev'[s].busy THEN 1 ELSE 0)
    BY DEF WorkAccounted
  <2> DEFINE g == dev[s].gen
             rest == Tally(scanq, s, g) + Tally(txq, s, g) + Task(scan, s, g) + Task(txn, s, g)
             back == Tally(scanres, s, g) + Tally(txres, s, g)
  <2>1. /\ Tally(scanq, s, g) \in Nat /\ Tally(scanres, s, g) \in Nat
        /\ Tally(txq, s, g) \in Nat /\ Tally(txres, s, g) \in Nat
        /\ Task(scan, s, g) \in Nat /\ Task(txn, s, g) \in Nat
    BY FlowNumbers
  <2>2. Outstanding(s) = rest + back BY <2>1, OutstandingIs DEF Flow
  <2>3. Tally(<<>>, s, g) = 0 BY TallyEmpty
  <2>4. Outstanding(s)' = rest BY <1>2, <1>4, <2>1, <2>3, OutstandingIs DEF Flow
  <2>5. back # 0 <=> reported(s) BY <1>3, <2>1
  <2>6. rest \in Nat /\ back \in Nat BY <2>1
  <2> HIDE DEF g, rest, back
  <2>7. rest + back = (IF dev[s].open /\ dev[s].busy THEN 1 ELSE 0)
    BY <2>2 DEF AdapterIInv, WorkAccounted
  <2>8. CASE reported(s)
    <3>1. rest = 0 BY <2>5, <2>6, <2>7, <2>8
    <3>2. ~dev'[s].busy BY <1>4, <2>8
    <3>3. QED BY <2>4, <3>1, <3>2
  <2>9. CASE ~reported(s)
    <3>1. rest = rest + back BY <2>5, <2>6, <2>9
    <3>2. dev'[s].open = dev[s].open /\ dev'[s].busy = dev[s].busy
      <4>1. dev[s].busy \in BOOLEAN BY AdapterFacts DEF Entry
      <4>2. QED BY <4>1, <1>4, <2>9
    <3>3. QED BY <2>4, <2>7, <3>1, <3>2
  <2>10. QED BY <2>8, <2>9
<1>12. QED BY <1>6, <1>7, <1>8, <1>9, <1>10, <1>11 DEF AdapterIInv

LEMMA OpenKeeps ==
    ASSUME AdapterIInv, NEW s \in Slots, inspect_open(s), client' = client
    PROVE  AdapterIInv'
<1>1. dev[s].action = "OPEN" /\ ~dev[s].open /\ dev[s].gen \in 1..usb.generation
      /\ bus[s] # "arrived"
  BY DEF inspect_open, AdapterIInv, AttachmentsNumbered
<1>2. UNCHANGED <<bus, usb, ctl, scan, scanres, txq, txn, txres>>
  BY DEF inspect_open, txVars
<1>3. usb.generation \in Nat /\ usb.generation <= MaxAttach
  BY AdapterFacts, AttachAssumption DEF UsbSet
<1> DEFINE item == [kind |-> "SCAN", slot |-> s, gen |-> dev[s].gen]
<1>4. item \in ScanWork /\ item.slot = s /\ item.gen = dev[s].gen
  BY <1>1, <1>3, AttachAssumption DEF ScanWork, Work
<1> HIDE DEF item
<1>5. PinnedTarget' /\ AttachmentsNumbered' /\ LatchedCancels'
      /\ \A t \in Slots : t # s => dev'[t] = dev[t]
  <2>1. /\ dev'[s].action = "NONE" /\ dev'[s].gen = dev[s].gen
        /\ \A t \in Slots : t # s => dev'[t] = dev[t]
    BY AdapterFacts DEF inspect_open, Entry
  <2>2. AttachmentsNumbered'
    BY <1>1, <1>2, <2>1 DEF AdapterIInv, AttachmentsNumbered, Arriving
  <2>3. txn.slot \in Slots BY AdapterFacts DEF TxnSet
  <2>4. PinnedTarget' BY <1>1, <1>2, <2>1, <2>3 DEF AdapterIInv, PinnedTarget
  <2>5. LatchedCancels' BY <1>2, LatchFrame
  <2>6. QED BY <2>1, <2>2, <2>4, <2>5
<1>6. CASE /\ dev' = [dev EXCEPT ![s].action = "NONE", ![s].open = TRUE, ![s].busy = TRUE]
           /\ scanq' = Append(scanq, item)
  <2>1. /\ dev' \in [Slots -> Entry] /\ dev'[s].open /\ dev'[s].busy
        /\ dev'[s].gen = dev[s].gen
    <3>1. dev[s] \in Entry /\ dev \in [Slots -> Entry] BY AdapterFacts
    <3>2. dev' = [dev EXCEPT ![s] = [dev[s] EXCEPT !.action = "NONE", !.open = TRUE,
                                                   !.busy = TRUE]]
      BY <1>6, <3>1 DEF Entry
    <3>3. [dev[s] EXCEPT !.action = "NONE", !.open = TRUE, !.busy = TRUE] \in Entry
      BY <3>1 DEF Entry
    <3>4. QED BY <3>1, <3>2, <3>3 DEF Entry
  <2>2. scanq \in Seq(ScanWork) BY AdapterFacts
  <2>3. scanq' \in Seq(ScanWork) BY <1>4, <1>6, <2>2
  <2>4. AdapterTypeOK' BY <1>2, <2>1, <2>3, AdapterFacts, AdapterTypes
  <2>5. WorkDated'
    <3>1. \A i \in DOMAIN scanq' : scanq'[i] = item \/ (i \in DOMAIN scanq /\ scanq'[i] = scanq[i])
      BY <1>4, <1>6, <2>2
    <3>2. Dated(scanq)'
      BY <1>1, <1>2, <1>4, <3>1 DEF AdapterIInv, WorkDated, Dated
    <3>3. QED BY <1>2, <3>2 DEF AdapterIInv, WorkDated, Dated
  <2>6. WorkAccounted'
    <3> SUFFICES ASSUME NEW t \in Slots
                 PROVE  Outstanding(t)' = (IF dev'[t].open /\ dev'[t].busy THEN 1 ELSE 0)
      BY DEF WorkAccounted
    <3>1. dev'[t].gen = dev[t].gen BY <1>5, <2>1
    <3>2. Tally(scanq', t, dev[t].gen) = Tally(scanq, t, dev[t].gen) + Match(item, t, dev[t].gen)
      BY <1>4, <1>6, <2>2, TallyAppend
    <3>3. Outstanding(t)' = Outstanding(t) + Match(item, t, dev[t].gen)
      <4>1. Match(item, t, dev[t].gen) \in Nat BY DEF Match
      <4>2. QED BY <1>2, <3>1, <3>2, <4>1, FlowNumbers, OutstandingIs DEF Flow
    <3>4. CASE t = s
      <4>1. Outstanding(t) = 0 BY <1>1, <3>4 DEF AdapterIInv, WorkAccounted
      <4>2. Match(item, t, dev[t].gen) = 1 BY <1>4, <3>4 DEF Match
      <4>3. QED BY <2>1, <3>3, <3>4, <4>1, <4>2
    <3>5. CASE t # s
      <4>1. Match(item, t, dev[t].gen) = 0 BY <1>4, <3>5 DEF Match
      <4>2. Outstanding(t) = (IF dev[t].open /\ dev[t].busy THEN 1 ELSE 0)
        BY DEF AdapterIInv, WorkAccounted
      <4>3. QED BY <1>5, <3>3, <3>5, <4>1, <4>2
    <3>6. QED BY <3>4, <3>5
  <2>7. QED BY <1>5, <2>4, <2>5, <2>6 DEF AdapterIInv
<1>7. CASE dev' = [dev EXCEPT ![s].action = "NONE"] /\ scanq' = scanq
  <2>1. /\ dev' \in [Slots -> Entry]
        /\ \A t \in Slots : /\ dev'[t].open = dev[t].open /\ dev'[t].busy = dev[t].busy
                            /\ dev'[t].gen = dev[t].gen
    <3>1. dev \in [Slots -> Entry] /\ dev[s] \in Entry BY AdapterFacts
    <3>2. [dev[s] EXCEPT !.action = "NONE"] \in Entry BY <3>1 DEF Entry
    <3>3. /\ dev' = [dev EXCEPT ![s] = [dev[s] EXCEPT !.action = "NONE"]]
          /\ dev' \in [Slots -> Entry]
      BY <1>7, <3>1, <3>2
    <3>4. /\ dev'[s] = [dev[s] EXCEPT !.action = "NONE"]
          /\ \A t \in Slots : t # s => dev'[t] = dev[t]
      BY <3>1, <3>3
    <3>5. QED BY <3>1, <3>3, <3>4 DEF Entry
  <2>2. AdapterTypeOK' BY <1>2, <1>7, <2>1, AdapterFacts, AdapterTypes
  <2>3. Keeps(scan, scan') /\ Keeps(txn, txn') BY <1>2, KeepsItself
  <2>4. WorkAccounted' /\ WorkDated' BY <1>2, <1>7, <2>1, <2>3, WorkFrame
  <2>5. QED BY <1>5, <2>2, <2>4 DEF AdapterIInv
<1>8. QED BY <1>6, <1>7 DEF inspect_open, item

LEMMA CloseKeeps ==
    ASSUME AdapterIInv, NEW s \in Slots, inspect_close(s), client' = client
    PROVE  AdapterIInv'
<1>1. dev[s].action = "CLOSE" /\ dev[s].open /\ ~dev[s].busy
  BY DEF inspect_close, Closable
<1>2. UNCHANGED <<scanq, scan, scanres, txq, txn, txres>>
  BY DEF inspect_close, scanVars, txVars
<1>3. /\ dev' \in [Slots -> Entry] /\ dev'[s] = NoDevice
      /\ \A t \in Slots : t # s => dev'[t] = dev[t]
  <2>1. NoDevice \in Entry BY DEF NoDevice, Entry
  <2>2. QED BY <2>1, AdapterFacts DEF inspect_close
<1>4. /\ bus' \in [Slots -> BusStates] /\ bus'[s] = "empty"
      /\ \A t \in Slots : t # s => bus'[t] = bus[t]
  BY AdapterFacts DEF inspect_close, BusStates
<1>5. bus[s] # "arrived" BY <1>1 DEF AdapterIInv, AttachmentsNumbered
<1>6. usb' \in UsbSet /\ usb'.generation = usb.generation /\ (usb'.latched => usb.latched)
      /\ usb'.cancelRequested = usb.cancelRequested
  <2> DEFINE revision == IF dev[s].accessport THEN usb.revision + 1 ELSE usb.revision
             polite == usb.expectPolite \/ (dev[s].accessport /\ dev[s].polite)
             latched == usb.latched /\ eligible_accessport_count(dev') # 0
  <2>1. usb' = [usb EXCEPT !.revision = revision, !.expectPolite = polite, !.latched = latched]
    BY DEF inspect_close
  <2>2. usb \in UsbSet BY AdapterFacts
  <2>3. revision \in Nat /\ polite \in BOOLEAN /\ latched \in BOOLEAN /\ (latched => usb.latched)
    BY <2>2 DEF UsbSet
  <2> HIDE DEF revision, polite, latched
  <2>4. QED BY <2>1, <2>2, <2>3 DEF UsbSet
<1>7. ctl' \in Seq(Requests)
  <2>1. ctl' = ctl \/ \E ev : handle_usb_event(ev) BY DEF inspect_close
  <2>2. QED BY <2>1, AdapterFacts, UsbEventSends
<1>8. AdapterTypeOK' BY <1>2, <1>3, <1>4, <1>6, <1>7, AdapterFacts, AdapterTypes
<1>9. Outstanding(s) = 0 BY <1>1 DEF AdapterIInv, WorkAccounted
<1>10. AttachmentsNumbered'
  <2>1. Waiting(bus') = Waiting(bus) BY <1>4, <1>5 DEF Waiting
  <2>2. Arriving' = Arriving BY <2>1, ArrivingIs
  <2>3. ~dev'[s].open /\ dev'[s].action = "NONE" BY <1>3 DEF NoDevice
  <2>4. QED BY <1>3, <1>4, <1>6, <2>2, <2>3 DEF AdapterIInv, AttachmentsNumbered
<1>11. WorkDated' BY <1>2, <1>6 DEF AdapterIInv, WorkDated, Dated
<1>12. WorkAccounted'
  <2> SUFFICES ASSUME NEW t \in Slots
               PROVE  Outstanding(t)' = (IF dev'[t].open /\ dev'[t].busy THEN 1 ELSE 0)
    BY DEF WorkAccounted
  <2>1. CASE t = s
    <3>1. dev'[t].gen = 0 /\ ~dev'[t].open BY <1>3, <2>1 DEF NoDevice
    <3>2. Flow(scanq, scanres, txq, txres, scan, txn, t, 0) = 0 BY FlowNothing
    <3>3. QED BY <1>2, <3>1, <3>2, OutstandingIs
  <2>2. CASE t # s
    <3>1. dev'[t] = dev[t] BY <1>3, <2>2
    <3>2. Outstanding(t)' = Outstanding(t) BY <1>2, <3>1, OutstandingIs
    <3>3. QED BY <3>1, <3>2 DEF AdapterIInv, WorkAccounted
  <2>3. QED BY <2>1, <2>2
<1>13. PinnedTarget'
  <2> SUFFICES ASSUME txn.pc \notin {"idle", "result"}
               PROVE  dev'[txn.slot].open /\ dev'[txn.slot].gen = txn.gen
    BY <1>2 DEF PinnedTarget
  <2>1. dev[txn.slot].open /\ dev[txn.slot].gen = txn.gen /\ txn.slot \in Slots
    BY AdapterFacts DEF AdapterIInv, PinnedTarget, TxnSet
  <2>2. txn.slot # s
    <3> SUFFICES ASSUME txn.slot = s PROVE FALSE OBVIOUS
    <3>1. Task(txn, s, dev[s].gen) = 1 BY <2>1 DEF Task
    <3>2. QED BY <1>9, <3>1, FlowNumbers, OutstandingIs DEF Flow
  <2>3. QED BY <1>3, <2>1, <2>2
<1>14. LatchedCancels' BY <1>2, <1>6, LatchFrame
<1>15. QED BY <1>8, <1>10, <1>11, <1>12, <1>13, <1>14 DEF AdapterIInv

LEMMA InspectKeeps ==
    ASSUME AdapterIInv, inspect_pending_devices
    PROVE  AdapterIInv'
<1>1. CASE Pending = {}
  <2>1. client' = "events" /\ UNCHANGED <<bus, dev, usb, ctl, scanVars, txVars>>
    BY <1>1 DEF inspect_pending_devices
  <2>2. QED BY <2>1, AdapterFacts, QuietKeeps DEF ClientSet
<1>2. CASE Pending # {}
  <2>1. PICK s \in Pending : inspect_open(s) \/ inspect_close(s)
    BY <1>2 DEF inspect_pending_devices
  <2>2. client' = client /\ s \in Slots BY <1>2 DEF inspect_pending_devices, Pending
  <2>3. QED BY <2>1, <2>2, OpenKeeps, CloseKeeps
<1>3. QED BY <1>1, <1>2

\* Only a device with nothing on its way is given a session.
LEMMA DispatchKeeps ==
    ASSUME AdapterIInv, dispatch_request, ctl # <<>>, client = "control"
    PROVE  AdapterIInv'
<1>1. PICK s \in Slots :
         /\ Selectable(s) /\ dev' = [dev EXCEPT ![s].busy = TRUE]
         /\ txq' = Append(txq, [kind |-> Head(ctl), slot |-> s, gen |-> dev[s].gen])
  BY DEF dispatch_request
<1>2. /\ UNCHANGED <<bus, client, scanq, scan, scanres, txn, txres>>
      /\ usb' = [usb EXCEPT !.cancelRequested = FALSE] /\ ctl' = Tail(ctl)
      /\ ~usb.latched
  BY DEF dispatch_request, scanVars, Single
<1>3. dev[s].open /\ ~dev[s].busy BY <1>1 DEF Selectable, Live
<1>4. usb.generation \in Nat /\ usb.generation <= MaxAttach
  BY AdapterFacts, AttachAssumption DEF UsbSet
<1>5. dev[s].gen \in 1..usb.generation BY <1>3 DEF AdapterIInv, AttachmentsNumbered
<1> DEFINE item == [kind |-> Head(ctl), slot |-> s, gen |-> dev[s].gen]
<1>6. item \in TxnWork /\ item.slot = s /\ item.gen = dev[s].gen
  <2>1. Head(ctl) \in Requests /\ Head(ctl) # "CANCEL"
    BY AdapterFacts, SentTypes DEF dispatch_request
  <2>2. Head(ctl) \in WorkKinds BY <2>1 DEF Requests
  <2>3. QED BY <1>4, <1>5, <2>2, AttachAssumption DEF TxnWork, Work
<1>7. txq' = Append(txq, item) BY <1>1
<1> HIDE DEF item
<1>8. usb' \in UsbSet /\ usb'.generation = usb.generation /\ ~usb'.latched
  BY <1>2, AdapterFacts DEF UsbSet
<1>9. ctl' \in Seq(Requests) BY <1>2, AdapterFacts, SentTypes
<1>10. /\ dev' \in [Slots -> Entry] /\ dev'[s].busy
       /\ \A t \in Slots : t # s => dev'[t] = dev[t]
       /\ \A t \in Slots : /\ dev'[t].open = dev[t].open /\ dev'[t].gen = dev[t].gen
                           /\ dev'[t].action = dev[t].action
  <2>1. dev \in [Slots -> Entry] /\ dev[s] \in Entry BY AdapterFacts
  <2>2. [dev[s] EXCEPT !.busy = TRUE] \in Entry BY <2>1 DEF Entry
  <2>3. dev' = [dev EXCEPT ![s] = [dev[s] EXCEPT !.busy = TRUE]] BY <1>1, <2>1 DEF Entry
  <2>4. QED BY <2>1, <2>2, <2>3 DEF Entry
<1>11. txq \in Seq(TxnWork) BY AdapterFacts
<1>12. txq' \in Seq(TxnWork) BY <1>6, <1>7, <1>11
<1>13. AdapterTypeOK' BY <1>2, <1>8, <1>9, <1>10, <1>12, AdapterFacts, AdapterTypes
<1>14. AttachmentsNumbered' BY <1>2, <1>8, <1>10, PortFrame
<1>15. WorkDated'
  <2>1. \A i \in DOMAIN txq' : txq'[i] = item \/ (i \in DOMAIN txq /\ txq'[i] = txq[i])
    BY <1>6, <1>7, <1>11
  <2>2. Dated(txq)'
    BY <1>4, <1>5, <1>6, <1>8, <2>1 DEF AdapterIInv, WorkDated, Dated
  <2>3. QED BY <1>2, <1>8, <2>2 DEF AdapterIInv, WorkDated, Dated
<1>16. WorkAccounted'
  <2> SUFFICES ASSUME NEW t \in Slots
               PROVE  Outstanding(t)' = (IF dev'[t].open /\ dev'[t].busy THEN 1 ELSE 0)
    BY DEF WorkAccounted
  <2>1. dev'[t].gen = dev[t].gen BY <1>10
  <2>2. Tally(txq', t, dev[t].gen) = Tally(txq, t, dev[t].gen) + Match(item, t, dev[t].gen)
    BY <1>6, <1>7, <1>11, TallyAppend
  <2>3. Outstanding(t)' = Outstanding(t) + Match(item, t, dev[t].gen)
    <3>1. Match(item, t, dev[t].gen) \in Nat BY DEF Match
    <3>2. /\ Outstanding(t) = Flow(scanq, scanres, txq, txres, scan, txn, t, dev[t].gen)
          /\ Outstanding(t)' = Flow(scanq, scanres, txq', txres, scan, txn, t, dev[t].gen)
      BY <1>2, <2>1, OutstandingIs
    <3>3. /\ Tally(scanq, t, dev[t].gen) \in Nat /\ Tally(scanres, t, dev[t].gen) \in Nat
          /\ Tally(txq, t, dev[t].gen) \in Nat /\ Tally(txres, t, dev[t].gen) \in Nat
          /\ Task(scan, t, dev[t].gen) \in Nat /\ Task(txn, t, dev[t].gen) \in Nat
      BY FlowNumbers
    <3>4. QED BY <2>2, <3>1, <3>2, <3>3 DEF Flow
  <2>4. CASE t = s
    <3>1. Outstanding(t) = 0 BY <1>3, <2>4 DEF AdapterIInv, WorkAccounted
    <3>2. Match(item, t, dev[t].gen) = 1 BY <1>6, <2>4 DEF Match
    <3>3. dev'[t].open /\ dev'[t].busy BY <1>3, <1>10, <2>4
    <3>4. QED BY <2>3, <3>1, <3>2, <3>3
  <2>5. CASE t # s
    <3>1. Match(item, t, dev[t].gen) = 0 BY <1>6, <2>5 DEF Match
    <3>2. Outstanding(t) = (IF dev[t].open /\ dev[t].busy THEN 1 ELSE 0)
      BY DEF AdapterIInv, WorkAccounted
    <3>3. QED BY <1>10, <2>3, <2>5, <3>1, <3>2
  <2>6. QED BY <2>4, <2>5
<1>17. PinnedTarget' BY <1>2, <1>10, KeepsItself, PinFrame
<1>18. LatchedCancels' BY <1>8 DEF LatchedCancels
<1>19. QED BY <1>13, <1>14, <1>15, <1>16, <1>17, <1>18 DEF AdapterIInv

LEMMA ControlKeeps ==
    ASSUME AdapterIInv, process_control_requests
    PROVE  AdapterIInv'
<1>1. CASE ctl = <<>> /\ client' = "inspect" /\ UNCHANGED <<bus, dev, usb, ctl, scanVars, txVars>>
  BY <1>1, AdapterFacts, QuietKeeps DEF ClientSet
<1>2. CASE ctl # <<>> /\ accept_cancel BY <1>2, AcceptCancelKeeps
<1>3. CASE ctl # <<>> /\ defer_request BY <1>3, DeferKeeps
<1>4. CASE ctl # <<>> /\ refuse_request BY <1>4, RefuseKeeps
<1>5. CASE ctl # <<>> /\ dispatch_request
  BY <1>5, DispatchKeeps DEF process_control_requests
<1>6. QED BY <1>1, <1>2, <1>3, <1>4, <1>5 DEF process_control_requests

LEMMA ClientKeeps ==
    ASSUME AdapterIInv, ClientStep
    PROVE  AdapterIInv'
<1>1. ASSUME NEW s \in Slots, client_event_callback(s) PROVE AdapterIInv'
  BY <1>1, ArrivalKeeps, LeavingKeeps
<1>2. QED
  BY <1>1, CollectKeeps, ControlKeeps, PublishedKeeps, InspectKeeps DEF ClientStep

(***************************************************************************)
(* Work taken from a queue and reported                                    *)
(***************************************************************************)

LEMMA TakeDated ==
    ASSUME AdapterIInv, NEW kinds, NEW q \in Seq(Work(kinds)), q # <<>>, Dated(q)
    PROVE  /\ Head(q) \in Work(kinds) /\ Head(q).slot \in Slots
           /\ Head(q).gen \in Identities /\ Head(q).gen \in 1..usb.generation
           /\ Tail(q) \in Seq(Work(kinds))
           /\ \A i \in DOMAIN Tail(q) : Tail(q)[i].gen <= usb.generation
<1>1. /\ Tail(q) \in Seq(Work(kinds)) /\ Head(q) \in Work(kinds) /\ Head(q) = q[1]
      /\ 1 \in DOMAIN q
      /\ \A i \in DOMAIN Tail(q) : i + 1 \in DOMAIN q /\ Tail(q)[i] = q[i + 1]
  OBVIOUS
<1>2. Head(q).slot \in Slots /\ Head(q).gen \in Identities BY <1>1 DEF Work
<1>3. Head(q).gen <= usb.generation /\ usb.generation \in Nat
  BY <1>1, AdapterFacts, AttachAssumption DEF Dated, UsbSet
<1>4. Head(q).gen \in 1..usb.generation BY <1>2, <1>3, AttachAssumption
<1>5. \A i \in DOMAIN Tail(q) : Tail(q)[i].gen <= usb.generation BY <1>1 DEF Dated
<1>6. QED BY <1>1, <1>2, <1>4, <1>5

LEMMA PutDated ==
    ASSUME NEW kinds, NEW q \in Seq(Work(kinds)), Dated(q),
           NEW w \in Work(kinds), w.gen <= usb.generation
    PROVE  /\ Append(q, w) \in Seq(Work(kinds))
           /\ \A i \in DOMAIN Append(q, w) : Append(q, w)[i].gen <= usb.generation
<1>1. /\ Append(q, w) \in Seq(Work(kinds))
      /\ \A i \in DOMAIN Append(q, w) : \/ Append(q, w)[i] = w
                                        \/ i \in DOMAIN q /\ Append(q, w)[i] = q[i]
  OBVIOUS
<1>2. QED BY <1>1 DEF Dated

\* A step that only moves work along leaves what is on its way as it was.
LEMMA MoveFrame ==
    ASSUME AdapterIInv, dev' = dev,
           \A s, g : Flow(scanq', scanres', txq', txres', scan', txn', s, g)
                        = Flow(scanq, scanres, txq, txres, scan, txn, s, g)
    PROVE  WorkAccounted'
<1>1. \A s \in Slots : Outstanding(s)' = Outstanding(s) BY OutstandingIs
<1>2. QED BY <1>1 DEF AdapterIInv, WorkAccounted

LEMMA ScanReceiveKeeps ==
    ASSUME AdapterIInv, scan_receive
    PROVE  AdapterIInv'
<1>1. /\ UNCHANGED <<bus, dev, usb, client, ctl, scanres, txq, txn, txres>>
      /\ scan.pc = "idle" /\ scanq # <<>> /\ scanq' = Tail(scanq)
      /\ scan' = [ScanIdle EXCEPT !.pc = "read", !.slot = Head(scanq).slot,
                                  !.gen = Head(scanq).gen]
  BY DEF scan_receive, ScanRuns, txVars
<1>2. /\ Head(scanq).slot \in Slots /\ Head(scanq).gen \in Identities
      /\ Head(scanq).gen \in 1..usb.generation /\ scanq' \in Seq(ScanWork)
      /\ \A i \in DOMAIN scanq' : scanq'[i].gen <= usb.generation
  BY <1>1, AdapterFacts, TakeDated DEF AdapterIInv, WorkDated, ScanWork
<1>3. /\ scan' \in ScanSet /\ scan'.pc = "read" /\ scan'.slot = Head(scanq).slot
      /\ scan'.gen = Head(scanq).gen
  BY <1>1, <1>2 DEF ScanIdle, ScanSet, ScanPcs
<1>4. AdapterTypeOK' BY <1>1, <1>2, <1>3, AdapterFacts, AdapterTypes
<1>5. WorkDated' BY <1>1, <1>2, <1>3 DEF AdapterIInv, WorkDated, Dated
<1>6. ASSUME NEW s, NEW g
      PROVE  Flow(scanq', scanres', txq', txres', scan', txn', s, g)
                = Flow(scanq, scanres, txq, txres, scan, txn, s, g)
  <2>1. Tally(scanq, s, g) = Match(Head(scanq), s, g) + Tally(scanq', s, g)
    BY <1>1, AdapterFacts, TallyTail
  <2>2. Task(scan', s, g) = Match(Head(scanq), s, g) /\ Task(scan, s, g) = 0
    BY <1>1, <1>3 DEF Task, Match
  <2>3. Match(Head(scanq), s, g) \in Nat BY DEF Match
  <2>4. Tally(scanq', s, g) \in Nat BY <1>2, TallyNumber
  <2>5. QED BY <1>1, <2>1, <2>2, <2>3, <2>4, FlowNumbers DEF Flow
<1>7. WorkAccounted' BY <1>1, <1>6, MoveFrame
<1>8. AttachmentsNumbered' /\ PinnedTarget' /\ LatchedCancels'
  BY <1>1, KeepsItself, PortFrame, PinFrame, LatchFrame
<1>9. QED BY <1>4, <1>5, <1>7, <1>8 DEF AdapterIInv

LEMMA ScanResultKeeps ==
    ASSUME AdapterIInv, scan_result
    PROVE  AdapterIInv'
<1> DEFINE item == [kind |-> "SCAN", slot |-> scan.slot, gen |-> scan.gen]
<1>1. /\ UNCHANGED <<bus, dev, usb, client, ctl, scanq, txq, txn, txres>>
      /\ scan.pc = "done" /\ scanres' = Append(scanres, item) /\ scan' = ScanIdle
  BY DEF scan_result, ScanRuns, txVars
<1>2. scan.slot \in Slots /\ scan.gen \in Identities /\ scan.gen <= usb.generation
  <2>1. scan.slot \in Slots /\ scan.gen \in Identities \union {0} /\ usb.generation \in Nat
    BY AdapterFacts, AttachAssumption DEF ScanSet, UsbSet
  <2>2. scan.gen \in 1..usb.generation BY <1>1 DEF AdapterIInv, WorkDated
  <2>3. QED BY <2>1, <2>2
<1>3. item \in ScanWork /\ item.slot = scan.slot /\ item.gen = scan.gen
  BY <1>2 DEF ScanWork, Work
<1> HIDE DEF item
<1>4. /\ scanres' \in Seq(ScanWork)
      /\ \A i \in DOMAIN scanres' : scanres'[i].gen <= usb.generation
  BY <1>1, <1>2, <1>3, AdapterFacts, PutDated DEF AdapterIInv, WorkDated, ScanWork
<1>5. scan' \in ScanSet /\ scan'.pc = "idle"
  BY <1>1, SlotAssumption DEF ScanIdle, ScanSet, ScanPcs, Slots
<1>6. AdapterTypeOK' BY <1>1, <1>4, <1>5, AdapterFacts, AdapterTypes
<1>7. WorkDated' BY <1>1, <1>4, <1>5 DEF AdapterIInv, WorkDated, Dated
<1>8. ASSUME NEW s, NEW g
      PROVE  Flow(scanq', scanres', txq', txres', scan', txn', s, g)
                = Flow(scanq, scanres, txq, txres, scan, txn, s, g)
  <2>1. Tally(scanres', s, g) = Tally(scanres, s, g) + Match(item, s, g)
    BY <1>1, <1>3, AdapterFacts, TallyAppend
  <2>2. Task(scan, s, g) = Match(item, s, g) /\ Task(scan', s, g) = 0
    BY <1>1, <1>3, <1>5 DEF Task, Match
  <2>3. Match(item, s, g) \in Nat BY DEF Match
  <2>4. QED BY <1>1, <2>1, <2>2, <2>3, FlowNumbers DEF Flow
<1>9. WorkAccounted' BY <1>1, <1>8, MoveFrame
<1>10. AttachmentsNumbered' /\ PinnedTarget' /\ LatchedCancels'
  BY <1>1, KeepsItself, PortFrame, PinFrame, LatchFrame
<1>11. QED BY <1>6, <1>7, <1>9, <1>10 DEF AdapterIInv

LEMMA TxnReceiveKeeps ==
    ASSUME AdapterIInv, txn_receive
    PROVE  AdapterIInv'
<1> DEFINE pc == IF StaleWork(Head(txq)) THEN "result" ELSE "start"
<1>1. /\ UNCHANGED <<bus, dev, usb, client, scanq, scan, scanres, txres>>
      /\ txn.pc = "idle" /\ txq # <<>> /\ txq' = Tail(txq)
      /\ txn' = [[TxnIdle EXCEPT !.kind = Head(txq).kind, !.slot = Head(txq).slot,
                                 !.gen = Head(txq).gen] EXCEPT !.pc = pc]
  BY DEF txn_receive, TxnRuns, scanVars
<1>2. /\ Head(txq).slot \in Slots /\ Head(txq).gen \in Identities /\ Head(txq).kind \in WorkKinds
      /\ Head(txq).gen \in 1..usb.generation /\ txq' \in Seq(TxnWork)
      /\ \A i \in DOMAIN txq' : txq'[i].gen <= usb.generation
  BY <1>1, AdapterFacts, TakeDated DEF AdapterIInv, WorkDated, TxnWork, Work
<1>3. pc \in {"start", "result"}
      /\ (pc = "start" => /\ dev[Head(txq).slot].open /\ dev[Head(txq).slot].gen = Head(txq).gen
                          /\ ~usb.latched)
  BY DEF StaleWork, Single
<1> HIDE DEF pc
<1>4. /\ txn' \in TxnSet /\ txn'.pc = pc /\ txn'.slot = Head(txq).slot
      /\ txn'.gen = Head(txq).gen
  BY <1>1, <1>2, <1>3 DEF TxnIdle, TxnSet, TxnPcs
<1>5. ctl' \in Seq(Requests)
  <2>1. ctl' = ctl \/ \E ev : main_handle_sync_event(ev, FALSE) BY DEF txn_receive
  <2>2. QED BY <2>1, AdapterFacts, SyncEventSends
<1>6. AdapterTypeOK' BY <1>1, <1>2, <1>4, <1>5, AdapterFacts, AdapterTypes
<1>7. WorkDated' BY <1>1, <1>2, <1>4 DEF AdapterIInv, WorkDated, Dated
<1>8. ASSUME NEW s, NEW g
      PROVE  Flow(scanq', scanres', txq', txres', scan', txn', s, g)
                = Flow(scanq, scanres, txq, txres, scan, txn, s, g)
  <2>1. Tally(txq, s, g) = Match(Head(txq), s, g) + Tally(txq', s, g)
    BY <1>1, AdapterFacts, TallyTail
  <2>2. Task(txn', s, g) = Match(Head(txq), s, g) /\ Task(txn, s, g) = 0
    BY <1>1, <1>3, <1>4 DEF Task, Match
  <2>3. Match(Head(txq), s, g) \in Nat BY DEF Match
  <2>4. Tally(txq', s, g) \in Nat BY <1>2, TallyNumber
  <2>5. /\ Tally(scanq, s, g) \in Nat /\ Tally(scanres, s, g) \in Nat
        /\ Tally(txq, s, g) \in Nat /\ Tally(txres, s, g) \in Nat
        /\ Task(scan, s, g) \in Nat /\ Task(txn, s, g) \in Nat
    BY FlowNumbers
  <2>6. Task(txn', s, g) + Tally(txq', s, g) = Task(txn, s, g) + Tally(txq, s, g)
    BY <2>1, <2>2, <2>3, <2>4
  <2>7. Task(txn', s, g) \in Nat BY <2>2, <2>3
  <2>8. Flow(scanq', scanres', txq', txres', scan', txn', s, g)
           = Flow(scanq, scanres, txq', txres, scan, txn', s, g)
    BY <1>1
  <2>9. Flow(scanq, scanres, txq', txres, scan, txn', s, g)
           = Flow(scanq, scanres, txq, txres, scan, txn, s, g)
    BY <2>4, <2>5, <2>6, <2>7 DEF Flow
  <2>10. QED BY <2>8, <2>9
<1>9. WorkAccounted' BY <1>1, <1>8, MoveFrame
<1>10. AttachmentsNumbered' BY <1>1, PortFrame
<1>11. PinnedTarget' BY <1>1, <1>3, <1>4 DEF PinnedTarget
<1>12. LatchedCancels' BY <1>1, LatchFrame
<1>13. QED BY <1>6, <1>7, <1>9, <1>10, <1>11, <1>12 DEF AdapterIInv

LEMMA TxnResultKeeps ==
    ASSUME AdapterIInv, txn_result
    PROVE  AdapterIInv'
<1> DEFINE item == [kind |-> txn.kind, slot |-> txn.slot, gen |-> txn.gen]
<1>1. /\ UNCHANGED <<bus, dev, usb, client, ctl, scanq, scan, scanres, txq>>
      /\ txn.pc = "result" /\ txres' = Append(txres, item) /\ txn' = TxnIdle
  BY DEF txn_result, TxnRuns, scanVars
<1>2. /\ txn.slot \in Slots /\ txn.gen \in Identities /\ txn.gen <= usb.generation
      /\ txn.kind \in WorkKinds
  <2>1. /\ txn.slot \in Slots /\ txn.gen \in Identities \union {0} /\ usb.generation \in Nat
        /\ txn.kind \in WorkKinds
    BY AdapterFacts, AttachAssumption DEF TxnSet, UsbSet
  <2>2. txn.gen \in 1..usb.generation BY <1>1 DEF AdapterIInv, WorkDated
  <2>3. QED BY <2>1, <2>2
<1>3. item \in TxnWork /\ item.slot = txn.slot /\ item.gen = txn.gen
  BY <1>2 DEF TxnWork, Work
<1> HIDE DEF item
<1>4. /\ txres' \in Seq(TxnWork)
      /\ \A i \in DOMAIN txres' : txres'[i].gen <= usb.generation
  BY <1>1, <1>2, <1>3, AdapterFacts, PutDated DEF AdapterIInv, WorkDated, TxnWork
<1>5. txn' \in TxnSet /\ txn'.pc = "idle"
  BY <1>1, SlotAssumption DEF TxnIdle, TxnSet, TxnPcs, WorkKinds, Slots
<1>6. AdapterTypeOK' BY <1>1, <1>4, <1>5, AdapterFacts, AdapterTypes
<1>7. WorkDated' BY <1>1, <1>4, <1>5 DEF AdapterIInv, WorkDated, Dated
<1>8. ASSUME NEW s, NEW g
      PROVE  Flow(scanq', scanres', txq', txres', scan', txn', s, g)
                = Flow(scanq, scanres, txq, txres, scan, txn, s, g)
  <2>1. Tally(txres', s, g) = Tally(txres, s, g) + Match(item, s, g)
    BY <1>1, <1>3, AdapterFacts, TallyAppend
  <2>2. Task(txn, s, g) = Match(item, s, g) /\ Task(txn', s, g) = 0
    BY <1>1, <1>3, <1>5 DEF Task, Match
  <2>3. Match(item, s, g) \in Nat BY DEF Match
  <2>4. /\ Tally(scanq, s, g) \in Nat /\ Tally(scanres, s, g) \in Nat
        /\ Tally(txq, s, g) \in Nat /\ Tally(txres, s, g) \in Nat
        /\ Task(scan, s, g) \in Nat /\ Task(txn, s, g) \in Nat
    BY FlowNumbers
  <2>5. QED BY <1>1, <2>1, <2>2, <2>3, <2>4 DEF Flow
<1>9. WorkAccounted' BY <1>1, <1>8, MoveFrame
<1>10. AttachmentsNumbered' BY <1>1, PortFrame
<1>11. PinnedTarget' /\ LatchedCancels' BY <1>1, <1>5, LatchFrame DEF PinnedTarget
<1>12. QED BY <1>6, <1>7, <1>9, <1>10, <1>11 DEF AdapterIInv

(***************************************************************************)
(* The descriptor task                                                     *)
(***************************************************************************)

LEMMA CountNumber == eligible_accessport_count(dev) \in Nat
<1>1. IsFiniteSet(1..NumSlots) BY SlotAssumption, FS_Interval
<1>2. IsFiniteSet({s \in Slots : Live(dev[s])}) BY <1>1, FS_Subset DEF Slots
<1>3. QED BY <1>2, FS_CardinalityType DEF eligible_accessport_count

LEMMA ScanDoneKeeps ==
    ASSUME scan \in ScanSet, scan.pc # "idle"
    PROVE  ScanDone \in ScanSet /\ Keeps(scan, ScanDone)
  BY DEF ScanDone, ScanIdle, ScanSet, ScanPcs, Keeps

LEMMA ScanReadKeeps ==
    ASSUME AdapterIInv, NEW verdict, NEW soft \in BOOLEAN, scan_read(verdict, soft)
    PROVE  AdapterIInv'
<1>1. scan \in ScanSet /\ scan.slot \in Slots /\ scan.pc = "read" /\ dev[scan.slot] \in Entry
      /\ dev \in [Slots -> Entry] /\ usb \in UsbSet
  BY AdapterFacts DEF scan_read, ScanSet
<1>2. UNCHANGED <<bus, client, ctl, scanq, scanres, txVars>> BY DEF scan_read, ScanRuns
<1>3. CASE verdict = "other"
  <2>1. scan' = ScanDone /\ UNCHANGED <<dev, usb>> BY <1>3 DEF scan_read
  <2>2. scan' \in ScanSet /\ Keeps(scan, scan') BY <1>1, <2>1, ScanDoneKeeps
  <2>3. QED BY <1>1, <1>2, <2>1, <2>2, AdapterFacts, ScanStepKeeps
<1>4. CASE verdict # "other"
  <2> DEFINE match == verdict = "match"
             entry == [dev[scan.slot] EXCEPT !.accessport = TRUE, !.eligible = match]
             seen == IF match THEN usb.revision + 1 ELSE usb.revision
             revision == IF match THEN usb.revision + 1 ELSE 0
             pc == IF match THEN "count" ELSE "attach_unmatched"
  <2>1. match \in BOOLEAN OBVIOUS
  <2>2. usb' = [usb EXCEPT !.expectPolite = FALSE, !.revision = seen]
        /\ scan' = [scan EXCEPT !.soft = soft, !.revision = revision, !.pc = pc]
    BY <1>1, <1>4 DEF scan_read, UsbSet
  <2>3. dev' = [dev EXCEPT ![scan.slot].accessport = TRUE, ![scan.slot].eligible = match]
    BY <1>4 DEF scan_read
  <2> HIDE DEF match
  <2>4. seen \in Nat /\ revision \in Nat /\ pc \in ScanPcs /\ pc # "idle"
    BY <1>1 DEF UsbSet, ScanPcs
  <2>5. entry \in Entry /\ entry.open = dev[scan.slot].open /\ entry.busy = dev[scan.slot].busy
        /\ entry.gen = dev[scan.slot].gen /\ entry.action = dev[scan.slot].action
    BY <1>1, <2>1 DEF Entry
  <2>6. dev' = [dev EXCEPT ![scan.slot] = entry] BY <1>1, <2>3 DEF Entry
  <2> HIDE DEF entry, seen, revision, pc
  <2>7. /\ dev' \in [Slots -> Entry]
        /\ \A s \in Slots : /\ dev'[s].open = dev[s].open /\ dev'[s].busy = dev[s].busy
                            /\ dev'[s].gen = dev[s].gen /\ dev'[s].action = dev[s].action
    BY <1>1, <2>5, <2>6
  <2>8. /\ usb' \in UsbSet /\ usb'.generation = usb.generation /\ usb'.latched = usb.latched
        /\ usb'.cancelRequested = usb.cancelRequested
    BY <1>1, <2>2, <2>4 DEF UsbSet
  <2>9. scan' \in ScanSet /\ Keeps(scan, scan')
    BY <1>1, <2>2, <2>4 DEF ScanSet, Keeps
  <2>10. ctl' \in Seq(Requests) BY <1>2, AdapterFacts
  <2>11. QED BY <1>1, <1>2, <2>7, <2>8, <2>9, <2>10, ScanStepKeeps
<1>5. QED BY <1>3, <1>4

LEMMA ScanCountKeeps ==
    ASSUME AdapterIInv, scan_count
    PROVE  AdapterIInv'
<1>1. UNCHANGED <<bus, client, dev, usb, ctl, scanq, scanres, txVars>>
  BY DEF scan_count, ScanRuns
<1>2. scan' \in ScanSet /\ Keeps(scan, scan') /\ scan.pc = "count"
  BY AdapterFacts DEF scan_count, ScanSet, ScanPcs, Keeps
<1>3. QED BY <1>1, <1>2, AdapterFacts, ScanStepKeeps

\* The latch goes up first, then the cancel flag.
LEMMA MultipleKeeps ==
    ASSUME AdapterIInv, publish_multiple_accessports
    PROVE  AdapterIInv'
<1>1. UNCHANGED <<bus, client, dev, ctl, scanq, scanres, txVars>>
  BY DEF publish_multiple_accessports, ScanRuns
<1>2. scan \in ScanSet /\ usb \in UsbSet /\ scan.pc = "multiple"
  BY AdapterFacts DEF publish_multiple_accessports
<1> DEFINE count == eligible_accessport_count(dev)
<1>3. count \in Nat BY CountNumber
<1>4. CASE count < 2
  <2>1. scan' = ScanDone /\ UNCHANGED usb BY <1>4 DEF publish_multiple_accessports
  <2>2. scan' \in ScanSet /\ Keeps(scan, scan') BY <1>2, <2>1, ScanDoneKeeps
  <2>3. QED BY <1>1, <1>2, <2>1, <2>2, AdapterFacts, ScanStepKeeps
<1>5. CASE ~(count < 2)
  <2>1. /\ usb' = [usb EXCEPT !.latched = TRUE]
        /\ scan' = [scan EXCEPT !.pc = "cancel", !.count = count]
    BY <1>5 DEF publish_multiple_accessports
  <2> HIDE DEF count
  <2>2. usb' \in UsbSet /\ usb'.generation = usb.generation BY <1>2, <2>1 DEF UsbSet
  <2>3. scan' \in ScanSet /\ Keeps(scan, scan') /\ scan'.pc = "cancel"
    BY <1>2, <1>3, <2>1 DEF ScanSet, ScanPcs, Keeps
  <2>4. QED BY <1>1, <2>2, <2>3, AdapterFacts, ScanStepKeeps
<1>6. QED BY <1>4, <1>5

LEMMA RaiseCancelKeeps ==
    ASSUME AdapterIInv, raise_cancel
    PROVE  AdapterIInv'
<1>1. UNCHANGED <<bus, client, dev, ctl, scanq, scanres, txVars>> BY DEF raise_cancel, ScanRuns
<1>2. scan \in ScanSet /\ usb \in UsbSet BY AdapterFacts
<1>3. usb.revision \in Nat BY <1>2 DEF UsbSet
<1>4. usb' \in UsbSet /\ usb'.generation = usb.generation /\ usb'.cancelRequested
  BY <1>2 DEF raise_cancel, UsbSet
<1>5. scan' \in ScanSet /\ Keeps(scan, scan')
  BY <1>2, <1>3 DEF raise_cancel, ScanSet, ScanPcs, Keeps
<1>6. QED BY <1>1, <1>4, <1>5, AdapterFacts, ScanStepKeeps

LEMMA ScanPublishKeeps ==
    ASSUME AdapterIInv, scan_publish
    PROVE  AdapterIInv'
<1>1. UNCHANGED <<bus, client, dev, usb, scanq, scanres, txVars>>
  BY DEF scan_publish, ScanRuns
<1>2. scan \in ScanSet /\ scan.pc \notin {"idle", "cancel"} BY AdapterFacts DEF scan_publish
<1>3. ctl' \in Seq(Requests)
  <2>1. ctl' = ctl \/ handle_usb_event(ScanEvent) BY DEF scan_publish
  <2>2. QED BY <2>1, AdapterFacts, UsbEventSends
<1>4. \/ scan' = ScanDone
      \/ scan.pc = "attach" /\ scan' = [scan EXCEPT !.pc = "accept"]
      \/ scan.pc = "attach_unmatched" /\ scan' = [scan EXCEPT !.pc = "fail"]
  BY DEF scan_publish
<1>5. scan' \in ScanSet /\ Keeps(scan, scan')
  BY <1>2, <1>4, ScanDoneKeeps DEF ScanSet, ScanPcs, Keeps
<1>6. QED BY <1>1, <1>2, <1>3, <1>5, AdapterFacts, ScanStepKeeps

LEMMA DescriptorKeeps ==
    ASSUME AdapterIInv, DescriptorStep
    PROVE  AdapterIInv'
  BY ScanReceiveKeeps, ScanReadKeeps, ScanCountKeeps, MultipleKeeps, RaiseCancelKeeps,
     ScanPublishKeeps, ScanResultKeeps DEF DescriptorStep

(***************************************************************************)
(* The transaction task                                                    *)
(***************************************************************************)

LEMMA TxnDoneKeeps ==
    ASSUME txn \in TxnSet, txn.pc # "idle"
    PROVE  TxnDone \in TxnSet /\ Keeps(txn, TxnDone) /\ TxnDone.pc = "result"
  BY DEF TxnDone, TxnIdle, TxnSet, TxnPcs, Keeps

LEMMA TxnStartKeeps ==
    ASSUME AdapterIInv, txn_start
    PROVE  AdapterIInv'
<1>1. UNCHANGED <<bus, client, dev, usb, scanVars, txq, txres>> BY DEF txn_start, TxnRuns
<1>2. txn.pc = "start" /\ txn' \in TxnSet /\ Keeps(txn, txn')
  BY AdapterFacts DEF txn_start, TxnSet, TxnPcs, Keeps
<1>3. ctl' = ctl \/ \E ev : main_handle_sync_event(ev, FALSE) BY DEF txn_start
<1>4. ctl' \in Seq(Requests) BY <1>3, AdapterFacts, SyncEventSends
<1>5. QED BY <1>1, <1>2, <1>4, AdapterFacts, TxnStepKeeps

LEMMA TxnClaimKeeps ==
    ASSUME AdapterIInv, NEW ok \in BOOLEAN, txn_claim(ok)
    PROVE  AdapterIInv'
<1>1. UNCHANGED <<bus, client, dev, usb, scanVars, txq, txres>> BY DEF txn_claim, TxnRuns
<1>2. txn \in TxnSet /\ txn.pc = "claim" BY AdapterFacts DEF txn_claim
<1>3. txn' = [txn EXCEPT !.pc = "check"] \/ txn' = TxnDone BY DEF txn_claim
<1>4. txn' \in TxnSet /\ Keeps(txn, txn')
  BY <1>2, <1>3, TxnDoneKeeps DEF TxnSet, TxnPcs, Keeps
<1>5. \/ ctl' = ctl \/ \E ev : handle_usb_event(ev)
      \/ \E ev : main_handle_sync_event(ev, FALSE)
  BY DEF txn_claim
<1>6. ctl' \in Seq(Requests) BY <1>5, AdapterFacts, UsbEventSends, SyncEventSends
<1>7. QED BY <1>1, <1>2, <1>4, <1>6, AdapterFacts, TxnStepKeeps

LEMMA TxnSessionKeeps ==
    ASSUME AdapterIInv,
           \/ txn_check \/ txn_cleanup
           \/ \E result \in {"failed", "more", "last"}, moved \in BOOLEAN : txn_data(result, moved)
    PROVE  AdapterIInv'
<1>1. UNCHANGED <<bus, client, dev, usb, ctl, scanVars, txq, txres>>
  BY DEF txn_check, txn_cleanup, txn_data, TxnRuns
<1>2. txn \in TxnSet /\ usb.cancelRequested \in BOOLEAN BY AdapterFacts DEF UsbSet
<1>3. CASE txn_check
  <2> DEFINE pc == IF usb.cancelRequested THEN "cleanup" ELSE "data"
  <2>1. txn.pc = "check" /\ txn' = [txn EXCEPT !.cancelled = usb.cancelRequested, !.pc = pc]
    BY <1>3 DEF txn_check
  <2>2. pc \in {"cleanup", "data"} OBVIOUS
  <2> HIDE DEF pc
  <2>3. txn' \in TxnSet /\ Keeps(txn, txn') /\ txn'.pc \in {"cleanup", "data"}
    BY <1>2, <2>1, <2>2 DEF TxnSet, TxnPcs, Keeps
  <2>4. QED BY <1>1, <2>1, <2>3, AdapterFacts, TxnStepKeeps
<1>4. CASE txn_cleanup
  <2> DEFINE cancelled == txn.cancelled \/ usb.cancelRequested
  <2>1. txn.pc = "cleanup" /\ txn' = [txn EXCEPT !.pc = "close", !.cancelled = cancelled]
    BY <1>4 DEF txn_cleanup
  <2>2. cancelled \in BOOLEAN BY <1>2 DEF TxnSet
  <2> HIDE DEF cancelled
  <2>3. txn' \in TxnSet /\ Keeps(txn, txn') /\ txn'.pc = "close"
    BY <1>2, <2>1, <2>2 DEF TxnSet, TxnPcs, Keeps
  <2>4. QED BY <1>1, <2>1, <2>3, AdapterFacts, TxnStepKeeps
<1>5. ASSUME NEW result \in {"failed", "more", "last"}, NEW moved \in BOOLEAN,
             txn_data(result, moved)
      PROVE  AdapterIInv'
  <2> DEFINE pc == IF result = "more" THEN "check" ELSE "cleanup"
             last == result = "last"
             files == txn.moved \/ moved
  <2>1. txn.pc = "data" /\ txn' = [txn EXCEPT !.pc = pc, !.passed = last, !.moved = files]
    BY <1>2, <1>5 DEF txn_data, TxnSet
  <2>2. pc \in {"check", "cleanup"} /\ last \in BOOLEAN /\ files \in BOOLEAN BY <1>2 DEF TxnSet
  <2> HIDE DEF pc, last, files
  <2>3. txn' \in TxnSet /\ Keeps(txn, txn') /\ txn'.pc \in {"check", "cleanup"}
    BY <1>2, <2>1, <2>2 DEF TxnSet, TxnPcs, Keeps
  <2>4. QED BY <1>1, <2>1, <2>3, AdapterFacts, TxnStepKeeps
<1>6. QED BY <1>3, <1>4, <1>5

LEMMA TxnCloseKeeps ==
    ASSUME AdapterIInv, NEW sent \in BOOLEAN, NEW ack \in BOOLEAN, NEW released \in BOOLEAN,
           txn_close(sent, ack, released)
    PROVE  AdapterIInv'
<1>1. UNCHANGED <<bus, client, usb, ctl, scanVars, txq, txres>> BY DEF txn_close, TxnRuns
<1>2. txn \in TxnSet /\ txn.slot \in Slots /\ dev \in [Slots -> Entry]
  BY AdapterFacts DEF TxnSet
<1> DEFINE clean == ack /\ released
<1>3. /\ txn.pc = "close" /\ dev' = [dev EXCEPT ![txn.slot].polite = sent]
      /\ txn' = [txn EXCEPT !.pc = "closed", !.ack = ack, !.clean = clean]
  BY DEF txn_close
<1>4. clean \in BOOLEAN OBVIOUS
<1> HIDE DEF clean
<1>5. txn' \in TxnSet /\ Keeps(txn, txn') /\ txn'.pc = "closed"
  BY <1>2, <1>3, <1>4 DEF TxnSet, TxnPcs, Keeps
<1>6. /\ dev' \in [Slots -> Entry]
      /\ \A s \in Slots : /\ dev'[s].open = dev[s].open /\ dev'[s].busy = dev[s].busy
                          /\ dev'[s].gen = dev[s].gen /\ dev'[s].action = dev[s].action
  BY <1>2, <1>3 DEF Entry
<1>7. QED BY <1>1, <1>3, <1>5, <1>6, AdapterFacts, TxnStepKeeps

LEMMA TxnReportKeeps ==
    ASSUME AdapterIInv, txn_closed \/ \E pending \in BOOLEAN : txn_report(pending)
    PROVE  AdapterIInv'
<1>1. UNCHANGED <<bus, client, dev, usb, scanVars, txq, txres>>
  BY DEF txn_closed, txn_report, TxnRuns
<1>2. txn \in TxnSet /\ txn.pc \in {"closed", "report"}
  BY AdapterFacts DEF txn_closed, txn_report
<1>3. txn' = [txn EXCEPT !.pc = "report"] \/ txn' = TxnDone BY DEF txn_closed, txn_report
<1>4. txn' \in TxnSet /\ Keeps(txn, txn') /\ txn'.pc \in {"report", "result"}
  BY <1>2, <1>3, TxnDoneKeeps DEF TxnSet, TxnPcs, Keeps
<1>5. \/ ctl' = ctl \/ \E ev : handle_usb_event(ev)
      \/ \E ev, pending : main_handle_sync_event(ev, pending)
  BY DEF txn_closed, txn_report
<1>6. ctl' \in Seq(Requests) BY <1>5, AdapterFacts, UsbEventSends, SyncEventSends
<1>7. QED BY <1>1, <1>2, <1>4, <1>6, AdapterFacts, TxnStepKeeps

LEMMA TransactionKeeps ==
    ASSUME AdapterIInv, TransactionStep
    PROVE  AdapterIInv'
  BY TxnReceiveKeeps, TxnStartKeeps, TxnClaimKeeps, TxnSessionKeeps, TxnCloseKeeps,
     TxnReportKeeps, TxnResultKeeps DEF TransactionStep

(***************************************************************************)
(* The theorems                                                            *)
(***************************************************************************)

LEMMA AdapterStarts ==
    ASSUME UsbInit
    PROVE  AdapterIInv
<1>1. AdapterTypeOK
  <2>1. bus \in [Slots -> BusStates] BY DEF UsbInit, BusStates
  <2>2. dev \in [Slots -> Entry] BY DEF UsbInit, NoDevice, Entry
  <2>3. usb \in UsbSet BY AttachAssumption DEF UsbInit, UsbSet
  <2>4. scan \in ScanSet BY SlotAssumption DEF UsbInit, ScanIdle, ScanSet, ScanPcs, Slots
  <2>5. txn \in TxnSet BY SlotAssumption DEF UsbInit, TxnIdle, TxnSet, TxnPcs, WorkKinds, Slots
  <2>6. client \in ClientSet /\ ctl = <<>> /\ scanq = <<>> /\ scanres = <<>> /\ txq = <<>>
        /\ txres = <<>>
    BY DEF UsbInit, ClientSet
  <2>7. QED BY <2>1, <2>2, <2>3, <2>4, <2>5, <2>6, AdapterTypes
<1>2. AttachmentsNumbered
  <2>1. Waiting(bus) = {} BY DEF UsbInit, Waiting
  <2>2. Arriving = 0 BY <2>1, ArrivingIs, FS_EmptySet
  <2>3. QED BY <2>2, AttachAssumption DEF UsbInit, AttachmentsNumbered, NoDevice
<1>3. WorkDated BY DEF UsbInit, WorkDated, Dated, ScanIdle, TxnIdle
<1>4. WorkAccounted
  <2> SUFFICES ASSUME NEW s \in Slots
               PROVE  Outstanding(s) = (IF dev[s].open /\ dev[s].busy THEN 1 ELSE 0)
    BY DEF WorkAccounted
  <2>1. Tally(<<>>, s, dev[s].gen) = 0 BY TallyEmpty
  <2>2. Task(scan, s, dev[s].gen) = 0 /\ Task(txn, s, dev[s].gen) = 0
    BY DEF UsbInit, Task, ScanIdle, TxnIdle
  <2>3. scanq = <<>> /\ scanres = <<>> /\ txq = <<>> /\ txres = <<>> BY DEF UsbInit
  <2>4. Outstanding(s) = 0 BY <2>1, <2>2, <2>3, OutstandingIs DEF Flow
  <2>5. QED BY <2>4 DEF UsbInit, NoDevice
<1>5. PinnedTarget /\ LatchedCancels BY DEF UsbInit, PinnedTarget, LatchedCancels, TxnIdle
<1>6. QED BY <1>1, <1>2, <1>3, <1>4, <1>5 DEF AdapterIInv

LEMMA AdapterSteps ==
    ASSUME AdapterIInv, [UsbNext]_usbVars
    PROVE  AdapterIInv'
<1>1. CASE UNCHANGED usbVars
  <2>1. UNCHANGED <<bus, dev, usb, client, ctl, scanVars, txVars>> BY <1>1 DEF usbVars
  <2>2. QED BY <2>1, AdapterFacts, QuietKeeps
<1>2. CASE UsbNext
  BY <1>2, MonitorKeeps, PlugKeeps, UnplugKeeps, ClientKeeps, DescriptorKeeps,
     TransactionKeeps, OwnerKeeps, RetryKeeps DEF UsbNext
<1>3. QED BY <1>1, <1>2

\* The adapter's account of its devices, of the work on its way and of the session it
\* runs holds always (revlink_accessport_usb.c).
THEOREM AdapterInvariance == UsbSpec => []AdapterIInv
<1>1. UsbInit => AdapterIInv BY AdapterStarts
<1>2. AdapterIInv /\ [UsbNext]_usbVars => AdapterIInv' BY AdapterSteps
<1>3. QED BY <1>1, <1>2, PTL DEF UsbSpec

\* scan_in_progress is a lock: while it is set exactly one work item for the attachment
\* is queued, in hand or reported, and otherwise none, so that no two sessions or scans
\* ever talk to one device (process_control_requests, inspect_pending_devices,
\* collect_scan_results).
THEOREM BusyAlwaysAccounted == UsbSpec => []BusyAccounted
<1>1. AdapterIInv => BusyAccounted BY DEF AdapterIInv, WorkAccounted, BusyAccounted
<1>2. QED BY <1>1, AdapterInvariance, PTL

\* The client task never closes the handle under a session, nor gives its address to a
\* newer attachment (inspect_pending_devices, client_event_callback).
THEOREM TargetAlwaysPinned == UsbSpec => []PinnedTarget
<1>1. AdapterIInv => PinnedTarget BY DEF AdapterIInv
<1>2. QED BY <1>1, AdapterInvariance, PTL

\* Only the transaction task has a session in hand.
LEMMA OthersKeepTxn ==
    ASSUME UsbNext
    PROVE  txn' = txn \/ TransactionStep
<1>1. ASSUME NEW s \in Slots, client_event_callback(s) \/ inspect_open(s) \/ inspect_close(s)
      PROVE  txn' = txn
  BY <1>1 DEF client_event_callback, inspect_open, inspect_close, txVars
<1>2. ASSUME process_control_requests PROVE txn' = txn
  BY <1>2 DEF process_control_requests, accept_cancel, defer_request, refuse_request,
              dispatch_request, txVars
<1>3. ASSUME inspect_pending_devices PROVE txn' = txn
  <2>1. CASE Pending = {} BY <1>3, <2>1 DEF inspect_pending_devices, txVars
  <2>2. CASE Pending # {}
    <3>1. PICK s \in Pending : inspect_open(s) \/ inspect_close(s)
      BY <1>3, <2>2 DEF inspect_pending_devices
    <3>2. QED BY <1>1, <3>1 DEF Pending
  <2>3. QED BY <2>1, <2>2
<1>4. ASSUME ClientStep PROVE txn' = txn
  BY <1>1, <1>2, <1>3, <1>4 DEF ClientStep, collect_scan_results, refusal_published, txVars
<1>5. ASSUME DescriptorStep PROVE txn' = txn
  BY <1>5 DEF DescriptorStep, scan_receive, scan_read, scan_count,
              publish_multiple_accessports, raise_cancel, scan_publish, scan_result, ScanRuns, txVars
<1>6. ASSUME monitor_started \/ owner_request \/ owner_cancel \/ OwnerStep
               \/ RetryStep
      PROVE  txn' = txn
  BY <1>6 DEF monitor_started, owner_request, owner_cancel, OwnerStep, owner_request_recorded,
              owner_cancel_recorded, RetryStep, auto_sync_retry_task, retry_checks,
              retry_requests, retry_recorded, txVars
<1>7. ASSUME NEW s \in Slots, Plug(s) \/ Unplug(s) PROVE txn' = txn
  BY <1>7 DEF Plug, Unplug, txVars
<1>8. QED BY <1>4, <1>5, <1>6, <1>7 DEF UsbNext

\* No further exchange with an AccessPort begins once a conflict is latched and the cancel
\* flag has followed, in whichever phase of which session the second device was seen
\* (publish_multiple_accessports, sync_cancelled, transaction_task).
THEOREM ConflictAlwaysStopsData == UsbSpec => ConflictStopsData
<1>1. ASSUME AdapterIInv, [UsbNext]_usbVars
      PROVE  [txn.pc = "check" /\ txn'.pc = "data"
                 => ~usb.latched \/ scan.pc = "cancel"]_usbVars
  <2> SUFFICES ASSUME UsbNext, txn.pc = "check", txn'.pc = "data"
               PROVE  ~usb.latched \/ scan.pc = "cancel"
    BY <1>1
  <2>1. txn' = txn \/ TransactionStep BY OthersKeepTxn
  <2>2. txn' # txn OBVIOUS
  <2>3. txn_check
    BY <2>1, <2>2 DEF TransactionStep, txn_receive, txn_start, txn_claim, txn_data, txn_cleanup,
                      txn_close, txn_closed, txn_report, txn_result
  <2>4. ~usb.cancelRequested BY <2>3, AdapterFacts, <1>1 DEF txn_check, TxnSet
  <2>5. QED BY <1>1, <2>4 DEF AdapterIInv, LatchedCancels
<1>2. QED BY <1>1, AdapterInvariance, PTL DEF UsbSpec, ConflictStopsData

(***************************************************************************)
(* The application behind the tasks.  No task holds a lock on it, so its   *)
(* handlers run in whatever order the tasks reach them, and the record of  *)
(* a request or a cancellation comes late, in any state.                   *)
(***************************************************************************)

\* A request is recorded after the queue took it, on flags that the sync event it
\* continues may have changed before.
RequestRecorded(a) ==
    /\ sync' = Queued(FALSE)
    /\ app' = ManualFlags(a)
    /\ hist' = [hist EXCEPT !.recoveries = 0, !.conflict = FALSE]
    /\ UNCHANGED <<device, policy>>

CancelRecorded == sync' = Cancelling(sync) /\ UNCHANGED <<device, policy, app, hist>>

\* What the tasks that report and request may do to the application.
AppMoves ==
    \/ \E ev \in AnyDeviceEvent, ok \in BOOLEAN : handle_device_event(ev, ok)
    \/ \E ev \in SyncEvent, ok \in BOOLEAN : handle_sync_event(ev, ok)
    \/ RequestRecorded(app)
    \/ \E ev \in SyncEvent : RequestRecorded(AutoAfterSyncEvent(app, ev))
    \/ CancelRecorded
    \/ UNCHANGED appVars

LEMMA RequestRecordedIInv ==
    ASSUME IInv, NEW a \in AppFlags, a.retryCount = app.retryCount, RequestRecorded(a)
    PROVE  IInv'
<1>1. /\ app' \in AppFlags /\ app'.attempted /\ ~app'.recovered /\ ~app'.disarmed
      /\ app'.retryCount = app.retryCount
  BY DEF RequestRecorded, ManualFlags, AppFlags
<1>2. /\ hist' \in History /\ hist'.autoRuns = hist.autoRuns /\ hist'.recoveries = 0
      /\ ~hist'.conflict
  BY DEF RequestRecorded, IInv, AppTypeOK, History
<1>3. sync' \in SyncSnapshot /\ device' = device /\ policy' = policy
  BY DEF RequestRecorded, Queued, SyncSnapshot, SyncStates
<1>4. RunsAccounted'
  <2>1. /\ hist.autoRuns \in Nat /\ app.retryCount \in Nat
        /\ hist.autoRuns <= One(app.attempted) + app.retryCount
    BY DEF IInv, AppTypeOK, AppFlags, History, RunsAccounted
  <2>2. One(app.attempted) \in {0, 1} /\ One(app'.attempted) = 1 BY <1>1 DEF One
  <2>3. hist.autoRuns <= One(app'.attempted) + app.retryCount BY <2>1, <2>2
  <2>4. hist'.autoRuns <= One(app'.attempted) + app'.retryCount BY <1>1, <1>2, <2>3
  <2>5. QED BY <1>1, <1>2, <1>3, <2>4 DEF IInv, RunsAccounted
<1>5. RecoveriesAccounted' BY <1>1, <1>2 DEF RecoveriesAccounted, One
<1>6. QED
  BY <1>1, <1>2, <1>3, <1>4, <1>5 DEF IInv, AppTypeOK, DeviceTypeOK, SyncTypeOK,
     DisarmedIsAttempted, ConflictMarked, OpenDeviceIsSingle

LEMMA AfterEventFlags ==
    ASSUME app \in AppFlags, NEW ev \in SyncEvent
    PROVE  /\ AutoAfterSyncEvent(app, ev) \in AppFlags
           /\ AutoAfterSyncEvent(app, ev).retryCount = app.retryCount
  BY DEF AutoAfterSyncEvent, AppFlags

\* The invariant of the application does not depend on who calls it when.
LEMMA AppMovesKeep ==
    ASSUME IInv, AppMoves
    PROVE  IInv'
<1>1. app \in AppFlags BY DEF IInv, AppTypeOK
<1>2. CASE \E ev \in AnyDeviceEvent, ok \in BOOLEAN : handle_device_event(ev, ok)
  BY <1>2, DeviceEventIInv
<1>3. CASE \E ev \in SyncEvent, ok \in BOOLEAN : handle_sync_event(ev, ok)
  BY <1>3, SyncEventIInv
<1>5. CASE RequestRecorded(app)
  BY <1>1, <1>5, RequestRecordedIInv
<1>6. CASE \E ev \in SyncEvent : RequestRecorded(AutoAfterSyncEvent(app, ev))
  BY <1>1, <1>6, AfterEventFlags, RequestRecordedIInv
<1>7. CASE CancelRecorded
  BY <1>7 DEF CancelRecorded, Cancelling, IInv, AppTypeOK, DeviceTypeOK, SyncTypeOK, SyncSnapshot,
     SyncStates, RunsAccounted, RecoveriesAccounted, DisarmedIsAttempted, ConflictMarked,
     OpenDeviceIsSingle
<1>8. CASE UNCHANGED appVars
  BY <1>8 DEF appVars, IInv, AppTypeOK, DeviceTypeOK, SyncTypeOK, RunsAccounted,
     RecoveriesAccounted, DisarmedIsAttempted, ConflictMarked, OpenDeviceIsSingle
<1>9. QED BY <1>2, <1>3, <1>5, <1>6, <1>7, <1>8 DEF AppMoves

(***************************************************************************)
(* What each task does to the application                                  *)
(***************************************************************************)

LEMMA RoomIsBoolean == Room \in BOOLEAN
  BY DEF Room

LEMMA DeviceEventTyped ==
    ASSUME NEW kind \in TopologyKinds \union PlainKinds, NEW gen \in Identities \union {NoIdentity},
           NEW count \in Nat, NEW revision \in Nat, NEW soft \in BOOLEAN
    PROVE  DeviceEventOf(kind, gen, count, revision, soft) \in AnyDeviceEvent
  BY DEF DeviceEventOf, AnyDeviceEvent, DeviceEventOver

LEMMA SyncEventTyped ==
    ASSUME NEW kind \in SyncEventKinds, NEW recovery \in BOOLEAN
    PROVE  SyncEventOf(kind, recovery) \in SyncEvent
  BY DEF SyncEventOf, SyncEvent

LEMMA UsbEventMoves ==
    ASSUME NEW ev \in AnyDeviceEvent, handle_usb_event(ev)
    PROVE  AppMoves
<1>1. UNCHANGED appVars \/ handle_device_event(ev, Room) BY DEF handle_usb_event
<1>2. QED BY <1>1, RoomIsBoolean DEF AppMoves

LEMMA MainEventMoves ==
    ASSUME NEW ev \in SyncEvent, NEW pending, main_handle_sync_event(ev, pending)
    PROVE  AppMoves
<1>1. \/ UNCHANGED appVars
      \/ RequestRecorded(AutoAfterSyncEvent(app, ev))
      \/ handle_sync_event(ev, Room)
  BY DEF main_handle_sync_event, RequestRecorded
<1>2. QED BY <1>1, RoomIsBoolean DEF AppMoves

LEMMA MonitorMoves == ASSUME monitor_started PROVE AppMoves
<1>1. DeviceEventOf("MONITOR_STARTED", NoIdentity, 0, 0, FALSE) \in AnyDeviceEvent
  BY DeviceEventTyped DEF PlainKinds
<1>2. QED BY <1>1, UsbEventMoves DEF monitor_started

LEMMA OwnerMoves ==
    ASSUME owner_request \/ owner_cancel \/ OwnerStep
    PROVE  AppMoves
<1>1. CASE owner_request \/ owner_cancel
  BY <1>1 DEF owner_request, owner_cancel, AppMoves
<1>2. CASE owner_request_recorded
  BY <1>2 DEF owner_request_recorded, RequestRecorded, AppMoves
<1>3. CASE owner_cancel_recorded
  BY <1>3 DEF owner_cancel_recorded, CancelRecorded, AppMoves
<1>4. QED BY <1>1, <1>2, <1>3 DEF OwnerStep

LEMMA ControlMoves ==
    ASSUME process_control_requests
    PROVE  AppMoves
<1>1. UNCHANGED appVars \/ refuse_request
  BY DEF process_control_requests, accept_cancel, defer_request, dispatch_request
<1>2. CASE refuse_request
  <2>1. SyncEventOf("FAILED", Head(ctl) = "RECOVER") \in SyncEvent
    BY SyncEventTyped DEF SyncEventKinds, TerminalKinds
  <2>2. UNCHANGED appVars \/ handle_sync_event(SyncEventOf("FAILED", Head(ctl) = "RECOVER"), FALSE)
    BY <1>2 DEF refuse_request
  <2>3. QED BY <2>1, <2>2 DEF AppMoves
<1>3. QED BY <1>1, <1>2 DEF AppMoves

LEMMA CloseMoves ==
    ASSUME AdapterIInv, NEW s \in Slots, inspect_close(s)
    PROVE  AppMoves
<1> DEFINE left == eligible_accessport_count(dev')
           revision == IF dev[s].accessport THEN usb.revision + 1 ELSE usb.revision
<1>1. left \in Nat
  <2>1. IsFiniteSet(1..NumSlots) BY SlotAssumption, FS_Interval
  <2>2. IsFiniteSet({t \in Slots : Live(dev'[t])}) BY <2>1, FS_Subset DEF Slots
  <2>3. QED BY <2>2, FS_CardinalityType DEF eligible_accessport_count
<1>2. revision \in Nat /\ dev[s].polite \in BOOLEAN
  BY AdapterFacts DEF UsbSet, Entry
<1>3. UNCHANGED appVars \/ handle_usb_event(DeviceEventOf("DETACHED", NoIdentity, left, revision,
                                                          dev[s].polite))
  BY DEF inspect_close
<1> HIDE DEF left, revision
<1>4. DeviceEventOf("DETACHED", NoIdentity, left, revision, dev[s].polite) \in AnyDeviceEvent
  BY <1>1, <1>2, DeviceEventTyped DEF TopologyKinds
<1>5. QED BY <1>3, <1>4, UsbEventMoves DEF AppMoves

LEMMA ClientMoves ==
    ASSUME AdapterIInv, ClientStep
    PROVE  AppMoves
<1>1. CASE process_control_requests BY <1>1, ControlMoves
<1>2. CASE inspect_pending_devices
  <2>1. CASE Pending = {} BY <1>2, <2>1 DEF inspect_pending_devices, AppMoves
  <2>2. CASE Pending # {}
    <3>1. PICK s \in Pending : inspect_open(s) \/ inspect_close(s)
      BY <1>2, <2>2 DEF inspect_pending_devices
    <3>2. s \in Slots BY DEF Pending
    <3>3. CASE inspect_open(s) BY <3>3 DEF inspect_open, AppMoves
    <3>4. CASE inspect_close(s) BY <3>2, <3>4, CloseMoves
    <3>5. QED BY <3>1, <3>3, <3>4
  <2>3. QED BY <2>1, <2>2
<1>3. CASE \E s \in Slots : client_event_callback(s)
  BY <1>3 DEF client_event_callback, AppMoves
<1>4. CASE collect_scan_results \/ refusal_published
  BY <1>4 DEF collect_scan_results, refusal_published, AppMoves
<1>5. QED BY <1>1, <1>2, <1>3, <1>4 DEF ClientStep

LEMMA DescriptorMoves ==
    ASSUME AdapterIInv, DescriptorStep
    PROVE  AppMoves
<1>1. CASE scan_publish
  <2>1. CASE UNCHANGED appVars BY <2>1 DEF AppMoves
  <2>2. CASE handle_usb_event(ScanEvent)
    <3>1. scan.pc \in {"report_multiple", "attach", "accept", "attach_unmatched", "fail"}
      BY <1>1 DEF scan_publish
    <3>2. /\ scan.gen \in Identities \union {NoIdentity} /\ scan.revision \in Nat
          /\ scan.soft \in BOOLEAN /\ scan.count \in Nat
      BY AdapterFacts, AttachAssumption DEF ScanSet
    <3>3. CASE scan.pc = "report_multiple"
      <4>1. ScanEvent = DeviceEventOf("MULTIPLE_DETECTED", NoIdentity, scan.count, scan.revision, FALSE)
        BY <3>3 DEF ScanEvent
      <4>2. ScanEvent \in AnyDeviceEvent BY <3>2, <4>1, DeviceEventTyped DEF TopologyKinds
      <4>3. QED BY <2>2, <4>2, UsbEventMoves
    <3>4. CASE scan.pc \in {"attach", "attach_unmatched"}
      <4>1. ScanEvent = DeviceEventOf("ATTACHED", scan.gen, 1, scan.revision, scan.soft)
        BY <3>4 DEF ScanEvent
      <4>2. ScanEvent \in AnyDeviceEvent BY <3>2, <4>1, DeviceEventTyped DEF TopologyKinds
      <4>3. QED BY <2>2, <4>2, UsbEventMoves
    <3>5. CASE scan.pc = "accept"
      <4>1. ScanEvent = DeviceEventOf("ACCEPTED", scan.gen, 1, scan.revision, scan.soft)
        BY <3>5 DEF ScanEvent
      <4>2. ScanEvent \in AnyDeviceEvent BY <3>2, <4>1, DeviceEventTyped DEF TopologyKinds
      <4>3. QED BY <2>2, <4>2, UsbEventMoves
    <3>6. CASE scan.pc = "fail"
      <4>1. ScanEvent = DeviceEventOf("FAILURE", NoIdentity, 0, 0, FALSE)
        BY <3>6 DEF ScanEvent
      <4>2. ScanEvent \in AnyDeviceEvent BY <4>1, DeviceEventTyped DEF PlainKinds
      <4>3. QED BY <2>2, <4>2, UsbEventMoves
    <3>7. QED BY <3>1, <3>3, <3>4, <3>5, <3>6
  <2>3. QED BY <1>1, <2>1, <2>2 DEF scan_publish
<1>2. CASE ~scan_publish
  BY <1>2 DEF DescriptorStep, scan_receive, scan_read, scan_count,
     publish_multiple_accessports, raise_cancel, scan_result, AppMoves
<1>3. QED BY <1>1, <1>2

LEMMA FinishedTyped ==
    ASSUME txn \in TxnSet
    PROVE  Finished \in SyncEvent
<1>1. /\ txn.cancelled \in BOOLEAN /\ txn.clean \in BOOLEAN /\ txn.passed \in BOOLEAN
      /\ txn.ack \in BOOLEAN /\ txn.moved \in BOOLEAN /\ Recovering \in BOOLEAN
  BY DEF TxnSet, Recovering
<1>2. QED BY <1>1 DEF Finished, SyncEvent, SyncEventKinds, TerminalKinds

LEMMA TransactionMoves ==
    ASSUME AdapterIInv, TransactionStep
    PROVE  AppMoves
<1>1. Recovering \in BOOLEAN BY DEF Recovering
<1>2. "STARTED" \in SyncEventKinds /\ "FAILED" \in SyncEventKinds
  BY DEF SyncEventKinds, TerminalKinds
<1>3. "SESSION_OPENED" \in PlainKinds /\ "SESSION_CLOSED" \in PlainKinds BY DEF PlainKinds
<1>4. CASE txn_receive
  <2>1. \/ UNCHANGED appVars
        \/ main_handle_sync_event(SyncEventOf("FAILED", Head(txq).kind = "RECOVER"), FALSE)
    BY <1>4 DEF txn_receive
  <2>2. SyncEventOf("FAILED", Head(txq).kind = "RECOVER") \in SyncEvent BY <1>2, SyncEventTyped
  <2>3. QED BY <2>1, <2>2, MainEventMoves DEF AppMoves
<1>5. CASE txn_start
  <2>1. UNCHANGED appVars \/ main_handle_sync_event(SyncEventOf("STARTED", Recovering), FALSE)
    BY <1>5 DEF txn_start
  <2>2. SyncEventOf("STARTED", Recovering) \in SyncEvent BY <1>1, <1>2, SyncEventTyped
  <2>3. QED BY <2>1, <2>2, MainEventMoves DEF AppMoves
<1>6. CASE \E ok \in BOOLEAN : txn_claim(ok)
  <2>1. \/ UNCHANGED appVars
        \/ main_handle_sync_event(SyncEventOf("FAILED", Recovering), FALSE)
        \/ handle_usb_event(DeviceEventOf("SESSION_OPENED", NoIdentity, 0, 0, FALSE))
    BY <1>6 DEF txn_claim
  <2>2. SyncEventOf("FAILED", Recovering) \in SyncEvent BY <1>1, <1>2, SyncEventTyped
  <2>3. DeviceEventOf("SESSION_OPENED", NoIdentity, 0, 0, FALSE) \in AnyDeviceEvent
    BY <1>3, DeviceEventTyped
  <2>4. QED BY <2>1, <2>2, <2>3, MainEventMoves, UsbEventMoves DEF AppMoves
<1>7. CASE txn_closed
  <2>1. DeviceEventOf("SESSION_CLOSED", NoIdentity, 0, 0, FALSE) \in AnyDeviceEvent
    BY <1>3, DeviceEventTyped
  <2>2. QED BY <1>7, <2>1, UsbEventMoves DEF txn_closed
<1>8. CASE \E pending \in BOOLEAN : txn_report(pending)
  <2>1. UNCHANGED appVars \/ \E pending : main_handle_sync_event(Finished, pending)
    BY <1>8 DEF txn_report
  <2>2. QED BY <2>1, AdapterFacts, FinishedTyped, MainEventMoves DEF AppMoves
<1>9. CASE \/ txn_check \/ txn_cleanup \/ txn_result
           \/ \E result \in {"failed", "more", "last"}, moved \in BOOLEAN : txn_data(result, moved)
           \/ \E sent, ack, released \in BOOLEAN : txn_close(sent, ack, released)
  BY <1>9 DEF txn_check, txn_cleanup, txn_result, txn_data, txn_close, AppMoves
<1>10. QED BY <1>4, <1>5, <1>6, <1>7, <1>8, <1>9 DEF TransactionStep

LEMMA UsbNextMoves ==
    ASSUME AdapterIInv, [UsbNext]_usbVars
    PROVE  AppMoves \/ RetryStep
<1>1. CASE UNCHANGED usbVars BY <1>1 DEF usbVars, AppMoves
<1>2. ASSUME NEW s \in Slots, Plug(s) \/ Unplug(s) PROVE AppMoves
  BY <1>2 DEF Plug, Unplug, AppMoves
<1>3. CASE UsbNext
  BY <1>2, <1>3, MonitorMoves, ClientMoves, DescriptorMoves, TransactionMoves, OwnerMoves
  DEF UsbNext
<1>4. QED BY <1>1, <1>3

(***************************************************************************)
(* The delayed retry looks, asks and records in steps of its own           *)
(***************************************************************************)

\* What the look of the retry task established still holds when it asks: only the task
\* itself counts up, and the service does not stop.
RetryArmed ==
    /\ retry \in RetryState
    /\ retry.pc = "request" => app.retryCount < AUTO_SYNC_RETRY_LIMIT
    /\ retry.pc # "none" => device.state # "STOPPED"

\* No other task counts a retry, or stops the device service.
LEMMA AppMovesCount ==
    ASSUME IInv, AppMoves
    PROVE  /\ app'.retryCount \in Nat /\ app'.retryCount <= app.retryCount
           /\ device.state # "STOPPED" => device'.state # "STOPPED"
<1>1. app \in AppFlags /\ app.retryCount \in Nat BY DEF IInv, AppTypeOK, AppFlags
<1>2. ASSUME NEW ev \in AnyDeviceEvent, NEW ok \in BOOLEAN, handle_device_event(ev, ok)
      PROVE  /\ app'.retryCount \in {0, app.retryCount}
             /\ device.state # "STOPPED" => device'.state # "STOPPED"
  <2> DEFINE flags   == ClassifyBoundary(DisarmOnConflict(app, ev), ev)
             rearmed == IF Accepts(ev) THEN RearmAtBoundary(flags, device.state, DeviceAfter(device, ev).state)
                        ELSE flags
             asked   == IF AttachSync(rearmed, ev)
                        THEN request_automatic_sync(rearmed, FALSE, Granted(ok)) ELSE rearmed
  <2>0. ev.soft \in BOOLEAN BY DEF AnyDeviceEvent, DeviceEventOver
  <2>1. flags \in AppFlags /\ flags.retryCount \in {0, app.retryCount}
    <3> DEFINE marked == DisarmOnConflict(app, ev)
    <3>1. marked \in AppFlags /\ marked.retryCount = app.retryCount
      BY <1>1 DEF DisarmOnConflict, AppFlags
    <3> HIDE DEF marked
    <3>2. QED BY <2>0, <3>1 DEF ClassifyBoundary, AppFlags, marked
  <2>2. rearmed \in AppFlags /\ rearmed.retryCount \in {0, app.retryCount}
    <3> HIDE DEF flags
    <3>1. QED BY <2>1 DEF RearmAtBoundary, AppFlags
  <2>3. asked \in AppFlags /\ asked.retryCount \in {0, app.retryCount}
    <3> HIDE DEF rearmed
    <3>1. QED BY <2>2 DEF request_automatic_sync, AppFlags
  <2>4. app' = asked \/ app' = [asked EXCEPT !.preserve = FALSE]
    BY <1>2 DEF handle_device_event
  <2> HIDE DEF asked
  <2>5. app'.retryCount \in {0, app.retryCount} BY <2>3, <2>4 DEF AppFlags
  <2>6. device' = device \/ device' = DeviceAfter(device, ev)
    BY <1>2 DEF handle_device_event, device_service_handle
  <2>7. device.state # "STOPPED" => device'.state # "STOPPED"
    BY <1>2, <2>6, DeviceAfterState
    DEF IInv, AppTypeOK, DeviceTypeOK, handle_device_event, device_service_handle, AnyDeviceEvent,
        DeviceEventOver
  <2>8. QED BY <2>5, <2>7
<1>3. ASSUME NEW ev \in SyncEvent, NEW ok \in BOOLEAN, handle_sync_event(ev, ok)
      PROVE  app'.retryCount = app.retryCount /\ device' = device
  <2>1. app' = AutoAfterSyncEvent(app, ev)
        \/ app' = [AutoAfterSyncEvent(app, ev) EXCEPT !.recovered = TRUE]
    BY <1>3 DEF handle_sync_event
  <2>2. QED BY <1>1, <1>3, <2>1, AfterEventFlags DEF handle_sync_event, AppFlags
<1>4. ASSUME NEW a \in AppFlags, a.retryCount = app.retryCount, RequestRecorded(a)
      PROVE  app'.retryCount = app.retryCount /\ device' = device
  BY <1>4 DEF RequestRecorded, ManualFlags, AppFlags
<1>5. CASE CancelRecorded \/ UNCHANGED appVars
  BY <1>1, <1>5 DEF CancelRecorded, appVars
<1>6. QED BY <1>1, <1>2, <1>3, <1>4, <1>5, AfterEventFlags DEF AppMoves

\* Only a handler schedules the task, and only when a retry is due.
LEMMA RetryStays ==
    ASSUME AdapterIInv, [UsbNext]_usbVars
    PROVE  retry' = retry \/ (\E wanted : ScheduleRetry(wanted)) \/ RetryStep
<1>1. ASSUME NEW ev, handle_usb_event(ev)
      PROVE  retry' = retry \/ \E wanted : ScheduleRetry(wanted)
  BY <1>1 DEF handle_usb_event
<1>2. ASSUME NEW ev, NEW pending, main_handle_sync_event(ev, pending)
      PROVE  retry' = retry \/ \E wanted : ScheduleRetry(wanted)
  BY <1>2 DEF main_handle_sync_event
<1>3. CASE UNCHANGED usbVars BY <1>3 DEF usbVars
<1>4. CASE monitor_started BY <1>1, <1>4 DEF monitor_started
<1>5. CASE \E s \in Slots : Plug(s) \/ Unplug(s) BY <1>5 DEF Plug, Unplug
<1>6. CASE process_control_requests
  BY <1>6 DEF process_control_requests, accept_cancel, defer_request, refuse_request,
     dispatch_request
<1>7. CASE inspect_pending_devices
  <2>1. CASE Pending = {} BY <1>7, <2>1 DEF inspect_pending_devices
  <2>2. CASE Pending # {}
    <3>1. PICK s \in Pending : inspect_open(s) \/ inspect_close(s)
      BY <1>7, <2>2 DEF inspect_pending_devices
    <3>2. QED BY <1>1, <3>1 DEF inspect_open, inspect_close
  <2>3. QED BY <2>1, <2>2
<1>8. CASE \/ \E s \in Slots : client_event_callback(s)
           \/ collect_scan_results \/ refusal_published
  BY <1>8 DEF client_event_callback, collect_scan_results, refusal_published
<1>9. CASE DescriptorStep
  BY <1>1, <1>9 DEF DescriptorStep, scan_receive, scan_read, scan_count,
     publish_multiple_accessports, raise_cancel, scan_publish, scan_result
<1>10. CASE TransactionStep
  BY <1>1, <1>2, <1>10 DEF TransactionStep, txn_receive, txn_start, txn_claim, txn_check,
     txn_data, txn_cleanup, txn_close, txn_closed, txn_report, txn_result
<1>11. CASE owner_request \/ owner_cancel \/ OwnerStep
  BY <1>11 DEF owner_request, owner_cancel, OwnerStep, owner_request_recorded,
     owner_cancel_recorded
<1>12. QED
  BY <1>3, <1>4, <1>5, <1>6, <1>7, <1>8, <1>9, <1>10, <1>11 DEF UsbNext, ClientStep

\* The retry task keeps the invariant although the application has changed since it looked.
LEMMA RetryStepKeeps ==
    ASSUME IInv, RetryArmed, RetryStep
    PROVE  IInv' /\ RetryArmed'
<1> DEFINE Moved(pc) == [retry EXCEPT !.pc = pc]
<1>0. /\ retry \in RetryState /\ NoRetry \in RetryState /\ NoRetry.pc = "none"
      /\ \A pc \in {"check", "request", "record"} :
            Moved(pc) \in RetryState /\ Moved(pc).pc = pc
  BY DEF RetryArmed, RetryState, NoRetry
<1>00. /\ [retry EXCEPT !.gen = device.identity] \in RetryState
       /\ [retry EXCEPT !.gen = device.identity].pc = retry.pc
  BY <1>0, AttachAssumption DEF IInv, AppTypeOK, DeviceTypeOK, DeviceSnapshot, RetryState
<1> HIDE DEF Moved
<1>1. /\ app \in AppFlags /\ hist \in History /\ app.retryCount \in Nat /\ hist.autoRuns \in Nat
      /\ hist.autoRuns <= One(app.attempted) + app.retryCount /\ One(app.attempted) \in {0, 1}
      /\ app.retryCount <= AUTO_SYNC_RETRY_LIMIT
  BY DEF IInv, AppTypeOK, AppFlags, History, RunsAccounted, One
<1>2. CASE auto_sync_retry_task \/ retry_checks
  <2>1. UNCHANGED appVars BY <1>2 DEF auto_sync_retry_task, retry_checks
  <2>2. IInv' BY <2>1, AppMovesKeep DEF AppMoves
  <2>3. CASE auto_sync_retry_task
    <3>1. retry.pc = "delay" /\ retry' \in {Moved("check"), NoRetry, [retry EXCEPT !.gen = device.identity]}
      BY <2>3 DEF auto_sync_retry_task, Moved
    <3>2. retry' \in RetryState /\ retry'.pc # "request" BY <1>0, <1>00, <3>1
    <3>3. device' = device /\ device.state # "STOPPED" BY <2>1, <3>1 DEF appVars, RetryArmed
    <3>4. QED BY <2>2, <3>2, <3>3 DEF RetryArmed
  <2>4. CASE retry_checks
    <3>1. /\ retry.pc = "check"
          /\ \/ retry' = NoRetry
             \/ retry' = Moved("request") /\ app.retryCount < AUTO_SYNC_RETRY_LIMIT
      BY <2>4 DEF retry_checks, Moved, auto_sync_retry_needed
    <3>2. UNCHANGED <<device, app>> /\ device.state # "STOPPED"
      BY <2>1, <3>1 DEF appVars, RetryArmed
    <3>3. RetryArmed' BY <1>0, <3>1, <3>2 DEF RetryArmed
    <3>4. QED BY <2>2, <3>3
  <2>5. QED BY <1>2, <2>3, <2>4
<1>3. CASE retry_requests
  <2>1. app.retryCount < AUTO_SYNC_RETRY_LIMIT /\ device.state # "STOPPED"
    BY <1>3 DEF retry_requests, RetryArmed
  <2>2. app.retryCount + 1 \in Nat /\ app.retryCount + 1 <= AUTO_SYNC_RETRY_LIMIT
    BY <1>1, <2>1, RetryLimitAssumption
  <2>3. /\ app' \in AppFlags /\ app'.attempted = app.attempted /\ app'.disarmed = app.disarmed
        /\ app'.recovered = app.recovered /\ app'.retryCount = app.retryCount + 1
    <3> DEFINE n == app.retryCount + 1
    <3>1. app' = [app EXCEPT !.retryCount = n, !.retryEligible = FALSE]
      BY <1>3 DEF retry_requests
    <3> HIDE DEF n
    <3>2. n \in Nat BY <2>2 DEF n
    <3>3. app' \in AppFlags /\ app'.retryCount = n BY <1>1, <3>1, <3>2 DEF AppFlags
    <3>4. /\ app'.attempted = app.attempted /\ app'.disarmed = app.disarmed
          /\ app'.recovered = app.recovered
      BY <1>1, <3>1 DEF AppFlags
    <3>5. QED BY <3>3, <3>4 DEF n
  <2>4. /\ hist' \in History /\ hist'.recoveries = hist.recoveries /\ hist'.conflict = hist.conflict
        /\ hist'.autoRuns \in {hist.autoRuns, hist.autoRuns + 1}
    <3> DEFINE n == hist.autoRuns + 1
    <3>1. hist' = hist \/ hist' = [hist EXCEPT !.autoRuns = n] BY <1>3 DEF retry_requests
    <3>2. n \in Nat BY <1>1
    <3> HIDE DEF n
    <3>3. /\ hist' \in History /\ hist'.recoveries = hist.recoveries
          /\ hist'.conflict = hist.conflict /\ hist'.autoRuns \in {hist.autoRuns, n}
      BY <1>1, <3>1, <3>2 DEF History
    <3>4. QED BY <3>3 DEF n
  <2>5. UNCHANGED <<device, sync, policy>> BY <1>3 DEF retry_requests
  <2>6. RunsAccounted' BY <1>1, <2>1, <2>2, <2>3, <2>4, <2>5 DEF RunsAccounted
  <2>7. IInv'
    BY <2>3, <2>4, <2>5, <2>6 DEF IInv, AppTypeOK, DeviceTypeOK, SyncTypeOK, RecoveriesAccounted,
       DisarmedIsAttempted, ConflictMarked, OpenDeviceIsSingle
  <2>8. retry' = NoRetry \/ retry' = Moved("record") BY <1>3 DEF retry_requests, Moved
  <2>9. retry' \in RetryState /\ retry'.pc # "request" BY <1>0, <2>8
  <2>10. QED BY <2>1, <2>5, <2>7, <2>9 DEF RetryArmed
<1>4. CASE retry_recorded
  <2>1. /\ app' \in AppFlags /\ app'.attempted /\ ~app'.recovered /\ app'.disarmed = app.disarmed
        /\ app'.retryCount = app.retryCount
    BY <1>1, <1>4 DEF retry_recorded, AppFlags
  <2>2. /\ hist' \in History /\ hist'.autoRuns = hist.autoRuns /\ hist'.recoveries = 0
        /\ hist'.conflict = hist.conflict
    BY <1>1, <1>4 DEF retry_recorded, History
  <2>3. sync' \in SyncSnapshot /\ UNCHANGED <<device, policy>>
    BY <1>4 DEF retry_recorded, Queued, SyncSnapshot, SyncStates
  <2>4. One(app'.attempted) = 1 /\ One(app'.recovered) = 0 BY <2>1 DEF One
  <2>5. RunsAccounted'
    <3>1. hist.autoRuns <= 1 + app.retryCount BY <1>1
    <3>2. hist'.autoRuns <= One(app'.attempted) + app'.retryCount BY <2>1, <2>2, <2>4, <3>1
    <3>3. device'.state = "STOPPED" => hist'.autoRuns = 0 BY <2>2, <2>3 DEF IInv, RunsAccounted
    <3>4. app'.retryCount <= AUTO_SYNC_RETRY_LIMIT BY <1>1, <2>1
    <3>5. QED BY <3>2, <3>3, <3>4 DEF RunsAccounted
  <2>6. RecoveriesAccounted' BY <2>2, <2>4 DEF RecoveriesAccounted
  <2>7. IInv'
    BY <2>1, <2>2, <2>3, <2>5, <2>6 DEF IInv, AppTypeOK, DeviceTypeOK, SyncTypeOK,
       DisarmedIsAttempted, ConflictMarked, OpenDeviceIsSingle
  <2>8. retry' = NoRetry BY <1>4 DEF retry_recorded
  <2>9. QED BY <1>0, <2>7, <2>8 DEF RetryArmed
<1>5. QED BY <1>2, <1>3, <1>4 DEF RetryStep

LEMMA ArmedStays ==
    ASSUME IInv, RetryArmed, AdapterIInv, [UsbNext]_usbVars
    PROVE  IInv' /\ RetryArmed'
<1>1. CASE RetryStep BY <1>1, RetryStepKeeps
<1>2. CASE ~RetryStep
  <2>1. AppMoves BY <1>2, UsbNextMoves
  <2>2. IInv' BY <2>1, AppMovesKeep
  <2>3. /\ app'.retryCount \in Nat /\ app'.retryCount <= app.retryCount /\ app.retryCount \in Nat
        /\ device.state # "STOPPED" => device'.state # "STOPPED"
    BY <2>1, AppMovesCount DEF IInv, AppTypeOK, AppFlags
  <2>4. retry' = retry \/ \E wanted : ScheduleRetry(wanted) BY <1>2, RetryStays
  <2>5. \/ retry' = retry
        \/ auto_sync_retry_needed' /\ retry' = [pc |-> "delay", gen |-> device'.identity]
    BY <2>4 DEF ScheduleRetry
  <2>6. CASE retry' = retry BY <2>2, <2>3, <2>6, RetryLimitAssumption DEF RetryArmed
  <2>7. CASE auto_sync_retry_needed' /\ retry' = [pc |-> "delay", gen |-> device'.identity]
    <3>1. device'.identity \in Identities \union {0}
      BY <2>2, AttachAssumption DEF IInv, AppTypeOK, DeviceTypeOK, DeviceSnapshot
    <3>2. retry' \in RetryState /\ retry'.pc = "delay" BY <2>7, <3>1 DEF RetryState
    <3>3. device'.state # "STOPPED" BY <2>7 DEF auto_sync_retry_needed
    <3>4. QED BY <2>2, <3>2, <3>3 DEF RetryArmed
  <2>8. QED BY <2>5, <2>6, <2>7
<1>3. QED BY <1>1, <1>2

\* The invariant of the application holds while the client, descriptor and transaction
\* tasks, the portal and the retry task interleave between its handlers.
THEOREM ApplicationInvariance == UsbSpec => []IInv
<1>1. UsbInit => IInv /\ RetryArmed
  BY InitIInv DEF UsbInit, RetryArmed, RetryState, NoRetry
<1>2. IInv /\ RetryArmed /\ AdapterIInv /\ [UsbNext]_usbVars => IInv' /\ RetryArmed'
  BY ArmedStays
<1>3. QED BY <1>1, <1>2, AdapterInvariance, PTL DEF UsbSpec

LEMMA RetryStaysArmed == UsbSpec => []RetryArmed
<1>1. UsbInit => RetryArmed BY DEF UsbInit, RetryArmed, RetryState, NoRetry
<1>2. IInv /\ RetryArmed /\ AdapterIInv /\ [UsbNext]_usbVars => RetryArmed' BY ArmedStays
<1>3. QED BY <1>1, <1>2, AdapterInvariance, ApplicationInvariance, PTL DEF UsbSpec

\* One physical attachment gets one automatic sync and its retries, whichever task
\* starts them and in whatever order they reach the application
\* (request_automatic_sync, auto_sync_retry_task).
THEOREM AutoSyncAlwaysBounded == UsbSpec => []AutoSyncBounded
<1>1. IInv => AutoSyncBounded BY BoundedRuns
<1>2. QED BY <1>1, ApplicationInvariance, PTL

\* One ordinary request starts at most one close recovery, although the transaction
\* task, the client task and the portal race to report and request
\* (handle_sync_event).
THEOREM OneRecoveryAlways == UsbSpec => []OneRecovery
<1>1. IInv => OneRecovery BY BoundedRecoveries
<1>2. QED BY <1>1, ApplicationInvariance, PTL

\* What the tasks do to the application leaves the conflict only for a bus without
\* eligible devices.
LEMMA AppMovesLatch ==
    ASSUME IInv, AppMoves, device.state = "CONFLICT", device'.state # "CONFLICT"
    PROVE  device'.state = "WAITING" /\ device'.count = 0
<1>1. PICK ev \in AnyDeviceEvent : device_service_handle(ev)
  BY DEF AppMoves, handle_device_event, handle_sync_event, RequestRecorded, CancelRecorded,
         appVars
<1>2. device \in DeviceSnapshot BY DEF IInv, AppTypeOK, DeviceTypeOK
<1>3. QED BY <1>1, <1>2, ConflictEnds

\* A session that closes, a scan that fails or a detach of one of the devices does not
\* end a conflict (revlink_device_service_handle).
THEOREM ConflictAlwaysLatched == UsbSpec => ConflictLatched
<1>1. ASSUME IInv, AdapterIInv, [UsbNext]_usbVars
      PROVE  [device.state = "CONFLICT" /\ device'.state # "CONFLICT"
                => device'.state = "WAITING" /\ device'.count = 0]_vars
  <2>1. RetryStep => device' = device
    BY DEF RetryStep, auto_sync_retry_task, retry_checks, retry_requests, retry_recorded, appVars
  <2>2. QED BY <1>1, <2>1, UsbNextMoves, AppMovesLatch
<1>2. QED BY <1>1, ApplicationInvariance, AdapterInvariance, PTL DEF UsbSpec, ConflictLatched

\* None of these moves starts an automatic sync after a conflict.
LEMMA AppMovesDisarmed ==
    ASSUME IInv, AppMoves, hist'.autoRuns > hist.autoRuns
    PROVE  ~hist.conflict
<1>1. hist \in History BY DEF IInv, AppTypeOK
<1>2. CASE \E ev \in AnyDeviceEvent, ok \in BOOLEAN : handle_device_event(ev, ok)
  BY <1>2, DisarmedAttachesAlone
<1>4. CASE \/ \E ev \in SyncEvent, ok \in BOOLEAN : handle_sync_event(ev, ok)
           \/ RequestRecorded(app)
           \/ \E ev \in SyncEvent : RequestRecorded(AutoAfterSyncEvent(app, ev))
           \/ CancelRecorded
           \/ UNCHANGED appVars
  <2>1. hist'.autoRuns = hist.autoRuns
    BY <1>1, <1>4 DEF handle_sync_event, RequestRecorded, CancelRecorded, appVars, History
  <2>2. QED BY <1>1, <2>1 DEF History
<1>5. QED BY <1>2, <1>4 DEF AppMoves

\* Once a second AccessPort has been reported no task starts a sync by itself until the
\* owner has asked for one; the exception is a delayed retry that had looked before
\* (DisarmOnConflict, request_automatic_sync, auto_sync_retry_task).
THEOREM ConflictAlwaysDisarms == UsbSpec => DisarmedButForLateRetry
<1>1. ASSUME IInv, AdapterIInv, [UsbNext]_usbVars
      PROVE  [hist'.autoRuns > hist.autoRuns => ~hist.conflict \/ retry_requests]_usbVars
  <2> SUFFICES ASSUME hist'.autoRuns > hist.autoRuns PROVE ~hist.conflict \/ retry_requests
    OBVIOUS
  <2>1. CASE AppMoves BY <1>1, <2>1, AppMovesDisarmed
  <2>2. CASE RetryStep
    <3>1. hist.autoRuns \in Nat /\ hist \in History BY <1>1 DEF IInv, AppTypeOK, History
    <3>2. retry_requests \/ hist'.autoRuns = hist.autoRuns
      BY <2>2, <3>1 DEF RetryStep, auto_sync_retry_task, retry_checks, retry_recorded, appVars, History
    <3>3. QED BY <3>1, <3>2
  <2>3. QED BY <1>1, <2>1, <2>2, UsbNextMoves
<1>2. QED
  BY <1>1, ApplicationInvariance, AdapterInvariance, PTL DEF UsbSpec, DisarmedButForLateRetry

(***************************************************************************)
(* Type correctness: what remains is the control queue and the portal call *)
(***************************************************************************)

OwnerSet == [pc : {"idle", "requesting", "cancelling"}, calls : 0..MaxCalls]

\* What the tasks append to the control queue fits.
QueueFits == Len(ctl) <= CONTROL_QUEUE_DEPTH

\* The handlers send only what the queue takes.
LEMMA DeviceEventSent ==
    ASSUME NEW ev, NEW ok \in BOOLEAN, handle_device_event(ev, ok), ~ok
    PROVE  Sent = <<>>
<1>1. sync' = sync BY DEF handle_device_event, Granted
<1>2. QED BY <1>1 DEF Sent

LEMMA SyncEventSent ==
    ASSUME sync \in SyncSnapshot, NEW ev \in SyncEvent, NEW ok \in BOOLEAN,
           handle_sync_event(ev, ok), ~ok
    PROVE  Sent = <<>>
<1>1. sync' = SyncAfter(sync, ev) BY DEF handle_sync_event
<1>2. /\ sync'.state = "QUEUED" => sync.state = "QUEUED"
      /\ sync'.state = "CANCELLING" => sync.state = "CANCELLING"
  BY <1>1 DEF SyncAfter, SyncSnapshot, SyncStates, SyncEvent, SyncEventKinds, TerminalKinds
<1>3. QED BY <1>2 DEF Sent

LEMMA SentFits ==
    ASSUME ctl \in Seq(Requests), QueueFits, Room \/ Sent = <<>>
    PROVE  Len(ctl \o Sent) <= CONTROL_QUEUE_DEPTH
<1>1. "SYNC" \in Requests /\ "RECOVER" \in Requests /\ "CANCEL" \in Requests
  BY DEF Requests, WorkKinds
<1>2. Sent \in Seq(Requests) /\ Len(Sent) <= 1 /\ (Sent = <<>> => Len(Sent) = 0)
  BY <1>1 DEF Sent
<1>3. Len(ctl \o Sent) = Len(ctl) + Len(Sent) BY <1>2
<1>4. Len(ctl) \in Nat /\ Len(Sent) \in Nat BY <1>2
<1>5. QED BY <1>2, <1>3, <1>4, DepthAssumption DEF QueueFits, Room

LEMMA AppendFits ==
    ASSUME ctl \in Seq(Requests), Room, NEW r \in Requests
    PROVE  Len(Append(ctl, r)) <= CONTROL_QUEUE_DEPTH
  BY DepthAssumption DEF Room

LEMMA UsbEventFits ==
    ASSUME ctl \in Seq(Requests), QueueFits, IInv', NEW ev, handle_usb_event(ev)
    PROVE  QueueFits'
<1>1. CASE ctl' = ctl BY <1>1 DEF QueueFits
<1>2. CASE ~ctl' = ctl
  <2>1. handle_device_event(ev, Room) /\ \E wanted : ScheduleRetry(wanted)
    BY <1>2 DEF handle_usb_event
  <2>2. Room \/ Sent = <<>> BY <2>1, RoomIsBoolean, DeviceEventSent
  <2>3. (Room /\ ctl' = Append(ctl, "IDENTITY")) \/ ctl' = ctl \o Sent
    BY <1>2 DEF handle_usb_event
  <2>4. "IDENTITY" \in Requests BY DEF Requests, WorkKinds
  <2>5. QueueFits' BY <2>2, <2>3, <2>4, SentFits, AppendFits DEF QueueFits
  <2>6. QED BY <2>5
<1>3. QED BY <1>1, <1>2

LEMMA MainEventFits ==
    ASSUME ctl \in Seq(Requests), QueueFits, sync \in SyncSnapshot, IInv',
           NEW ev \in SyncEvent, NEW pending, main_handle_sync_event(ev, pending)
    PROVE  QueueFits'
<1>1. CASE ctl' = ctl BY <1>1 DEF QueueFits
<1>2. CASE ~ctl' = ctl
  <2>1. /\ ctl' = ctl \o Sent /\ ScheduleRetry(ev.kind = "FAILED")
        /\ Room \/ handle_sync_event(ev, Room)
    BY <1>2 DEF main_handle_sync_event
  <2>2. Room \/ Sent = <<>> BY <2>1, RoomIsBoolean, SyncEventSent
  <2>3. QueueFits' BY <2>1, <2>2, SentFits DEF QueueFits
  <2>4. QED BY <2>3
<1>3. QED BY <1>1, <1>2

PortsFit == QueueFits /\ owner \in OwnerSet

LEMMA QuietPorts ==
    ASSUME PortsFit, UNCHANGED <<ctl, owner>>
    PROVE  PortsFit'
  BY DEF PortsFit, QueueFits

LEMMA OwnerPorts ==
    ASSUME ctl \in Seq(Requests), PortsFit, owner_request \/ owner_cancel \/ OwnerStep
    PROVE  PortsFit'
<1>2. CASE owner_request \/ owner_cancel
  <2>1. "SYNC" \in Requests /\ "CANCEL" \in Requests BY DEF Requests, WorkKinds
  <2>2. Room /\ (ctl' = Append(ctl, "SYNC") \/ ctl' = Append(ctl, "CANCEL"))
    BY <1>2 DEF owner_request, owner_cancel
  <2>3. Len(ctl') <= CONTROL_QUEUE_DEPTH BY <2>1, <2>2, AppendFits
  <2>4. /\ owner.calls \in 0..MaxCalls /\ owner.calls > 0
        /\ \/ owner' = [pc |-> "requesting", calls |-> owner.calls - 1]
           \/ owner' = [pc |-> "cancelling", calls |-> owner.calls - 1]
    BY <1>2 DEF owner_request, owner_cancel, PortsFit, OwnerSet
  <2>5. owner.calls - 1 \in 0..MaxCalls BY <2>4, CallAssumption
  <2>6. owner' \in OwnerSet BY <2>4, <2>5 DEF OwnerSet
  <2>7. QED BY <2>3, <2>6 DEF PortsFit, QueueFits
<1>3. CASE OwnerStep
  <2>1. ctl' = ctl /\ owner' = [owner EXCEPT !.pc = "idle"]
    BY <1>3 DEF OwnerStep, owner_request_recorded, owner_cancel_recorded
  <2>2. owner' \in OwnerSet BY <2>1 DEF PortsFit, OwnerSet
  <2>3. QED BY <2>1, <2>2 DEF PortsFit, QueueFits
<1>4. QED BY <1>2, <1>3

LEMMA RetryPorts ==
    ASSUME ctl \in Seq(Requests), PortsFit, IInv, RetryStep
    PROVE  PortsFit'
<1>1. owner' = owner
  BY DEF RetryStep, auto_sync_retry_task, retry_checks, retry_requests, retry_recorded
<1>2. QueueFits'
  <2>1. "SYNC" \in Requests BY DEF Requests, WorkKinds
  <2>2. ctl' = ctl \/ (Room /\ ctl' = Append(ctl, "SYNC"))
    BY DEF RetryStep, auto_sync_retry_task, retry_checks, retry_requests, retry_recorded, Granted
  <2>3. QED BY <2>1, <2>2, AppendFits DEF PortsFit, QueueFits
<1>3. QED BY <1>1, <1>2 DEF PortsFit

LEMMA ControlPorts ==
    ASSUME ctl \in Seq(Requests), PortsFit, IInv', process_control_requests
    PROVE  PortsFit'
<1>1. owner' = owner
  BY DEF process_control_requests, accept_cancel, defer_request, refuse_request, dispatch_request
<1>2. QueueFits'
  <2>1. \/ ctl' = ctl
        \/ ctl # <<>> /\ (ctl' = Tail(ctl) \/ ctl' = Append(Tail(ctl), Head(ctl)))
    BY DEF process_control_requests, accept_cancel, defer_request, refuse_request, dispatch_request
  <2>2. ctl # <<>> => /\ Head(ctl) \in Requests /\ Tail(ctl) \in Seq(Requests)
                      /\ Len(Tail(ctl)) = Len(ctl) - 1 /\ Len(ctl) \in Nat
    OBVIOUS
  <2>3. ctl # <<>> => Len(Append(Tail(ctl), Head(ctl))) = Len(ctl) BY <2>2
  <2>4. QED BY <2>1, <2>2, <2>3, DepthAssumption DEF PortsFit, QueueFits
<1>3. QED BY <1>1, <1>2 DEF PortsFit

LEMMA ClientPorts ==
    ASSUME ctl \in Seq(Requests), PortsFit, IInv', ClientStep
    PROVE  PortsFit'
<1>1. CASE process_control_requests BY <1>1, ControlPorts
<1>2. CASE inspect_pending_devices
  <2>1. CASE Pending = {} BY <1>2, <2>1, QuietPorts DEF inspect_pending_devices
  <2>2. CASE Pending # {}
    <3>1. PICK s \in Pending : inspect_open(s) \/ inspect_close(s)
      BY <1>2, <2>2 DEF inspect_pending_devices
    <3>2. owner' = owner BY <3>1 DEF inspect_open, inspect_close
    <3>3. ctl' = ctl \/ \E ev : handle_usb_event(ev)
      BY <3>1 DEF inspect_open, inspect_close
    <3>4. QED BY <3>2, <3>3, UsbEventFits DEF PortsFit, QueueFits
  <2>3. QED BY <2>1, <2>2
<1>3. CASE \/ \E s \in Slots : client_event_callback(s)
           \/ collect_scan_results \/ refusal_published
  BY <1>3, QuietPorts DEF client_event_callback, collect_scan_results, refusal_published
<1>4. QED BY <1>1, <1>2, <1>3 DEF ClientStep

LEMMA DescriptorPorts ==
    ASSUME ctl \in Seq(Requests), PortsFit, IInv', DescriptorStep
    PROVE  PortsFit'
<1>1. owner' = owner
  BY DEF DescriptorStep, scan_receive, scan_read, scan_count,
     publish_multiple_accessports, raise_cancel, scan_publish, scan_result, ScanRuns
<1>2. ctl' = ctl \/ handle_usb_event(ScanEvent)
  BY DEF DescriptorStep, scan_receive, scan_read, scan_count,
     publish_multiple_accessports, raise_cancel, scan_publish, scan_result
<1>3. QED BY <1>1, <1>2, UsbEventFits DEF PortsFit, QueueFits

LEMMA TransactionPorts ==
    ASSUME AdapterIInv, PortsFit, IInv, IInv', TransactionStep
    PROVE  PortsFit'
<1>1. ctl \in Seq(Requests) /\ txn \in TxnSet BY AdapterFacts
<1>2. sync \in SyncSnapshot BY DEF IInv, AppTypeOK, SyncTypeOK
<1>3. owner' = owner
  BY DEF TransactionStep, txn_receive, txn_start, txn_claim, txn_check, txn_data, txn_cleanup,
     txn_close, txn_closed, txn_report, txn_result, TxnRuns
<1>4. Recovering \in BOOLEAN /\ "STARTED" \in SyncEventKinds /\ "FAILED" \in SyncEventKinds
  BY DEF Recovering, SyncEventKinds, TerminalKinds
<1>5. /\ SyncEventOf("FAILED", Head(txq).kind = "RECOVER") \in SyncEvent
      /\ SyncEventOf("STARTED", Recovering) \in SyncEvent
      /\ SyncEventOf("FAILED", Recovering) \in SyncEvent
  BY <1>4, SyncEventTyped
<1>6. Finished \in SyncEvent BY <1>1, FinishedTyped
<1>7. \/ ctl' = ctl
      \/ \E ev : handle_usb_event(ev)
      \/ \E ev \in SyncEvent : \E pending : main_handle_sync_event(ev, pending)
  <2>1. CASE txn_receive BY <1>5, <2>1 DEF txn_receive
  <2>2. CASE txn_start BY <1>5, <2>2 DEF txn_start
  <2>3. CASE \E ok \in BOOLEAN : txn_claim(ok) BY <1>5, <2>3 DEF txn_claim
  <2>4. CASE txn_closed BY <2>4 DEF txn_closed
  <2>5. CASE \E pending \in BOOLEAN : txn_report(pending) BY <1>6, <2>5 DEF txn_report
  <2>6. CASE \/ txn_check \/ txn_cleanup \/ txn_result
             \/ \E result \in {"failed", "more", "last"}, moved \in BOOLEAN : txn_data(result, moved)
             \/ \E sent, ack, released \in BOOLEAN : txn_close(sent, ack, released)
    BY <2>6 DEF txn_check, txn_cleanup, txn_result, txn_data, txn_close
  <2>7. QED BY <2>1, <2>2, <2>3, <2>4, <2>5, <2>6 DEF TransactionStep
<1>8. QED BY <1>1, <1>2, <1>3, <1>7, UsbEventFits, MainEventFits DEF PortsFit, QueueFits

LEMMA UsbNextPorts ==
    ASSUME AdapterIInv, IInv, IInv', PortsFit, [UsbNext]_usbVars
    PROVE  PortsFit'
<1>1. ctl \in Seq(Requests) BY AdapterFacts
<1>2. CASE UNCHANGED usbVars BY <1>2, QuietPorts DEF usbVars
<1>3. ASSUME NEW s \in Slots, Plug(s) \/ Unplug(s) PROVE PortsFit'
  BY <1>3, QuietPorts DEF Plug, Unplug
<1>4. ASSUME monitor_started PROVE PortsFit'
  <2>1. owner' = owner /\ \E ev : handle_usb_event(ev) BY <1>4 DEF monitor_started
  <2>2. QED BY <1>1, <2>1, UsbEventFits DEF PortsFit
<1>5. CASE UsbNext
  BY <1>1, <1>3, <1>4, <1>5, ClientPorts, DescriptorPorts, TransactionPorts, OwnerPorts,
     RetryPorts DEF UsbNext
<1>6. QED BY <1>2, <1>5

\* The adapter, the application it drives, the control queue within its depth, the portal
\* call and the scheduled retry keep their types (revlink_accessport_usb.c,
\* revlink_main.c).
THEOREM UsbTypeCorrect == UsbSpec => []UsbTypeOK
<1>1. UsbInit => PortsFit
  <2>1. ASSUME UsbInit PROVE PortsFit
    <3>1. ctl = <<>> /\ owner = [pc |-> "idle", calls |-> MaxCalls]
      BY <2>1 DEF UsbInit
    <3>2. MaxCalls \in 0..MaxCalls BY CallAssumption
    <3>3. Len(ctl) = 0 BY <3>1
    <3>4. QED BY <3>1, <3>2, <3>3, DepthAssumption DEF PortsFit, QueueFits, OwnerSet
  <2>2. QED BY <2>1
<1>2. PortsFit /\ IInv /\ IInv' /\ AdapterIInv /\ [UsbNext]_usbVars => PortsFit'
  BY UsbNextPorts
<1>3. PortsFit /\ IInv /\ RetryArmed /\ AdapterIInv => UsbTypeOK
  BY DEF PortsFit, QueueFits, OwnerSet, IInv, RetryArmed, AdapterIInv, UsbTypeOK
<1>4. QED
  BY <1>1, <1>2, <1>3, ApplicationInvariance, RetryStaysArmed, AdapterInvariance, PTL DEF UsbSpec
================================================================================
