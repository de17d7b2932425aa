-------------------------- MODULE DeviceWorkProofs --------------------------
(***************************************************************************)
(* Proofs about DeviceWork, for every set of AccessPorts, every depth of   *)
(* the control queue, any consents saved earlier and any number of plugs   *)
(* and calls.                                                              *)
(***************************************************************************)
EXTENDS DeviceWork, FunctionTheorems, FiniteSetTheorems, TLAPS

\* The types of the variables, by name.
SlotSet == [dev : Devices, busy : BOOLEAN, scan : BOOLEAN, closing : BOOLEAN,
            polite : BOOLEAN]
TxnSet == [pc : TxnPcs, kind : WorkKinds, target : Devices, begun : BOOLEAN,
           ok : BOOLEAN, cut : BOOLEAN, late : BOOLEAN]
UpSet == [consent : BOOLEAN, auto : BOOLEAN, attempted : BOOLEAN, staged : BOOLEAN,
          pin : Devices, state : UploadStates, recovery : BOOLEAN]
DelSet == [consent : BOOLEAN, state : DeleteStates, recovery : BOOLEAN, forget : BOOLEAN]
SyncSet == {"idle", "busy", "cancelling"}
AutoSet == [pc : {"none", "eval", "request"}, dev : Devices]
CacheSet == [Serials -> {"none", "present", "absent"}]
LeftSet == [plugs : 0..MaxPlugs, calls : 0..MaxCalls]
HistSet == [tries : Nat, lost : BOOLEAN, switched : BOOLEAN, doubt : BOOLEAN,
            overrun : BOOLEAN, lapsed : BOOLEAN]
QueueFits(q) == q \in Seq(Requests) /\ Len(q) <= QueueDepth

LEMMA TypeByParts ==
    /\ TypeOK <=>
          /\ plugged \in Devices /\ holds \in SUBSET Serials /\ slot \in SlotSet
          /\ polite \in BOOLEAN /\ latch \in BOOLEAN /\ cancel \in BOOLEAN
          /\ QueueFits(ctl) /\ held \in Requests /\ txn \in TxnSet
          /\ up \in UpSet /\ del \in DelSet /\ sync \in SyncSet
          /\ connected \in Devices /\ autoDue \in BOOLEAN /\ auto \in AutoSet
          /\ displayed \in Devices /\ cache \in CacheSet
          /\ left \in LeftSet /\ hist \in HistSet
    /\ TypeOK' <=>
          /\ plugged' \in Devices /\ holds' \in SUBSET Serials /\ slot' \in SlotSet
          /\ polite' \in BOOLEAN /\ latch' \in BOOLEAN /\ cancel' \in BOOLEAN
          /\ QueueFits(ctl') /\ held' \in Requests /\ txn' \in TxnSet
          /\ up' \in UpSet /\ del' \in DelSet /\ sync' \in SyncSet
          /\ connected' \in Devices /\ autoDue' \in BOOLEAN /\ auto' \in AutoSet
          /\ displayed' \in Devices /\ cache' \in CacheSet
          /\ left' \in LeftSet /\ hist' \in HistSet
  BY DEF TypeOK, SlotSet, TxnSet, UpSet, DelSet, SyncSet, AutoSet, CacheSet, LeftSet,
     HistSet, QueueFits

LEMMA TypeFacts ==
    ASSUME WorkIInv
    PROVE  /\ plugged \in Devices /\ holds \in SUBSET Serials /\ slot \in SlotSet
           /\ polite \in BOOLEAN /\ latch \in BOOLEAN /\ cancel \in BOOLEAN
           /\ QueueFits(ctl) /\ held \in Requests /\ txn \in TxnSet
           /\ up \in UpSet /\ del \in DelSet /\ sync \in SyncSet
           /\ connected \in Devices /\ autoDue \in BOOLEAN /\ auto \in AutoSet
           /\ displayed \in Devices /\ cache \in CacheSet
           /\ left \in LeftSet /\ hist \in HistSet
  BY TypeByParts DEF WorkIInv

(***************************************************************************)
(* The control queue                                                       *)
(***************************************************************************)

\* The requests of a kind in a queue, in hand, and with the transaction task.
Spots(q, kind) == {i \in DOMAIN q : q[i].kind = kind}
Among(q, kind) == Cardinality(Spots(q, kind))
Hand(r, kind) == IF r.kind = kind THEN 1 ELSE 0
Work(t, kind) == IF t.kind = kind /\ t.pc \notin {"idle", "mark", "forget"} THEN 1 ELSE 0

LEMMA PlacesAre ==
    ASSUME NEW kind
    PROVE  /\ Places(kind) = Among(ctl, kind) + Hand(held, kind) + Work(txn, kind)
           /\ Places(kind)' = Among(ctl', kind) + Hand(held', kind) + Work(txn', kind)
<1>1. ASSUME NEW t
      PROVE  (t.kind = kind /\ t.pc # "idle" /\ ~(t.pc \in {"mark", "forget"}))
               <=> (t.kind = kind /\ t.pc \notin {"idle", "mark", "forget"})
  OBVIOUS
<1>2. QED BY <1>1 DEF Places, Among, Spots, Hand, Work, Recording

LEMMA SpotsFinite ==
    ASSUME NEW q \in Seq(Requests), NEW kind
    PROVE  IsFiniteSet(Spots(q, kind)) /\ Among(q, kind) \in Nat
<1>1. IsFiniteSet(1..Len(q)) BY FS_Interval
<1>2. Spots(q, kind) \subseteq 1..Len(q) BY DEF Spots
<1>3. IsFiniteSet(Spots(q, kind)) BY <1>1, <1>2, FS_Subset
<1>4. QED BY <1>3, FS_CardinalityType DEF Among

LEMMA AmongAppend ==
    ASSUME NEW q \in Seq(Requests), NEW r \in Requests, NEW kind
    PROVE  Among(Append(q, r), kind) = Among(q, kind) + Hand(r, kind)
<1>1. /\ Append(q, r) \in Seq(Requests) /\ Len(Append(q, r)) = Len(q) + 1
      /\ \A i \in 1..Len(q) : Append(q, r)[i] = q[i]
      /\ Append(q, r)[Len(q) + 1] = r
      /\ DOMAIN q = 1..Len(q) /\ DOMAIN Append(q, r) = 1..Len(q) + 1
  OBVIOUS
<1>2. IsFiniteSet(Spots(q, kind)) /\ Among(q, kind) \in Nat BY SpotsFinite
<1>3. CASE r.kind = kind
  <2>1. Spots(Append(q, r), kind) = Spots(q, kind) \union {Len(q) + 1}
    BY <1>1, <1>3 DEF Spots
  <2>2. Len(q) + 1 \notin Spots(q, kind) BY <1>1 DEF Spots
  <2>3. Cardinality(Spots(Append(q, r), kind)) = Cardinality(Spots(q, kind)) + 1
    BY <1>2, <2>1, <2>2, FS_AddElement
  <2>4. QED BY <1>3, <2>3 DEF Among, Hand
<1>4. CASE r.kind # kind
  <2>1. Spots(Append(q, r), kind) = Spots(q, kind) BY <1>1, <1>4 DEF Spots
  <2>2. QED BY <1>2, <1>4, <2>1 DEF Among, Hand
<1>5. QED BY <1>3, <1>4

LEMMA AmongTail ==
    ASSUME NEW q \in Seq(Requests), q # <<>>, NEW kind
    PROVE  Among(q, kind) = Hand(Head(q), kind) + Among(Tail(q), kind)
<1>1. /\ Tail(q) \in Seq(Requests) /\ Len(Tail(q)) = Len(q) - 1 /\ Len(q) >= 1
      /\ \A i \in 1..Len(q) - 1 : Tail(q)[i] = q[i + 1]
      /\ Head(q) = q[1]
      /\ DOMAIN q = 1..Len(q) /\ DOMAIN Tail(q) = 1..Len(q) - 1
  OBVIOUS
<1> DEFINE rest == Spots(q, kind) \ {1}
           shift == [i \in Spots(Tail(q), kind) |-> i + 1]
<1>2. shift \in Bijection(Spots(Tail(q), kind), rest)
  <2>1. \A i \in Spots(Tail(q), kind) : i + 1 \in rest
    BY <1>1 DEF Spots
  <2>2. \A j \in rest : j - 1 \in Spots(Tail(q), kind)
    BY <1>1 DEF Spots
  <2>3. Spots(Tail(q), kind) \subseteq Nat /\ rest \subseteq Nat BY <1>1 DEF Spots
  <2> HIDE DEF rest
  <2>4. shift \in [Spots(Tail(q), kind) -> rest] BY <2>1
  <2>5. \A a, b \in Spots(Tail(q), kind) : shift[a] = shift[b] => a = b
    BY <2>3
  <2>6. \A j \in rest : \E i \in Spots(Tail(q), kind) : shift[i] = j
    <3> SUFFICES ASSUME NEW j \in rest PROVE \E i \in Spots(Tail(q), kind) : shift[i] = j
      OBVIOUS
    <3>1. j - 1 \in Spots(Tail(q), kind) /\ j \in Nat BY <2>2, <2>3
    <3>2. shift[j - 1] = j BY <3>1
    <3>3. QED BY <3>1, <3>2
  <2>7. QED BY <2>4, <2>5, <2>6, Fun_IsBij DEF Bijection, Injection, Surjection, IsInjective
<1>3. IsFiniteSet(Spots(Tail(q), kind)) BY <1>1, SpotsFinite
<1>4. ExistsBijection(Spots(Tail(q), kind), rest) BY <1>2 DEF ExistsBijection
<1>5. Cardinality(rest) = Among(Tail(q), kind) /\ IsFiniteSet(rest)
  BY <1>3, <1>4, FS_Bijection, FS_CardinalityType DEF Among
<1>6. IsFiniteSet(Spots(q, kind)) BY SpotsFinite
<1>7. Among(Tail(q), kind) \in Nat BY <1>1, SpotsFinite
<1>8. CASE Head(q).kind = kind
  <2>1. 1 \in Spots(q, kind) BY <1>1, <1>8 DEF Spots
  <2>2. Cardinality(rest) = Cardinality(Spots(q, kind)) - 1 BY <1>6, <2>1, FS_RemoveElement
  <2>3. Cardinality(Spots(q, kind)) \in Nat BY <1>6, FS_CardinalityType
  <2>4. QED BY <1>5, <1>8, <2>2, <2>3 DEF Among, Hand
<1>9. CASE Head(q).kind # kind
  <2>1. rest = Spots(q, kind) BY <1>1, <1>9 DEF Spots
  <2> HIDE DEF rest
  <2>2. Among(q, kind) = Among(Tail(q), kind) BY <1>5, <2>1 DEF Among
  <2>3. Hand(Head(q), kind) = 0 BY <1>9 DEF Hand
  <2>4. QED BY <1>7, <2>2, <2>3
<1>10. QED BY <1>8, <1>9

\* Every delete in a queue names the dataset d.
Aims(q, d) == \A i \in DOMAIN q : q[i].kind = "DELETE" => q[i].target = d

LEMMA AimsAppend ==
    ASSUME NEW q \in Seq(Requests), NEW r \in Requests, NEW d, Aims(q, d),
           r.kind = "DELETE" => r.target = d
    PROVE  Aims(Append(q, r), d)
<1>1. /\ \A i \in 1..Len(q) : Append(q, r)[i] = q[i]
      /\ Append(q, r)[Len(q) + 1] = r
      /\ DOMAIN q = 1..Len(q) /\ DOMAIN Append(q, r) = 1..Len(q) + 1
      /\ Len(q) \in Nat
  OBVIOUS
<1>2. \A i \in 1..Len(q) + 1 : i \in 1..Len(q) \/ i = Len(q) + 1 BY <1>1
<1>3. QED BY <1>1, <1>2 DEF Aims

LEMMA AimsTail ==
    ASSUME NEW q \in Seq(Requests), q # <<>>, NEW d, Aims(q, d)
    PROVE  Aims(Tail(q), d) /\ (Head(q).kind = "DELETE" => Head(q).target = d)
<1>1. /\ Len(q) >= 1 /\ Len(q) \in Nat
      /\ \A i \in 1..Len(q) - 1 : Tail(q)[i] = q[i + 1]
      /\ Head(q) = q[1]
      /\ DOMAIN q = 1..Len(q) /\ DOMAIN Tail(q) = 1..Len(q) - 1
  OBVIOUS
<1>2. \A i \in 1..Len(q) - 1 : i + 1 \in 1..Len(q) BY <1>1
<1>3. QED BY <1>1, <1>2 DEF Aims

LEMMA AimsNothing ==
    ASSUME NEW q \in Seq(Requests), NEW d, Among(q, "DELETE") = 0
    PROVE  Aims(q, d)
<1>1. IsFiniteSet(Spots(q, "DELETE")) BY SpotsFinite
<1>2. Spots(q, "DELETE") = {} BY <1>1, FS_EmptySet DEF Among
<1>3. QED BY <1>2 DEF Aims, Spots

\* What a queue with room becomes, and one that is read.
LEMMA QueueMoves ==
    ASSUME NEW q, QueueFits(q)
    PROVE  /\ \A r \in Requests : Len(q) < QueueDepth => QueueFits(Append(q, r))
           /\ q # <<>> => QueueFits(Tail(q)) /\ Head(q) \in Requests
  BY QueueAssumption DEF QueueFits

(***************************************************************************)
(* What the updates of each record leave                                   *)
(***************************************************************************)

\* slot: the device begins to leave, becomes busy or idle, has been scanned, or has been
\* told of the end of the session.
LEMMA SlotMoves ==
    ASSUME slot \in SlotSet, NEW b \in BOOLEAN
    PROVE  /\ slot' = [slot EXCEPT !.closing = b] =>
                /\ slot' \in SlotSet /\ slot'.closing = b /\ slot'.dev = slot.dev
                /\ slot'.busy = slot.busy /\ slot'.scan = slot.scan
                /\ slot'.polite = slot.polite
           /\ slot' = [slot EXCEPT !.busy = b] =>
                /\ slot' \in SlotSet /\ slot'.busy = b /\ slot'.dev = slot.dev
                /\ slot'.closing = slot.closing /\ slot'.scan = slot.scan
                /\ slot'.polite = slot.polite
           /\ slot' = [slot EXCEPT !.scan = FALSE, !.busy = FALSE] =>
                /\ slot' \in SlotSet /\ ~slot'.busy /\ ~slot'.scan /\ slot'.dev = slot.dev
                /\ slot'.closing = slot.closing /\ slot'.polite = slot.polite
           /\ slot' = [slot EXCEPT !.polite = b] =>
                /\ slot' \in SlotSet /\ slot'.polite = b /\ slot'.dev = slot.dev
                /\ slot'.closing = slot.closing /\ slot'.scan = slot.scan
                /\ slot'.busy = slot.busy
  BY DEF SlotSet

\* slot: a device is opened, or the slot is emptied.
LEMMA SlotFills ==
    ASSUME NEW d \in Devices
    PROVE  /\ slot' = [NoSlot EXCEPT !.dev = d, !.busy = TRUE, !.scan = TRUE] =>
                /\ slot' \in SlotSet /\ slot'.dev = d /\ slot'.busy /\ slot'.scan
                /\ ~slot'.closing /\ ~slot'.polite
           /\ slot' = NoSlot =>
                /\ slot' \in SlotSet /\ slot'.dev = None /\ ~slot'.busy /\ ~slot'.scan
                /\ ~slot'.closing /\ ~slot'.polite
<1>1. /\ NoSlot \in SlotSet /\ NoSlot.dev = None /\ ~NoSlot.busy /\ ~NoSlot.scan
      /\ ~NoSlot.closing /\ ~NoSlot.polite
  BY DEF SlotSet, NoSlot, Devices
<1>2. QED BY <1>1 DEF SlotSet

\* txn: within a transaction only the program counter and the outcome move.
SameWork == txn' \in TxnSet /\ txn'.kind = txn.kind /\ txn'.target = txn.target
              /\ txn'.late = txn.late

LEMMA TxnMoves ==
    ASSUME txn \in TxnSet, NEW pc \in TxnPcs, NEW a \in BOOLEAN, NEW b \in BOOLEAN
    PROVE  /\ txn' = [txn EXCEPT !.pc = pc] =>
                SameWork /\ txn'.pc = pc /\ txn'.begun = txn.begun /\ txn'.ok = txn.ok
           /\ txn' = [txn EXCEPT !.pc = pc, !.cut = a] =>
                SameWork /\ txn'.pc = pc /\ txn'.begun = txn.begun /\ txn'.ok = txn.ok
           /\ txn' = [txn EXCEPT !.pc = pc, !.ok = a] =>
                SameWork /\ txn'.pc = pc /\ txn'.begun = txn.begun /\ txn'.ok = a
           /\ txn' = [txn EXCEPT !.pc = pc, !.begun = a] =>
                SameWork /\ txn'.pc = pc /\ txn'.begun = a /\ txn'.ok = txn.ok
           /\ txn' = [txn EXCEPT !.pc = pc, !.begun = a, !.ok = b] =>
                SameWork /\ txn'.pc = pc /\ txn'.begun = a /\ txn'.ok = b
           /\ txn' = [txn EXCEPT !.pc = pc, !.cut = a, !.ok = b] =>
                SameWork /\ txn'.pc = pc /\ txn'.begun = txn.begun /\ txn'.ok = b
  BY DEF TxnSet, SameWork

\* txn: work is taken, or its result collected.
LEMMA TxnTakes ==
    ASSUME NEW kind \in WorkKinds, NEW target \in Devices, NEW late \in BOOLEAN
    PROVE  /\ txn' = [TxnIdle EXCEPT !.pc = "start", !.kind = kind, !.target = target,
                                     !.late = late] =>
                /\ txn' \in TxnSet /\ txn'.pc = "start" /\ txn'.kind = kind
                /\ txn'.target = target /\ ~txn'.begun /\ ~txn'.ok /\ txn'.late = late
           /\ txn' = TxnIdle =>
                /\ txn' \in TxnSet /\ txn'.pc = "idle" /\ txn'.kind = "SYNC"
                /\ ~txn'.begun /\ ~txn'.ok /\ ~txn'.late
<1>1. /\ TxnIdle \in TxnSet /\ TxnIdle.pc = "idle" /\ TxnIdle.kind = "SYNC"
      /\ ~TxnIdle.begun /\ ~TxnIdle.ok /\ ~TxnIdle.late
  BY DEF TxnSet, TxnIdle, TxnPcs, WorkKinds, Devices
<1>2. "start" \in TxnPcs BY DEF TxnPcs
<1>3. QED BY <1>1, <1>2 DEF TxnSet

\* up: an outcome is published.
LEMMA UploadObserved ==
    ASSUME up \in UpSet, NEW state \in UploadStates, NEW b \in BOOLEAN,
           observe_upload(state, b)
    PROVE  /\ up' \in UpSet /\ up'.state = state /\ up'.consent = up.consent
           /\ up'.attempted = up.attempted
<1> DEFINE kept == up.staged /\ state # "VERIFIED"
           pin == IF state = "VERIFIED" THEN None ELSE up.pin
<1>1. kept \in BOOLEAN BY DEF UpSet
<1>2. pin \in Devices BY DEF UpSet, Devices
<1>3. up' = [up EXCEPT !.state = state, !.recovery = b, !.staged = kept, !.pin = pin]
  BY DEF observe_upload
<1> HIDE DEF kept, pin
<1>4. QED BY <1>1, <1>2, <1>3 DEF UpSet

\* del: an outcome is published.
LEMMA DeleteObserved ==
    ASSUME del \in DelSet, NEW state \in DeleteStates, NEW b \in BOOLEAN,
           observe_delete(state, b)
    PROVE  del' \in DelSet /\ del'.state = state /\ del'.consent = del.consent
<1> DEFINE kept == del.forget /\ state # "FAILED"
<1>1. kept \in BOOLEAN BY DEF DelSet
<1>2. del' = [del EXCEPT !.state = state, !.recovery = b, !.forget = kept]
  BY DEF observe_delete
<1> HIDE DEF kept
<1>3. QED BY <1>1, <1>2 DEF DelSet

\* up: what the owner, the automatic write and a new attachment set.
LEMMA UploadMoves ==
    ASSUME up \in UpSet, NEW b \in BOOLEAN, NEW state \in UploadStates, NEW pin \in Devices
    PROVE  /\ up' = [up EXCEPT !.attempted = b] =>
                /\ up' \in UpSet /\ up'.attempted = b /\ up'.state = up.state
                /\ up'.consent = up.consent
           /\ up' = [up EXCEPT !.consent = b] =>
                /\ up' \in UpSet /\ up'.attempted = up.attempted /\ up'.state = up.state
                /\ up'.consent = b
           /\ up' = [up EXCEPT !.auto = b] =>
                /\ up' \in UpSet /\ up'.attempted = up.attempted /\ up'.state = up.state
                /\ up'.consent = up.consent
           /\ up' = [up EXCEPT !.state = state] =>
                /\ up' \in UpSet /\ up'.attempted = up.attempted /\ up'.state = state
                /\ up'.consent = up.consent
           /\ up' = [up EXCEPT !.state = state, !.staged = b, !.pin = pin] =>
                /\ up' \in UpSet /\ up'.attempted = up.attempted /\ up'.state = state
                /\ up'.consent = up.consent
  BY DEF UpSet

\* up: a new attachment.
LEMMA UploadRenewed ==
    ASSUME up \in UpSet, notify_attach
    PROVE  up' \in UpSet /\ up'.state = up.state /\ up'.consent = up.consent
  BY DEF UpSet, notify_attach

\* del: what the owner sets.
LEMMA DeleteMoves ==
    ASSUME del \in DelSet, NEW b \in BOOLEAN, NEW state \in DeleteStates
    PROVE  /\ del' = [del EXCEPT !.consent = b] =>
                del' \in DelSet /\ del'.state = del.state /\ del'.consent = b
           /\ del' = [del EXCEPT !.state = state, !.forget = b] =>
                del' \in DelSet /\ del'.state = state /\ del'.consent = del.consent
           /\ del' = [del EXCEPT !.forget = b] =>
                del' \in DelSet /\ del'.state = del.state /\ del'.consent = del.consent
  BY DEF DelSet

\* hist: each step writes some of the fields.
LEMMA HistMoves ==
    ASSUME hist \in HistSet, NEW n \in Nat, NEW a \in BOOLEAN, NEW b \in BOOLEAN
    PROVE  /\ hist' = [hist EXCEPT !.tries = n] =>
                /\ hist' \in HistSet /\ hist'.tries = n /\ hist'.lost = hist.lost
                /\ hist'.switched = hist.switched /\ hist'.doubt = hist.doubt
                /\ hist'.overrun = hist.overrun /\ hist'.lapsed = hist.lapsed
           /\ hist' = [hist EXCEPT !.lapsed = a] =>
                /\ hist' \in HistSet /\ hist'.tries = hist.tries /\ hist'.lost = hist.lost
                /\ hist'.switched = hist.switched /\ hist'.doubt = hist.doubt
                /\ hist'.overrun = hist.overrun /\ hist'.lapsed = a
           /\ hist' = [hist EXCEPT !.lost = a] =>
                /\ hist' \in HistSet /\ hist'.tries = hist.tries /\ hist'.lost = a
                /\ hist'.switched = hist.switched /\ hist'.doubt = hist.doubt
                /\ hist'.overrun = hist.overrun /\ hist'.lapsed = hist.lapsed
           /\ hist' = [hist EXCEPT !.switched = a] =>
                /\ hist' \in HistSet /\ hist'.tries = hist.tries /\ hist'.lost = hist.lost
                /\ hist'.switched = a /\ hist'.doubt = hist.doubt
                /\ hist'.overrun = hist.overrun /\ hist'.lapsed = hist.lapsed
           /\ hist' = [hist EXCEPT !.switched = a, !.lost = b] =>
                /\ hist' \in HistSet /\ hist'.tries = hist.tries /\ hist'.lost = b
                /\ hist'.switched = a /\ hist'.doubt = hist.doubt
                /\ hist'.overrun = hist.overrun /\ hist'.lapsed = hist.lapsed
           /\ hist' = [hist EXCEPT !.doubt = a, !.overrun = b] =>
                /\ hist' \in HistSet /\ hist'.tries = hist.tries /\ hist'.lost = hist.lost
                /\ hist'.switched = hist.switched /\ hist'.doubt = a
                /\ hist'.overrun = b /\ hist'.lapsed = hist.lapsed
  BY DEF HistSet

\* hist: a device is unplugged.
LEMMA HistUnplugged ==
    ASSUME hist \in HistSet,
           hist' = [hist EXCEPT !.tries = 0, !.doubt = FALSE, !.overrun = FALSE,
                                !.lapsed = FALSE]
    PROVE  /\ hist' \in HistSet /\ hist'.tries = 0 /\ hist'.lost = hist.lost
           /\ hist'.switched = hist.switched /\ ~hist'.doubt
  BY DEF HistSet

\* The end of a session is announced, or an announcement withdrawn.
LEMMA Announced ==
    ASSUME slot \in SlotSet, hist \in HistSet, NEW sent \in BOOLEAN, NEW doubt \in BOOLEAN,
           Announces(sent, doubt), up.attempted \in BOOLEAN
    PROVE  /\ slot' \in SlotSet /\ slot'.polite = sent /\ slot'.dev = slot.dev
           /\ slot'.closing = slot.closing /\ slot'.scan = slot.scan
           /\ slot'.busy = slot.busy
           /\ hist' \in HistSet /\ hist'.tries = hist.tries /\ hist'.lost = hist.lost
           /\ hist'.switched = hist.switched /\ hist'.lapsed = hist.lapsed
           /\ hist'.doubt = (hist.doubt \/ doubt)
           /\ hist'.overrun = (hist.overrun \/ (slot.polite /\ ~sent
                                                  /\ (up.attempted \/ hist.doubt)))
<1> DEFINE d == hist.doubt \/ doubt
           o == hist.overrun \/ (slot.polite /\ ~sent /\ (up.attempted \/ hist.doubt))
<1>1. d \in BOOLEAN /\ o \in BOOLEAN BY DEF HistSet, SlotSet
<1>2. slot' = [slot EXCEPT !.polite = sent] /\ hist' = [hist EXCEPT !.doubt = d, !.overrun = o]
  BY DEF Announces
<1>3. QED
  <2> HIDE DEF d, o
  <2>1. /\ hist' \in HistSet /\ hist'.tries = hist.tries /\ hist'.lost = hist.lost
        /\ hist'.switched = hist.switched /\ hist'.doubt = d /\ hist'.overrun = o
        /\ hist'.lapsed = hist.lapsed
    BY <1>1, <1>2, HistMoves, 0 \in Nat
  <2>2. /\ slot' \in SlotSet /\ slot'.polite = sent /\ slot'.dev = slot.dev
        /\ slot'.closing = slot.closing /\ slot'.scan = slot.scan /\ slot'.busy = slot.busy
    BY <1>2, SlotMoves
  <2>3. QED BY <2>1, <2>2 DEF d, o

\* The coordinator and the automatic write stay well typed.
LEMMA RootTypes ==
    ASSUME sync \in SyncSet, autoDue \in BOOLEAN, auto \in AutoSet, NEW kind
    PROVE  /\ handle_sync_event(kind) => sync' \in SyncSet /\ autoDue' \in BOOLEAN
           /\ Returns => auto' \in AutoSet
           /\ \A d \in Devices, pc \in {"none", "request"} :
                auto' = [pc |-> pc, dev |-> d] => auto' \in AutoSet
<1>1. handle_sync_event(kind) => sync' \in SyncSet BY DEF handle_sync_event, SyncSet
<1>2. handle_sync_event(kind) => autoDue' \in BOOLEAN BY DEF handle_sync_event
<1>3. Returns => auto' \in AutoSet BY DEF Returns, AutoSet
<1>4. \A d \in Devices, pc \in {"none", "request"} :
        auto' = [pc |-> pc, dev |-> d] => auto' \in AutoSet
  BY DEF AutoSet
<1>5. QED BY <1>1, <1>2, <1>3, <1>4

(***************************************************************************)
(* The parts of the invariant in the steps that leave them alone           *)
(***************************************************************************)

\* What WorkOwed says of the queue, the hand and the task.
LEMMA OwedIs ==
    /\ WorkOwed <=>
          /\ Among(ctl, "UPLOAD") + Hand(held, "UPLOAD") + Work(txn, "UPLOAD")
               = IF up.state = "RUNNING" THEN 1 ELSE 0
          /\ Among(ctl, "DELETE") + Hand(held, "DELETE") + Work(txn, "DELETE")
               = IF del.state = "RUNNING" /\ ~hist.lost THEN 1 ELSE 0
    /\ WorkOwed' <=>
          /\ Among(ctl', "UPLOAD") + Hand(held', "UPLOAD") + Work(txn', "UPLOAD")
               = IF up'.state = "RUNNING" THEN 1 ELSE 0
          /\ Among(ctl', "DELETE") + Hand(held', "DELETE") + Work(txn', "DELETE")
               = IF del'.state = "RUNNING" /\ ~hist'.lost THEN 1 ELSE 0
  BY PlacesAre DEF WorkOwed, UploadOwed, DeleteOwed

\* The numbers involved.
LEMMA OwedNumbers ==
    ASSUME WorkIInv, NEW kind
    PROVE  /\ Among(ctl, kind) \in Nat
           /\ Hand(held, kind) \in 0..1 /\ Work(txn, kind) \in 0..1
<1>1. Among(ctl, kind) \in Nat BY TypeFacts, SpotsFinite DEF QueueFits
<1>2. QED BY <1>1 DEF Hand, Work

\* No request is taken or answered.
LEMMA OwedWithin ==
    ASSUME WorkIInv, UNCHANGED <<ctl, held>>, up'.state = up.state, del'.state = del.state,
           txn'.kind = txn.kind,
           txn'.pc \in {"idle", "mark", "forget"} <=> txn.pc \in {"idle", "mark", "forget"},
           hist'.lost = hist.lost
    PROVE  WorkOwed'
<1>1. \A kind : Work(txn', kind) = Work(txn, kind) BY DEF Work
<1>2. QED BY <1>1, OwedIs DEF WorkIInv

\* A request that is no change is queued or taken.
LEMMA OwedBeside ==
    ASSUME WorkIInv, up'.state = up.state, del'.state = del.state,
           txn'.kind = txn.kind, held' = held,
           txn'.pc \in {"idle", "mark", "forget"} <=> txn.pc \in {"idle", "mark", "forget"},
           hist'.lost = hist.lost,
           \A kind \in {"UPLOAD", "DELETE"} : Among(ctl', kind) = Among(ctl, kind)
    PROVE  WorkOwed'
<1>1. \A kind : Work(txn', kind) = Work(txn, kind) BY DEF Work
<1>2. QED BY <1>1, OwedIs DEF WorkIInv

LEMMA SlotWithin ==
    ASSUME WorkIInv, slot'.dev = slot.dev, slot'.busy = slot.busy, slot'.scan = slot.scan,
           txn'.pc = "idle" <=> txn.pc = "idle"
    PROVE  SlotHeld'
  BY DEF WorkIInv, SlotHeld

LEMMA TxnWithin ==
    ASSUME WorkIInv, UNCHANGED <<txn, latch, cancel, holds>>, slot'.dev = slot.dev
    PROVE  TxnInOrder'
  BY DEF WorkIInv, TxnInOrder, Recording

LEMMA ConsentWithin ==
    ASSUME WorkIInv, up'.consent = up.consent, del'.consent = del.consent,
           up'.state = "RUNNING" => up.state = "RUNNING",
           del'.state = "RUNNING" => del.state = "RUNNING"
    PROVE  Consented'
  BY DEF WorkIInv, Consented

LEMMA AttemptWithin ==
    ASSUME WorkIInv, hist'.tries = hist.tries, hist.overrun => hist'.overrun,
           hist.lapsed => hist'.lapsed, up'.attempted = up.attempted, slot'.dev = slot.dev, polite' = polite,
           slot'.closing => slot.closing /\ slot'.polite = slot.polite,
           plugged # None => plugged' # None
    PROVE  AttemptKept'
  BY DEF WorkIInv, AttemptKept

LEMMA DoubtWithin ==
    ASSUME WorkIInv, hist'.doubt = hist.doubt, hist.overrun => hist'.overrun,
           latch' = latch, slot'.closing => slot.closing /\ slot'.polite = slot.polite
    PROVE  DoubtKept'
  BY DEF WorkIInv, DoubtKept

LEMMA AimedWithin ==
    ASSUME WorkIInv, UNCHANGED <<ctl, held, displayed>>, hist'.switched = hist.switched,
           txn'.kind = txn.kind, txn'.target = txn.target,
           txn'.pc = "idle" <=> txn.pc = "idle"
    PROVE  DeleteAimed'
  BY DEF WorkIInv, DeleteAimed

\* DeleteAimed, with the queue's part by name.
LEMMA AimedIs ==
    /\ DeleteAimed <=> (~hist.switched =>
          /\ Aims(ctl, displayed)
          /\ held.kind = "DELETE" => held.target = displayed
          /\ txn.kind = "DELETE" /\ txn.pc # "idle" => txn.target = displayed)
    /\ DeleteAimed' <=> (~hist'.switched =>
          /\ Aims(ctl', displayed')
          /\ held'.kind = "DELETE" => held'.target = displayed'
          /\ txn'.kind = "DELETE" /\ txn'.pc # "idle" => txn'.target = displayed')
  BY DEF DeleteAimed, Aims

\* While no delete is owed none is anywhere, so that any dataset may be put on display.
LEMMA AimedAnyhow ==
    ASSUME WorkIInv, del.state # "RUNNING" \/ hist.lost, NEW d
    PROVE  /\ Aims(ctl, d) /\ held.kind # "DELETE"
           /\ txn.kind = "DELETE" /\ txn.pc # "idle" => Recording
           /\ Among(ctl, "DELETE") = 0 /\ Hand(held, "DELETE") = 0
           /\ Work(txn, "DELETE") = 0
<1>1. Among(ctl, "DELETE") + Hand(held, "DELETE") + Work(txn, "DELETE") = 0
  BY OwedIs DEF WorkIInv
<1>2. /\ Among(ctl, "DELETE") = 0 /\ Hand(held, "DELETE") = 0 /\ Work(txn, "DELETE") = 0
  BY <1>1, OwedNumbers
<1>3. Aims(ctl, d) BY <1>2, TypeFacts, AimsNothing DEF QueueFits
<1>4. QED BY <1>2, <1>3 DEF Hand, Work, Recording

\* A change in one of its places is owed, and is in no other.
LEMMA ChangeOwed ==
    ASSUME WorkIInv
    PROVE  /\ txn.kind = "UPLOAD" /\ txn.pc # "idle" => up.state = "RUNNING" /\ up.consent
           /\ txn.kind = "DELETE" /\ txn.pc # "idle" /\ ~Recording =>
                del.state = "RUNNING" /\ ~hist.lost /\ del.consent
           /\ held.kind = "UPLOAD" => up.state = "RUNNING" /\ up.consent
           /\ held.kind = "DELETE" => del.state = "RUNNING" /\ ~hist.lost /\ del.consent
<1>1. /\ Among(ctl, "UPLOAD") \in Nat /\ Hand(held, "UPLOAD") \in 0..1
      /\ Work(txn, "UPLOAD") \in 0..1
      /\ Among(ctl, "DELETE") \in Nat /\ Hand(held, "DELETE") \in 0..1
      /\ Work(txn, "DELETE") \in 0..1
  BY OwedNumbers
<1>2. WorkOwed /\ Consented BY DEF WorkIInv
<1>3. /\ Hand(held, "UPLOAD") = 1 \/ Work(txn, "UPLOAD") = 1 => up.state = "RUNNING"
      /\ Hand(held, "DELETE") = 1 \/ Work(txn, "DELETE") = 1 =>
            del.state = "RUNNING" /\ ~hist.lost
  BY <1>1, <1>2, OwedIs
<1>4. Recording => txn.kind = "DELETE" BY DEF WorkIInv, TxnInOrder, Recording
<1>5. QED BY <1>2, <1>3, <1>4 DEF Hand, Work, Consented, Recording

(***************************************************************************)
(* The port                                                                *)
(***************************************************************************)

LEMMA PlugKeeps == ASSUME WorkIInv, NEW d \in Serials, Plug(d) PROVE WorkIInv'
<1>1. UNCHANGED <<holds, portVars, queueVars, txn, up, del, rootVars, cardVars, hist>>
  BY DEF Plug
<1>2. TypeOK'
  <2>1. plugged' \in Devices BY DEF Plug, Devices
  <2>2. left' \in LeftSet BY TypeFacts, CallBounds DEF Plug, LeftSet
  <2>3. QED BY <1>1, <2>1, <2>2, TypeFacts, TypeByParts
        DEF portVars, queueVars, rootVars, cardVars
<1>3. AttemptKept'
  <2>1. plugged' # None BY SerialAssumption DEF Plug
  <2>2. QED BY <1>1, <2>1, AttemptWithin DEF portVars
<1>4. QED
  BY <1>1, <1>2, <1>3, OwedWithin, SlotWithin, TxnWithin, ConsentWithin, DoubtWithin,
     AimedWithin
  DEF WorkIInv, portVars, queueVars, cardVars

LEMMA UnplugKeeps == ASSUME WorkIInv, Unplug PROVE WorkIInv'
<1>1. UNCHANGED <<holds, polite, latch, queueVars, txn, up, del, rootVars, cardVars, left>>
  BY DEF Unplug
<1>2. /\ slot' \in SlotSet /\ slot'.dev = slot.dev /\ slot'.busy = slot.busy
      /\ slot'.scan = slot.scan
  <2>1. (slot.dev # None) \in BOOLEAN OBVIOUS
  <2>2. QED BY <2>1, TypeFacts, SlotMoves DEF Unplug
<1>3. /\ hist' \in HistSet /\ hist'.tries = 0 /\ hist'.lost = hist.lost
      /\ hist'.switched = hist.switched /\ ~hist'.doubt
  BY TypeFacts, HistUnplugged DEF Unplug
<1>4. TypeOK'
  <2>1. plugged' \in Devices BY DEF Unplug, Devices
  <2>2. QED BY <1>1, <1>2, <1>3, <2>1, TypeFacts, TypeByParts
        DEF queueVars, rootVars, cardVars
<1>5. AttemptKept' /\ DoubtKept' BY <1>3 DEF AttemptKept, DoubtKept
<1>6. QED
  BY <1>1, <1>2, <1>3, <1>4, <1>5, OwedWithin, SlotWithin, TxnWithin, ConsentWithin,
     AimedWithin
  DEF WorkIInv, queueVars, cardVars, busVars

LEMMA ReenumerateKeeps == ASSUME WorkIInv, Reenumerate PROVE WorkIInv'
<1>1. UNCHANGED <<busVars, polite, latch, queueVars, txn, up, del, rootVars, cardVars, hist>>
  BY DEF Reenumerate
<1>2. /\ slot' \in SlotSet /\ slot'.dev = slot.dev /\ slot'.busy = slot.busy
      /\ slot'.scan = slot.scan /\ slot'.polite = slot.polite /\ slot.polite
  BY TypeFacts, SlotMoves DEF Reenumerate
<1>3. TypeOK'
  <2>1. left' \in LeftSet BY TypeFacts, CallBounds DEF Reenumerate, LeftSet
  <2>2. QED BY <1>1, <1>2, <2>1, TypeFacts, TypeByParts
        DEF busVars, queueVars, rootVars, cardVars
<1>4. AttemptKept' /\ DoubtKept'
  BY <1>1, <1>2 DEF WorkIInv, AttemptKept, DoubtKept, busVars
<1>5. QED
  BY <1>1, <1>2, <1>3, <1>4, OwedWithin, SlotWithin, TxnWithin, ConsentWithin, AimedWithin
  DEF WorkIInv, queueVars, cardVars, busVars

LEMMA WindowKeeps == ASSUME WorkIInv, PoliteWindowPasses PROVE WorkIInv'
<1> DEFINE lapsed == hist.lapsed \/ plugged # None
<1>1. /\ UNCHANGED <<busVars, slot, latch, queueVars, txn, up, del, rootVars, cardVars, left>>
      /\ polite /\ slot.dev = None /\ hist' = [hist EXCEPT !.lapsed = lapsed]
  BY DEF PoliteWindowPasses
<1>2. lapsed \in BOOLEAN BY TypeFacts DEF HistSet
<1>3. /\ hist' \in HistSet /\ hist'.tries = hist.tries /\ hist'.lost = hist.lost
      /\ hist'.switched = hist.switched /\ hist'.doubt = hist.doubt
      /\ hist'.overrun = hist.overrun /\ hist'.lapsed = lapsed
  <2> HIDE DEF lapsed
  <2>1. QED BY <1>1, <1>2, TypeFacts, HistMoves, 0 \in Nat
<1>4. TypeOK'
  <2>1. polite' \in BOOLEAN BY DEF PoliteWindowPasses
  <2>2. QED BY <1>1, <1>3, <2>1, TypeFacts, TypeByParts
        DEF busVars, queueVars, rootVars, cardVars
<1>5. AttemptKept'
  <2>1. hist.tries > 0 => plugged # None /\ plugged' = plugged
    BY <1>1 DEF WorkIInv, AttemptKept, busVars
  <2>2. QED BY <1>3, <2>1 DEF AttemptKept
<1>6. QED
  BY <1>1, <1>3, <1>4, <1>5, OwedWithin, SlotWithin, TxnWithin, ConsentWithin,
     DoubtWithin, AimedWithin
  DEF WorkIInv, queueVars, cardVars, busVars

\* A request that is no change joins the queue.
LEMMA QueueBeside ==
    ASSUME WorkIInv, Room, NEW kind \in {"SYNC", "IDENTITY", "CANCEL"},
           ctl' = Append(ctl, [kind |-> kind, target |-> None])
    PROVE  /\ QueueFits(ctl')
           /\ \A k \in {"UPLOAD", "DELETE"} : Among(ctl', k) = Among(ctl, k)
           /\ \A d : Aims(ctl, d) => Aims(ctl', d)
<1> DEFINE r == [kind |-> kind, target |-> None]
<1>1. r \in Requests /\ r.kind = kind BY DEF Requests, WorkKinds, Devices
<1> HIDE DEF r
<1>2. QueueFits(ctl) /\ Len(ctl) < QueueDepth BY TypeFacts DEF Room
<1>3. QueueFits(ctl') BY <1>1, <1>2, QueueMoves DEF r
<1>4. ASSUME NEW k \in {"UPLOAD", "DELETE"} PROVE Among(ctl', k) = Among(ctl, k)
  <2>1. Among(ctl', k) = Among(ctl, k) + Hand(r, k)
    BY <1>1, <1>2, AmongAppend DEF QueueFits, r
  <2>2. Hand(r, k) = 0 BY <1>1 DEF Hand
  <2>3. Among(ctl, k) \in Nat BY OwedNumbers
  <2>4. QED BY <2>1, <2>2, <2>3
<1>5. ASSUME NEW d, Aims(ctl, d) PROVE Aims(ctl', d)
  <2>1. r.kind = "DELETE" => r.target = d BY <1>1
  <2>2. QED BY <1>1, <1>2, <1>5, <2>1, AimsAppend DEF QueueFits, r
<1>6. QED BY <1>3, <1>4, <1>5

LEMMA OpenKeeps ==
    ASSUME WorkIInv, NEW autoSync \in BOOLEAN, log_open_device(autoSync)
    PROVE  WorkIInv'
<1>1. /\ UNCHANGED <<busVars, latch, held, cancel, txn, del, autoDue, cardVars, left, hist>>
      /\ plugged # None /\ slot.dev = None /\ polite' = FALSE /\ Returns
  BY DEF log_open_device
<1>2. /\ slot' \in SlotSet /\ slot'.dev = plugged /\ slot'.busy /\ slot'.scan
      /\ ~slot'.closing /\ ~slot'.polite
  BY TypeFacts, SlotFills DEF log_open_device
<1>3. /\ up' \in UpSet /\ up'.state = up.state /\ up'.consent = up.consent
      /\ connected' \in Devices /\ (polite => up' = up)
  <2>1. None \in Devices BY DEF Devices
  <2>2. CASE polite BY <2>2, TypeFacts DEF log_open_device
  <2>3. CASE ~polite
    <3>1. notify_attach /\ connected' = None BY <2>3 DEF log_open_device
    <3>2. QED BY <2>1, <2>3, <3>1, TypeFacts, UploadRenewed
  <2>4. QED BY <2>2, <2>3
<1>4. /\ QueueFits(ctl')
      /\ \A k \in {"UPLOAD", "DELETE"} : Among(ctl', k) = Among(ctl, k)
      /\ \A d : Aims(ctl, d) => Aims(ctl', d)
  <2>1. \/ ctl' = ctl
        \/ Room /\ ctl' = Append(ctl, [kind |-> "SYNC", target |-> None])
        \/ Room /\ ctl' = Append(ctl, [kind |-> "IDENTITY", target |-> None])
    BY DEF log_open_device
  <2>2. QED BY <2>1, QueueBeside, TypeFacts
<1>5. sync' \in SyncSet BY TypeFacts DEF log_open_device, SyncSet
<1>6. TypeOK'
  <2>1. auto' \in AutoSet BY <1>1, TypeFacts, RootTypes
  <2>2. QED BY <1>1, <1>2, <1>3, <1>4, <1>5, <2>1, TypeFacts, TypeByParts
        DEF busVars, cardVars
<1>7. txn.pc = "idle" BY <1>1 DEF WorkIInv, SlotHeld
<1>8. SlotHeld' BY <1>1, <1>2, <1>7 DEF SlotHeld
<1>9. TxnInOrder' BY <1>1, <1>7 DEF WorkIInv, TxnInOrder, Recording
<1>10. AttemptKept'
  <2>1. hist.tries > 0 /\ ~hist.overrun /\ ~hist.lapsed =>
          polite /\ hist.tries = 1 /\ up.attempted
    BY <1>1 DEF WorkIInv, AttemptKept
  <2>2. hist.tries > 0 => plugged' # None BY <1>1 DEF WorkIInv, AttemptKept, busVars
  <2>3. QED BY <1>1, <1>2, <1>3, <2>1, <2>2 DEF AttemptKept
<1>11. DoubtKept' BY <1>1, <1>2 DEF WorkIInv, DoubtKept
<1>12. DeleteAimed' BY <1>1, <1>4, AimedIs DEF WorkIInv, cardVars
<1>13. QED
  BY <1>1, <1>3, <1>4, <1>6, <1>8, <1>9, <1>10, <1>11, <1>12, OwedBeside, ConsentWithin
  DEF WorkIInv

LEMMA CollectKeeps == ASSUME WorkIInv, collect_scan_results PROVE WorkIInv'
<1>1. /\ UNCHANGED <<busVars, polite, latch, queueVars, txn, up, del, rootVars, cardVars,
                     left, hist>>
      /\ slot.scan
  BY DEF collect_scan_results
<1>2. /\ slot' \in SlotSet /\ slot'.dev = slot.dev /\ ~slot'.busy /\ ~slot'.scan
      /\ slot'.closing = slot.closing /\ slot'.polite = slot.polite
  BY TypeFacts, SlotMoves DEF collect_scan_results
<1>3. TypeOK'
  BY <1>1, <1>2, TypeFacts, TypeByParts DEF busVars, queueVars, rootVars, cardVars
<1>4. SlotHeld' BY <1>1, <1>2 DEF WorkIInv, SlotHeld
<1>5. QED
  BY <1>1, <1>2, <1>3, <1>4, OwedWithin, TxnWithin, ConsentWithin, AttemptWithin,
     DoubtWithin, AimedWithin
  DEF WorkIInv, queueVars, cardVars, busVars

LEMMA CloseKeeps == ASSUME WorkIInv, inspect_close PROVE WorkIInv'
<1>1. /\ UNCHANGED <<busVars, queueVars, txn, del, sync, autoDue, auto, cardVars, left, hist>>
      /\ slot.closing /\ ~slot.busy
  BY DEF inspect_close
<1>2. /\ slot' \in SlotSet /\ slot'.dev = None /\ ~slot'.busy /\ ~slot'.scan
      /\ ~slot'.closing
  <2>1. None \in Devices BY DEF Devices
  <2>2. QED BY <2>1, SlotFills DEF inspect_close
<1>3. IF slot.polite THEN polite' = TRUE /\ UNCHANGED <<latch, up, connected>>
      ELSE latch' = FALSE /\ notify_attach /\ connected' = None /\ UNCHANGED polite
  BY DEF inspect_close
<1>4. /\ up' \in UpSet /\ up'.state = up.state /\ up'.consent = up.consent
      /\ connected' \in Devices /\ polite' \in BOOLEAN /\ latch' \in BOOLEAN
      /\ (latch' => latch)
  <2>1. None \in Devices BY DEF Devices
  <2>2. CASE slot.polite BY <1>3, <2>2, TypeFacts
  <2>3. CASE ~slot.polite BY <1>3, <2>1, <2>3, TypeFacts, UploadRenewed
  <2>4. QED BY <2>2, <2>3
<1>5. TypeOK'
  BY <1>1, <1>2, <1>4, TypeFacts, TypeByParts DEF busVars, queueVars, cardVars
<1>6. txn.pc = "idle" BY <1>1 DEF WorkIInv, SlotHeld
<1>7. SlotHeld' BY <1>1, <1>2, <1>6 DEF SlotHeld
<1>8. TxnInOrder' BY <1>1, <1>4, <1>6 DEF WorkIInv, TxnInOrder, Recording
<1>9. AttemptKept' BY <1>1, <1>2, <1>3 DEF WorkIInv, AttemptKept, busVars
<1>10. DoubtKept' BY <1>1, <1>2, <1>3 DEF WorkIInv, DoubtKept
<1>11. QED
  BY <1>1, <1>4, <1>5, <1>7, <1>8, <1>9, <1>10, OwedWithin, ConsentWithin, AimedWithin
  DEF WorkIInv, queueVars, cardVars, busVars

(***************************************************************************)
(* The client task                                                         *)
(***************************************************************************)

\* What taking the head of the queue leaves.
LEMMA QueueTaken ==
    ASSUME WorkIInv, ctl # <<>>, ctl' = Tail(ctl)
    PROVE  /\ QueueFits(ctl') /\ Head(ctl) \in Requests
           /\ \A k : /\ Among(ctl, k) = Hand(Head(ctl), k) + Among(ctl', k)
                     /\ Among(ctl', k) \in Nat /\ Hand(Head(ctl), k) \in 0..1
           /\ \A d : Aims(ctl, d) =>
                /\ Aims(ctl', d)
                /\ Head(ctl).kind = "DELETE" => Head(ctl).target = d
<1>1. QueueFits(ctl) BY TypeFacts
<1>2. QueueFits(ctl') /\ Head(ctl) \in Requests BY <1>1, QueueMoves
<1>3. ASSUME NEW k
      PROVE  /\ Among(ctl, k) = Hand(Head(ctl), k) + Among(ctl', k)
             /\ Among(ctl', k) \in Nat /\ Hand(Head(ctl), k) \in 0..1
  <2>1. Among(ctl, k) = Hand(Head(ctl), k) + Among(ctl', k)
    BY <1>1, AmongTail DEF QueueFits
  <2>2. Among(ctl', k) \in Nat BY <1>2, SpotsFinite DEF QueueFits
  <2>3. Hand(Head(ctl), k) \in 0..1 BY DEF Hand
  <2>4. QED BY <2>1, <2>2, <2>3
<1>4. QED BY <1>1, <1>2, <1>3, AimsTail DEF QueueFits

LEMMA CancelKeeps == ASSUME WorkIInv, accept_cancel PROVE WorkIInv'
<1>1. /\ UNCHANGED <<busVars, portVars, held, txn, up, del, rootVars, cardVars, left, hist>>
      /\ ctl # <<>> /\ Head(ctl).kind = "CANCEL" /\ cancel' = TRUE /\ ctl' = Tail(ctl)
  BY DEF accept_cancel
<1>2. TypeOK'
  BY <1>1, QueueTaken, TypeFacts, TypeByParts DEF busVars, portVars, rootVars, cardVars
<1>3. \A k \in {"UPLOAD", "DELETE"} : Among(ctl', k) = Among(ctl, k)
  <2>1. \A k \in {"UPLOAD", "DELETE"} : Hand(Head(ctl), k) = 0 BY <1>1 DEF Hand
  <2>2. QED BY <1>1, <2>1, QueueTaken
<1>4. TxnInOrder' BY <1>1 DEF WorkIInv, TxnInOrder, Recording, portVars, busVars
<1>5. DeleteAimed' BY <1>1, QueueTaken, AimedIs DEF WorkIInv, cardVars
<1>6. QED
  BY <1>1, <1>2, <1>3, <1>4, <1>5, OwedBeside, SlotWithin, ConsentWithin, AttemptWithin,
     DoubtWithin
  DEF WorkIInv, portVars, busVars

\* What a refusal leaves.
LEMMA WorkRefused ==
    ASSUME WorkIInv, NEW r, refuse_work(r)
    PROVE  /\ up' \in UpSet /\ up'.consent = up.consent /\ up'.attempted = up.attempted
           /\ up'.state = (IF r.kind = "UPLOAD" THEN "FAILED" ELSE up.state)
           /\ del' \in DelSet /\ del'.consent = del.consent
           /\ del'.state = (IF r.kind = "DELETE" THEN "FAILED" ELSE del.state)
           /\ sync' \in SyncSet /\ autoDue' \in BOOLEAN
<1>1. "FAILED" \in UploadStates /\ "FAILED" \in DeleteStates
  BY DEF UploadStates, DeleteStates
<1>2. /\ up' \in UpSet /\ up'.consent = up.consent /\ up'.attempted = up.attempted
      /\ up'.state = (IF r.kind = "UPLOAD" THEN "FAILED" ELSE up.state)
  <2>1. CASE r.kind = "UPLOAD" BY <1>1, <2>1, TypeFacts, UploadObserved DEF refuse_work
  <2>2. CASE r.kind # "UPLOAD" BY <2>2, TypeFacts DEF refuse_work
  <2>3. QED BY <2>1, <2>2
<1>3. /\ del' \in DelSet /\ del'.consent = del.consent
      /\ del'.state = (IF r.kind = "DELETE" THEN "FAILED" ELSE del.state)
  <2>1. CASE r.kind = "DELETE" BY <1>1, <2>1, TypeFacts, DeleteObserved DEF refuse_work
  <2>2. CASE r.kind # "DELETE" BY <2>2, TypeFacts DEF refuse_work
  <2>3. QED BY <2>1, <2>2
<1>4. sync' \in SyncSet /\ autoDue' \in BOOLEAN
  <2>1. CASE r.kind = "SYNC" BY <2>1, TypeFacts, RootTypes DEF refuse_work
  <2>2. CASE r.kind # "SYNC" BY <2>2, TypeFacts DEF refuse_work
  <2>3. QED BY <2>1, <2>2
<1>5. QED BY <1>2, <1>3, <1>4

\* A change that was owed is answered with a failure, or read-only work is.
LEMMA OwedRefused ==
    ASSUME WorkIInv, NEW r, hist'.lost = hist.lost,
           up'.state = (IF r.kind = "UPLOAD" THEN "FAILED" ELSE up.state),
           del'.state = (IF r.kind = "DELETE" THEN "FAILED" ELSE del.state),
           \A k : Among(ctl, k) + Hand(held, k) + Work(txn, k)
                    = Hand(r, k) + (Among(ctl', k) + Hand(held', k) + Work(txn', k)),
           \A k : Among(ctl', k) + Hand(held', k) + Work(txn', k) \in Nat
    PROVE  WorkOwed'
<1>1. ASSUME NEW k \in {"UPLOAD", "DELETE"}
      PROVE  Hand(r, k) = IF r.kind = k THEN 1 ELSE 0
  BY DEF Hand
<1> DEFINE n(k) == Among(ctl, k) + Hand(held, k) + Work(txn, k)
           m(k) == Among(ctl', k) + Hand(held', k) + Work(txn', k)
<1>2. WorkOwed BY DEF WorkIInv
<1>3. /\ n("UPLOAD") = IF up.state = "RUNNING" THEN 1 ELSE 0
      /\ n("DELETE") = IF del.state = "RUNNING" /\ ~hist.lost THEN 1 ELSE 0
  BY <1>2, OwedIs
<1>4. /\ n("UPLOAD") = Hand(r, "UPLOAD") + m("UPLOAD") /\ m("UPLOAD") \in Nat
      /\ n("DELETE") = Hand(r, "DELETE") + m("DELETE") /\ m("DELETE") \in Nat
  OBVIOUS
<1>5. WorkOwed' <=>
        /\ m("UPLOAD") = IF up'.state = "RUNNING" THEN 1 ELSE 0
        /\ m("DELETE") = IF del'.state = "RUNNING" /\ ~hist'.lost THEN 1 ELSE 0
  BY OwedIs
<1> HIDE DEF n, m
<1>6. m("UPLOAD") = IF up'.state = "RUNNING" THEN 1 ELSE 0
  <2>1. CASE r.kind = "UPLOAD" BY <1>1, <1>3, <1>4, <2>1
  <2>2. CASE r.kind # "UPLOAD" BY <1>1, <1>3, <1>4, <2>2
  <2>3. QED BY <2>1, <2>2
<1>7. m("DELETE") = IF del'.state = "RUNNING" /\ ~hist'.lost THEN 1 ELSE 0
  <2>1. CASE r.kind = "DELETE" BY <1>1, <1>3, <1>4, <2>1
  <2>2. CASE r.kind # "DELETE" BY <1>1, <1>3, <1>4, <2>2
  <2>3. QED BY <2>1, <2>2
<1>8. QED BY <1>5, <1>6, <1>7

LEMMA RefuseKeeps == ASSUME WorkIInv, refuse_request PROVE WorkIInv'
<1>1. /\ UNCHANGED <<busVars, portVars, held, cancel, txn, connected, auto, cardVars, left,
                     hist>>
      /\ ctl # <<>> /\ ctl' = Tail(ctl) /\ refuse_work(Head(ctl))
  BY DEF refuse_request
<1>2. /\ up' \in UpSet /\ up'.consent = up.consent /\ up'.attempted = up.attempted
      /\ up'.state = (IF Head(ctl).kind = "UPLOAD" THEN "FAILED" ELSE up.state)
      /\ del' \in DelSet /\ del'.consent = del.consent
      /\ del'.state = (IF Head(ctl).kind = "DELETE" THEN "FAILED" ELSE del.state)
      /\ sync' \in SyncSet /\ autoDue' \in BOOLEAN
  BY <1>1, WorkRefused
<1>3. TypeOK'
  BY <1>1, <1>2, QueueTaken, TypeFacts, TypeByParts DEF busVars, portVars, cardVars
<1>4. WorkOwed'
  <2>1. \A k : /\ Among(ctl, k) = Hand(Head(ctl), k) + Among(ctl', k)
               /\ Among(ctl', k) \in Nat /\ Hand(Head(ctl), k) \in 0..1
    BY <1>1, QueueTaken
  <2>2. \A k : Hand(held, k) \in 0..1 /\ Work(txn, k) \in 0..1 BY OwedNumbers
  <2>3. held' = held /\ txn' = txn /\ hist'.lost = hist.lost BY <1>1
  <2>4. \A k : Among(ctl, k) + Hand(held, k) + Work(txn, k)
                 = Hand(Head(ctl), k) + (Among(ctl', k) + Hand(held', k) + Work(txn', k))
    BY <2>1, <2>2, <2>3
  <2>5. \A k : Among(ctl', k) + Hand(held', k) + Work(txn', k) \in Nat
    BY <2>1, <2>2, <2>3
  <2>6. QED BY <1>2, <2>3, <2>4, <2>5, OwedRefused
<1>5. DeleteAimed' BY <1>1, QueueTaken, AimedIs DEF WorkIInv, cardVars
<1>6. QED
  BY <1>1, <1>2, <1>3, <1>4, <1>5, SlotWithin, TxnWithin, ConsentWithin, AttemptWithin,
     DoubtWithin
  DEF WorkIInv, portVars, busVars

LEMMA DeferKeeps == ASSUME WorkIInv, defer_request PROVE WorkIInv'
<1>1. /\ UNCHANGED <<busVars, portVars, cancel, txn, up, del, rootVars, cardVars, left, hist>>
      /\ held = NoRequest /\ ctl # <<>> /\ ctl' = Tail(ctl)
      /\ held' = IF Head(ctl).kind = "IDENTITY" THEN NoRequest ELSE Head(ctl)
  BY DEF defer_request
<1>2. NoRequest \in Requests /\ NoRequest.kind = "CANCEL"
  BY DEF NoRequest, Requests, Devices
<1>3. TypeOK'
  BY <1>1, <1>2, QueueTaken, TypeFacts, TypeByParts DEF busVars, portVars, rootVars, cardVars
<1>4. WorkOwed'
  <2>1. \A k \in {"UPLOAD", "DELETE"} :
          /\ Among(ctl, k) = Hand(Head(ctl), k) + Among(ctl', k)
          /\ Among(ctl', k) \in Nat /\ Hand(Head(ctl), k) \in 0..1
    BY <1>1, QueueTaken
  <2>2. \A k \in {"UPLOAD", "DELETE"} : Hand(held, k) = 0 /\ Work(txn, k) \in 0..1
    BY <1>1, <1>2, OwedNumbers DEF Hand
  <2>3. \A k \in {"UPLOAD", "DELETE"} : Hand(held', k) = Hand(Head(ctl), k)
    BY <1>1, <1>2 DEF Hand
  <2>4. \A k \in {"UPLOAD", "DELETE"} :
          Among(ctl, k) + Hand(held, k) + Work(txn, k)
            = Among(ctl', k) + Hand(held', k) + Work(txn', k)
    BY <1>1, <2>1, <2>2, <2>3
  <2>5. QED BY <1>1, <2>4, OwedIs DEF WorkIInv
<1>5. DeleteAimed'
  <2>1. held'.kind = "DELETE" => held' = Head(ctl) BY <1>1, <1>2
  <2>2. QED BY <1>1, <2>1, QueueTaken, AimedIs DEF WorkIInv, cardVars
<1>6. QED
  BY <1>1, <1>3, <1>4, <1>5, SlotWithin, TxnWithin, ConsentWithin, AttemptWithin,
     DoubtWithin
  DEF WorkIInv, portVars, busVars

LEMMA RequeueKeeps == ASSUME WorkIInv, requeue_request PROVE WorkIInv'
<1>1. /\ UNCHANGED <<busVars, portVars, cancel, txn, del, connected, auto, cardVars, left>>
      /\ held # NoRequest /\ held' = NoRequest
  BY DEF requeue_request
<1>2. /\ NoRequest \in Requests /\ NoRequest.kind = "CANCEL"
      /\ \A k \in {"UPLOAD", "DELETE"} : Hand(NoRequest, k) = 0
  BY DEF NoRequest, Requests, Devices, Hand
<1>3. CASE Room
  <2>1. ctl' = Append(ctl, held) /\ UNCHANGED <<up, sync, autoDue, hist>>
    BY <1>3 DEF requeue_request
  <2>2. QueueFits(ctl) /\ held \in Requests /\ Len(ctl) < QueueDepth
    BY <1>3, TypeFacts DEF Room
  <2>3. QueueFits(ctl') BY <2>1, <2>2, QueueMoves
  <2>4. TypeOK'
    BY <1>1, <1>2, <2>1, <2>3, TypeFacts, TypeByParts DEF busVars, portVars, cardVars
  <2>5. WorkOwed'
    <3>1. \A k : Among(ctl', k) = Among(ctl, k) + Hand(held, k)
      BY <2>1, <2>2, AmongAppend DEF QueueFits
    <3>2. \A k \in {"UPLOAD", "DELETE"} :
            Among(ctl, k) + Hand(held, k) + Work(txn, k)
              = Among(ctl', k) + Hand(held', k) + Work(txn', k)
      BY <1>1, <1>2, <3>1, OwedNumbers
    <3>3. QED BY <1>1, <2>1, <3>2, OwedIs DEF WorkIInv
  <2>6. DeleteAimed'
    <3>1. \A d : Aims(ctl, d) /\ (held.kind = "DELETE" => held.target = d) => Aims(ctl', d)
      BY <2>1, <2>2, AimsAppend DEF QueueFits
    <3>2. QED BY <1>1, <1>2, <2>1, <3>1, AimedIs DEF WorkIInv, cardVars
  <2>7. QED
    BY <1>1, <2>1, <2>4, <2>5, <2>6, SlotWithin, TxnWithin, ConsentWithin, AttemptWithin,
       DoubtWithin
    DEF WorkIInv, portVars, busVars
<1>4. CASE ~Room
  <2>1. /\ ctl' = ctl
        /\ hist' = [hist EXCEPT !.lost = hist.lost \/ held.kind = "DELETE"]
        /\ IF held.kind = "UPLOAD"
           THEN observe_upload("FAILED", latch) /\ UNCHANGED <<sync, autoDue>>
           ELSE handle_sync_event("FAILED") /\ UNCHANGED up
    BY <1>4 DEF requeue_request
  <2>2. /\ hist' \in HistSet /\ hist'.tries = hist.tries
        /\ hist'.lost = (hist.lost \/ held.kind = "DELETE")
        /\ hist'.switched = hist.switched /\ hist'.doubt = hist.doubt
        /\ hist'.overrun = hist.overrun /\ hist'.lapsed = hist.lapsed
    <3>1. (hist.lost \/ held.kind = "DELETE") \in BOOLEAN OBVIOUS
    <3>2. QED BY <2>1, <3>1, TypeFacts, HistMoves, 0 \in Nat
  <2>3. /\ up' \in UpSet /\ up'.consent = up.consent /\ up'.attempted = up.attempted
        /\ up'.state = (IF held.kind = "UPLOAD" THEN "FAILED" ELSE up.state)
        /\ sync' \in SyncSet /\ autoDue' \in BOOLEAN
    <3>1. CASE held.kind = "UPLOAD"
      <4>1. "FAILED" \in UploadStates BY DEF UploadStates
      <4>2. QED BY <2>1, <3>1, <4>1, TypeFacts, UploadObserved
    <3>2. CASE held.kind # "UPLOAD" BY <2>1, <3>2, TypeFacts, RootTypes
    <3>3. QED BY <3>1, <3>2
  <2>4. TypeOK'
    BY <1>1, <1>2, <2>1, <2>2, <2>3, TypeFacts, TypeByParts DEF busVars, portVars, cardVars
  <2>5. WorkOwed'
    <3>1. held.kind = "UPLOAD" => Hand(held, "UPLOAD") = 1 /\ Hand(held, "DELETE") = 0
      BY DEF Hand
    <3>2. held.kind = "DELETE" => Hand(held, "UPLOAD") = 0 /\ Hand(held, "DELETE") = 1
      BY DEF Hand
    <3>3. held.kind \notin {"UPLOAD", "DELETE"} =>
            Hand(held, "UPLOAD") = 0 /\ Hand(held, "DELETE") = 0
      BY DEF Hand
    <3>4. /\ Among(ctl, "UPLOAD") \in Nat /\ Work(txn, "UPLOAD") \in 0..1
          /\ Among(ctl, "DELETE") \in Nat /\ Work(txn, "DELETE") \in 0..1
      BY OwedNumbers
    <3>5. Hand(held', "UPLOAD") = 0 /\ Hand(held', "DELETE") = 0 BY <1>1, <1>2
    <3>6. UNCHANGED <<ctl, txn, del>> BY <1>1, <2>1
    <3> DEFINE u == Among(ctl, "UPLOAD") + Work(txn, "UPLOAD")
               d == Among(ctl, "DELETE") + Work(txn, "DELETE")
    <3>7. u \in Nat /\ d \in Nat BY <3>4
    <3>8. /\ u + Hand(held, "UPLOAD") = IF up.state = "RUNNING" THEN 1 ELSE 0
          /\ d + Hand(held, "DELETE") = IF del.state = "RUNNING" /\ ~hist.lost THEN 1 ELSE 0
      <4>1. Hand(held, "UPLOAD") \in Nat /\ Hand(held, "DELETE") \in Nat
        BY OwedNumbers
      <4>2. WorkOwed BY DEF WorkIInv
      <4>3. QED BY <3>4, <4>1, <4>2, OwedIs
    <3>9. /\ Among(ctl', "UPLOAD") + Hand(held', "UPLOAD") + Work(txn', "UPLOAD") = u
          /\ Among(ctl', "DELETE") + Hand(held', "DELETE") + Work(txn', "DELETE") = d
      BY <3>4, <3>5, <3>6
    <3> HIDE DEF u, d
    <3>10. u = IF up'.state = "RUNNING" THEN 1 ELSE 0
      <4>1. CASE held.kind = "UPLOAD" BY <2>3, <3>1, <3>7, <3>8, <4>1
      <4>2. CASE held.kind # "UPLOAD" BY <2>3, <3>2, <3>3, <3>7, <3>8, <4>2
      <4>3. QED BY <4>1, <4>2
    <3>11. d = IF del'.state = "RUNNING" /\ ~hist'.lost THEN 1 ELSE 0
      <4>1. CASE held.kind = "DELETE"
        <5>1. hist'.lost BY <2>2, <4>1
        <5>2. d = 0 BY <3>2, <3>7, <3>8, <4>1
        <5>3. QED BY <5>1, <5>2
      <4>2. CASE held.kind # "DELETE"
        <5>1. hist'.lost <=> hist.lost BY <2>2, <4>2
        <5>2. Hand(held, "DELETE") = 0 BY <3>1, <3>3, <4>2
        <5>3. QED BY <3>6, <3>7, <3>8, <5>1, <5>2
      <4>3. QED BY <4>1, <4>2
    <3>12. QED BY <3>9, <3>10, <3>11, OwedIs
  <2>6. DeleteAimed' BY <1>1, <1>2, <2>1, <2>2, AimedIs DEF WorkIInv, cardVars
  <2>7. QED
    BY <1>1, <2>1, <2>2, <2>3, <2>4, <2>5, <2>6, SlotWithin, TxnWithin, ConsentWithin,
       AttemptWithin, DoubtWithin
    DEF WorkIInv, portVars, busVars
<1>5. QED BY <1>3, <1>4

LEMMA DispatchKeeps == ASSUME WorkIInv, dispatch_request PROVE WorkIInv'
<1> DEFINE r == Head(ctl)
<1>1. /\ UNCHANGED <<busVars, polite, latch, held, up, del, rootVars, cardVars, left, hist>>
      /\ held = NoRequest /\ ctl # <<>> /\ r.kind # "CANCEL" /\ Eligible /\ ~slot.busy
      /\ slot' = [slot EXCEPT !.busy = TRUE] /\ ctl' = Tail(ctl)
      /\ cancel' = (cancel /\ ~(r.kind \in {"SYNC", "IDENTITY"}))
      /\ txn' = [TxnIdle EXCEPT !.pc = "start", !.kind = r.kind, !.target = r.target,
                                !.late = cancel']
  BY DEF dispatch_request
<1>2. r.kind \in WorkKinds /\ r.target \in Devices /\ cancel' \in BOOLEAN
  BY <1>1, QueueTaken DEF Requests
<1>3. /\ slot' \in SlotSet /\ slot'.dev = slot.dev /\ slot'.busy /\ slot'.scan = slot.scan
      /\ slot'.closing = slot.closing /\ slot'.polite = slot.polite
  BY <1>1, TypeFacts, SlotMoves
<1>4. /\ txn' \in TxnSet /\ txn'.pc = "start" /\ txn'.kind = r.kind
      /\ txn'.target = r.target /\ ~txn'.begun /\ ~txn'.ok /\ txn'.late = cancel'
  BY <1>1, <1>2, TxnTakes
<1>5. txn.pc = "idle" /\ ~slot.scan /\ slot.dev # None
  BY <1>1 DEF WorkIInv, SlotHeld, Eligible
<1>6. TypeOK'
  BY <1>1, <1>2, <1>3, <1>4, QueueTaken, TypeFacts, TypeByParts
  DEF busVars, rootVars, cardVars
<1>7. SlotHeld' BY <1>3, <1>5 DEF SlotHeld
<1>8. TxnInOrder' BY <1>4 DEF TxnInOrder, Recording
<1>9. WorkOwed'
  <2>1. \A k \in {"UPLOAD", "DELETE"} :
          /\ Among(ctl, k) = Hand(r, k) + Among(ctl', k)
          /\ Among(ctl', k) \in Nat /\ Hand(r, k) \in 0..1
    BY <1>1, QueueTaken
  <2>2. \A k \in {"UPLOAD", "DELETE"} : Work(txn, k) = 0 /\ Work(txn', k) = Hand(r, k)
    BY <1>4, <1>5 DEF Work, Hand
  <2>3. \A k \in {"UPLOAD", "DELETE"} : Hand(held, k) \in 0..1 BY OwedNumbers
  <2>4. \A k \in {"UPLOAD", "DELETE"} :
          Among(ctl, k) + Hand(held, k) + Work(txn, k)
            = Among(ctl', k) + Hand(held', k) + Work(txn', k)
    BY <1>1, <2>1, <2>2, <2>3
  <2>5. QED BY <1>1, <2>4, OwedIs DEF WorkIInv
<1>10. DeleteAimed' BY <1>1, <1>4, QueueTaken, AimedIs DEF WorkIInv, cardVars
<1>11. QED
  BY <1>1, <1>3, <1>6, <1>7, <1>8, <1>9, <1>10, ConsentWithin, AttemptWithin, DoubtWithin
  DEF WorkIInv, busVars

(***************************************************************************)
(* The transaction task                                                    *)
(***************************************************************************)

\* While a transaction runs, one session at a time, the queue and the services wait.
LEMMA SessionStep ==
    ASSUME WorkIInv, SameWork, txn.pc # "idle", txn'.pc # "idle",
           UNCHANGED <<slot, up, sessionVars>>, hist'.tries = hist.tries,
           hist'.lost = hist.lost, hist'.doubt = hist.doubt, hist'.overrun = hist.overrun,
           hist'.lapsed = hist.lapsed, plugged' = plugged,
           txn.pc \notin {"mark", "forget"}, txn'.pc \notin {"mark", "forget"}
    PROVE  SlotHeld' /\ WorkOwed' /\ Consented' /\ AttemptKept' /\ DoubtKept'
<1>1. txn'.kind = txn.kind BY DEF SameWork
<1>2. UNCHANGED <<slot, up, polite, latch, ctl, held, del>> BY DEF sessionVars, queueVars
<1>3. SlotHeld' BY <1>2, SlotWithin
<1>4. WorkOwed' BY <1>1, <1>2, OwedWithin
<1>5. Consented' BY <1>2, ConsentWithin
<1>6. AttemptKept' BY <1>2, AttemptWithin
<1>7. DoubtKept' BY <1>2, DoubtWithin
<1>8. QED BY <1>3, <1>4, <1>5, <1>6, <1>7

\* The same, when the dataset on display stays.
LEMMA DataStep ==
    ASSUME WorkIInv, SameWork, txn.pc \notin {"idle", "mark", "forget"},
           txn'.pc \notin {"idle", "mark", "forget"},
           UNCHANGED <<plugged, slot, up, connected, displayed, sessionVars, hist>>,
           holds' \in SUBSET Serials, cache' \in CacheSet, TxnInOrder'
    PROVE  WorkIInv'
<1>1. TypeOK'
  BY TypeFacts, TypeByParts DEF SameWork, sessionVars, queueVars
<1>2. SlotHeld' /\ WorkOwed' /\ Consented' /\ AttemptKept' /\ DoubtKept' BY SessionStep
<1>3. DeleteAimed' BY AimedWithin DEF SameWork, sessionVars, queueVars
<1>4. QED BY <1>1, <1>2, <1>3 DEF WorkIInv

\* The parts of TxnInOrder, as facts about the state.
LEMMA OrderFacts ==
    ASSUME WorkIInv
    PROVE  /\ txn.pc = "data" => txn.kind = "SYNC"
           /\ txn.pc \in {"write", "readback"} => txn.kind = "UPLOAD"
           /\ txn.pc = "send" => Changes(txn.kind)
           /\ txn.pc \in {"send", "write", "readback"} \/ txn.begun => slot.dev = txn.target
           /\ txn.kind = "DELETE" /\ txn.ok => txn.begun /\ txn.target \notin holds
           /\ txn.begun => txn.pc \in {"write", "readback", "close", "report", "mark", "forget"}
           /\ Recording => txn.kind = "DELETE" /\ txn.ok
           /\ txn.pc \in {"identity", "send", "write", "readback"} /\ Changes(txn.kind) =>
                ~latch
           /\ txn.late =>
                cancel /\ ~txn.begun /\ txn.pc \notin {"send", "write", "readback", "idle"}
           /\ txn.pc # "idle" => slot.busy /\ ~slot.scan /\ slot.dev \in Serials
<1>1. TxnInOrder /\ SlotHeld BY DEF WorkIInv
<1>2. slot.dev \in Devices BY TypeFacts DEF SlotSet
<1>3. txn.pc # "idle" => slot.busy /\ ~slot.scan /\ slot.dev \in Serials
  BY <1>1, <1>2 DEF SlotHeld, Devices
<1>4. QED BY <1>1, <1>3 DEF TxnInOrder

LEMMA TxnRefuseKeeps == ASSUME WorkIInv, txn_refuse PROVE WorkIInv'
<1>1. /\ UNCHANGED <<busVars, polite, latch, queueVars, connected, auto, cardVars, left, hist>>
      /\ txn.pc = "start" /\ refuse_work(txn) /\ txn' = TxnIdle
      /\ slot' = [slot EXCEPT !.busy = FALSE]
  BY DEF txn_refuse, txn_result
<1>2. /\ up' \in UpSet /\ up'.consent = up.consent /\ up'.attempted = up.attempted
      /\ up'.state = (IF txn.kind = "UPLOAD" THEN "FAILED" ELSE up.state)
      /\ del' \in DelSet /\ del'.consent = del.consent
      /\ del'.state = (IF txn.kind = "DELETE" THEN "FAILED" ELSE del.state)
      /\ sync' \in SyncSet /\ autoDue' \in BOOLEAN
  BY <1>1, WorkRefused
<1>3. /\ slot' \in SlotSet /\ slot'.dev = slot.dev /\ ~slot'.busy /\ slot'.scan = slot.scan
      /\ slot'.closing = slot.closing /\ slot'.polite = slot.polite
  BY <1>1, TypeFacts, SlotMoves
<1>4. /\ txn' \in TxnSet /\ txn'.pc = "idle" /\ txn'.kind = "SYNC"
      /\ ~txn'.begun /\ ~txn'.ok /\ ~txn'.late
  <2>1. None \in Devices /\ "SYNC" \in WorkKinds BY DEF Devices, WorkKinds
  <2>2. QED BY <1>1, <2>1, TxnTakes
<1>5. TypeOK'
  BY <1>1, <1>2, <1>3, <1>4, TypeFacts, TypeByParts DEF busVars, queueVars, cardVars
<1>6. SlotHeld' BY <1>1, <1>3, <1>4, OrderFacts DEF SlotHeld
<1>7. TxnInOrder' BY <1>4 DEF TxnInOrder, Recording
<1>8. WorkOwed'
  <2>1. \A k : Work(txn, k) = Hand(txn, k) /\ Work(txn', k) = 0
    BY <1>1, <1>4 DEF Work, Hand
  <2>2. \A k : /\ Among(ctl, k) \in Nat /\ Hand(held, k) \in 0..1
               /\ Work(txn, k) \in 0..1
    BY OwedNumbers
  <2>3. ctl' = ctl /\ held' = held /\ hist'.lost = hist.lost BY <1>1 DEF queueVars
  <2>4. \A k : Among(ctl, k) + Hand(held, k) + Work(txn, k)
                 = Hand(txn, k) + (Among(ctl', k) + Hand(held', k) + Work(txn', k))
    BY <2>1, <2>2, <2>3
  <2>5. \A k : Among(ctl', k) + Hand(held', k) + Work(txn', k) \in Nat
    BY <2>1, <2>2, <2>3
  <2>6. QED BY <1>2, <2>3, <2>4, <2>5, OwedRefused
<1>9. DeleteAimed' BY <1>1, <1>4, AimedIs DEF WorkIInv, queueVars, cardVars, busVars
<1>10. QED
  BY <1>1, <1>2, <1>3, <1>5, <1>6, <1>7, <1>8, <1>9, ConsentWithin, AttemptWithin,
     DoubtWithin
  DEF WorkIInv, busVars

LEMMA TxnStartKeeps == ASSUME WorkIInv, txn_start PROVE WorkIInv'
<1>1. /\ UNCHANGED <<busVars, polite, latch, queueVars, rootVars, cardVars, left>>
      /\ txn.pc = "start" /\ ~slot.closing /\ slot.dev # None
  BY DEF txn_start, Eligible
<1>2. /\ up' \in UpSet /\ up'.consent = up.consent /\ up'.attempted = up.attempted
      /\ up'.state = up.state
  <2>1. "RUNNING" \in UploadStates BY DEF UploadStates
  <2>2. CASE txn.kind = "UPLOAD"
    <3>1. up.state = "RUNNING" BY <1>1, <2>2, ChangeOwed
    <3>2. observe_upload("RUNNING", FALSE) BY <2>2 DEF txn_start
    <3>3. QED BY <2>1, <3>1, <3>2, TypeFacts, UploadObserved
  <2>3. CASE txn.kind # "UPLOAD" BY <2>3, TypeFacts DEF txn_start
  <2>4. QED BY <2>2, <2>3
<1>3. del' \in DelSet /\ del'.consent = del.consent /\ del'.state = del.state
  <2>1. "RUNNING" \in DeleteStates BY DEF DeleteStates
  <2>2. CASE txn.kind = "DELETE"
    <3>1. del.state = "RUNNING" BY <1>1, <2>2, ChangeOwed DEF Recording
    <3>2. observe_delete("RUNNING", FALSE) BY <2>2 DEF txn_start
    <3>3. QED BY <2>1, <3>1, <3>2, TypeFacts, DeleteObserved
  <2>3. CASE txn.kind # "DELETE" BY <2>3, TypeFacts DEF txn_start
  <2>4. QED BY <2>2, <2>3
<1>4. /\ slot' \in SlotSet /\ slot'.dev = slot.dev /\ slot'.busy = slot.busy
      /\ slot'.scan = slot.scan /\ slot'.closing = slot.closing
      /\ hist' \in HistSet /\ hist'.tries = hist.tries /\ hist'.lost = hist.lost
      /\ hist'.switched = hist.switched /\ hist'.doubt = hist.doubt
      /\ (hist.overrun => hist'.overrun) /\ hist'.lapsed = hist.lapsed
  <2>1. CASE Announces(slot.polite /\ ~Changes(txn.kind), FALSE)
    <3> DEFINE sent == slot.polite /\ ~Changes(txn.kind)
    <3>1. sent \in BOOLEAN /\ FALSE \in BOOLEAN /\ up.attempted \in BOOLEAN
      BY TypeFacts DEF UpSet, Changes, SlotSet
    <3>2. Announces(sent, FALSE) BY <2>1
    <3> HIDE DEF sent
    <3>3. hist.doubt \in BOOLEAN BY TypeFacts DEF HistSet
    <3>4. QED BY <3>1, <3>2, <3>3, TypeFacts, Announced
  <2>2. CASE UNCHANGED <<slot, hist>> BY <2>2, TypeFacts
  <2>3. QED BY <2>1, <2>2 DEF txn_start
<1>5. /\ SameWork /\ txn'.pc \in {"report", "identity"} /\ txn'.begun = txn.begun
      /\ txn'.ok = txn.ok
      /\ txn'.pc = "identity" /\ Changes(txn.kind) => ~latch
  <2>1. "report" \in TxnPcs /\ "identity" \in TxnPcs BY DEF TxnPcs
  <2>2. CASE Goto("report") BY <2>1, <2>2, TypeFacts, TxnMoves DEF Goto
  <2>3. CASE Goto("identity") /\ (Changes(txn.kind) => ~latch)
    BY <2>1, <2>3, TypeFacts, TxnMoves DEF Goto
  <2>4. QED BY <2>2, <2>3 DEF txn_start
<1>6. TypeOK'
  BY <1>1, <1>2, <1>3, <1>4, <1>5, TypeFacts, TypeByParts
  DEF busVars, queueVars, rootVars, cardVars, SameWork
<1>7. TxnInOrder'
  <2>1. ~txn.begun BY <1>1, OrderFacts
  <2>2. cancel' = cancel /\ latch' = latch BY <1>1 DEF queueVars
  <2>3. QED BY <1>5, <2>1, <2>2, OrderFacts DEF TxnInOrder, Recording, SameWork
<1>8. AttemptKept' /\ DoubtKept'
  BY <1>1, <1>2, <1>4 DEF WorkIInv, AttemptKept, DoubtKept, busVars
<1>9. QED
  BY <1>1, <1>2, <1>3, <1>4, <1>5, <1>6, <1>7, <1>8, SlotWithin, OwedWithin, ConsentWithin,
     AimedWithin
  DEF WorkIInv, queueVars, cardVars, busVars, SameWork

LEMMA TxnIdentityKeeps == ASSUME WorkIInv, txn_identity PROVE WorkIInv'
<1> DEFINE moved == hist.switched \/ (del.state = "RUNNING" /\ displayed' # displayed)
<1>1. /\ UNCHANGED <<busVars, slot, up, cache, sessionVars>> /\ txn.pc = "identity"
      /\ hist' = [hist EXCEPT !.switched = moved]
  BY DEF txn_identity
<1>2. /\ SameWork /\ txn'.begun = txn.begun
      /\ \/ txn'.pc = "close" /\ (txn.kind = "DELETE" => txn'.ok = txn.ok)
         \/ txn'.pc = "data" /\ txn.kind = "SYNC"
         \/ /\ txn'.pc = "send" /\ txn.kind \notin {"SYNC", "IDENTITY"}
            /\ txn'.ok = txn.ok /\ ~cancel /\ (Changes(txn.kind) => slot.dev = txn.target)
  <2>1. {"close", "data", "send"} \subseteq TxnPcs /\ cancel \in BOOLEAN /\ TRUE \in BOOLEAN
    BY TypeFacts DEF TxnPcs
  <2>2. CASE txn' = [txn EXCEPT !.pc = "close", !.cut = cancel]
    BY <2>1, <2>2, TypeFacts, TxnMoves
  <2>3. CASE txn.kind = "SYNC" /\ txn' = [txn EXCEPT !.pc = "data"]
    BY <2>1, <2>3, TypeFacts, TxnMoves
  <2>4. CASE txn.kind = "IDENTITY" /\ txn' = [txn EXCEPT !.pc = "close", !.ok = TRUE]
    BY <2>1, <2>4, TypeFacts, TxnMoves
  <2>5. CASE /\ txn.kind \notin {"SYNC", "IDENTITY"} /\ txn' = [txn EXCEPT !.pc = "send"]
             /\ ~cancel /\ (Changes(txn.kind) => slot.dev = txn.target)
    BY <2>1, <2>5, TypeFacts, TxnMoves
  <2>6. \/ txn' = [txn EXCEPT !.pc = "close", !.cut = cancel]
        \/ txn.kind = "SYNC" /\ txn' = [txn EXCEPT !.pc = "data"]
        \/ txn.kind = "IDENTITY" /\ txn' = [txn EXCEPT !.pc = "close", !.ok = TRUE]
        \/ /\ txn.kind \notin {"SYNC", "IDENTITY"} /\ txn' = [txn EXCEPT !.pc = "send"]
           /\ ~cancel /\ (Changes(txn.kind) => slot.dev = txn.target)
    BY DEF txn_identity, Goto, read_true_device_identity
  <2>7. QED BY <2>2, <2>3, <2>4, <2>5, <2>6
<1>3. connected' \in Devices /\ displayed' \in Devices
  <2>1. slot.dev \in Devices BY TypeFacts DEF SlotSet
  <2>2. QED BY <2>1, TypeFacts DEF txn_identity
<1>4. moved \in BOOLEAN BY TypeFacts DEF HistSet
<1>5. /\ hist' \in HistSet /\ hist'.tries = hist.tries /\ hist'.lost = hist.lost
      /\ hist'.switched = moved /\ hist'.doubt = hist.doubt
      /\ hist'.overrun = hist.overrun /\ hist'.lapsed = hist.lapsed
  <2> HIDE DEF moved
  <2>1. QED BY <1>1, <1>4, TypeFacts, HistMoves, 0 \in Nat
<1>6. TypeOK'
  BY <1>1, <1>2, <1>3, <1>5, TypeFacts, TypeByParts
  DEF busVars, sessionVars, queueVars, SameWork
<1>7. TxnInOrder'
  <2>1. txn.kind \in WorkKinds BY TypeFacts DEF TxnSet
  <2>2. txn'.pc = "send" => Changes(txn.kind) BY <1>2, <2>1 DEF Changes, WorkKinds
  <2>3. UNCHANGED <<slot, latch, cancel>> BY <1>1 DEF sessionVars, queueVars
  <2>4. ~txn.begun BY <1>1, OrderFacts
  <2>5. QED BY <1>1, <1>2, <2>2, <2>3, <2>4, OrderFacts DEF TxnInOrder, Recording, SameWork
<1>8. SlotHeld' /\ WorkOwed' /\ Consented' /\ AttemptKept' /\ DoubtKept'
  <2>1. txn.pc # "idle" /\ txn'.pc # "idle" BY <1>1, <1>2
  <2>2. txn.pc \notin {"mark", "forget"} /\ txn'.pc \notin {"mark", "forget"} BY <1>1, <1>2
  <2>3. plugged' = plugged BY <1>1 DEF busVars
  <2>4. QED BY <1>1, <1>2, <1>5, <2>1, <2>2, <2>3, SessionStep
<1>9. DeleteAimed'
  <2>1. ctl' = ctl /\ held' = held BY <1>1 DEF sessionVars, queueVars
  <2>2. CASE displayed' = displayed
    <3>1. ~moved => ~hist.switched OBVIOUS
    <3>2. txn'.kind = txn.kind /\ txn'.target = txn.target /\ txn.pc # "idle"
      BY <1>1, <1>2 DEF SameWork
    <3>3. QED BY <1>5, <2>1, <2>2, <3>1, <3>2, AimedIs DEF WorkIInv
  <2>3. CASE displayed' # displayed /\ ~moved
    <3>1. del.state # "RUNNING" BY <2>3
    <3>2. Aims(ctl, displayed') /\ held.kind # "DELETE" /\ txn.kind # "DELETE"
      BY <1>1, <3>1, AimedAnyhow DEF Recording
    <3>3. QED BY <1>2, <2>1, <3>2, AimedIs DEF SameWork
  <2>4. CASE moved BY <1>5, <2>4, AimedIs
  <2>5. QED BY <2>2, <2>3, <2>4
<1>10. QED BY <1>6, <1>7, <1>8, <1>9 DEF WorkIInv

LEMMA UploadSendKeeps == ASSUME WorkIInv, upload_send PROVE WorkIInv'
<1>1. /\ UNCHANGED <<busVars, slot, up, connected, cardVars, sessionVars, hist>>
      /\ txn.pc = "send" /\ txn.kind = "UPLOAD"
  BY DEF upload_send
<1>2. /\ SameWork /\ txn'.ok = txn.ok
      /\ \/ txn'.pc = "close" /\ txn'.begun = txn.begun
         \/ txn'.pc = "write" /\ txn'.begun
  <2>1. {"close", "write"} \subseteq TxnPcs /\ TRUE \in BOOLEAN BY DEF TxnPcs
  <2>2. \/ txn' = [txn EXCEPT !.pc = "close"]
        \/ txn' = [txn EXCEPT !.pc = "write", !.begun = TRUE]
    BY DEF upload_send, Goto
  <2>3. QED BY <2>1, <2>2, TypeFacts, TxnMoves
<1>3. TxnInOrder'
  BY <1>1, <1>2, OrderFacts DEF TxnInOrder, Recording, SameWork, sessionVars, queueVars, Changes
<1>4. QED
  BY <1>1, <1>2, <1>3, TypeFacts, DataStep DEF busVars, cardVars

LEMMA DeleteSendKeeps == ASSUME WorkIInv, delete_send PROVE WorkIInv'
<1>1. /\ UNCHANGED <<plugged, slot, up, connected, cardVars, sessionVars, hist>>
      /\ txn.pc = "send" /\ txn.kind = "DELETE"
  BY DEF delete_send
<1>2. /\ SameWork /\ txn'.pc = "close"
      /\ \/ txn'.begun /\ (txn'.ok => slot.dev \notin holds')
         \/ txn'.ok = txn.ok /\ txn'.begun = txn.begun
      /\ holds' \subseteq holds
  <2>1. "close" \in TxnPcs /\ TRUE \in BOOLEAN BY DEF TxnPcs
  <2>2. CASE Goto("close") /\ UNCHANGED holds
    BY <2>1, <2>2, TypeFacts, TxnMoves DEF Goto
  <2>3. CASE /\ holds' \in {holds, holds \ {slot.dev}}
             /\ \E ok \in {FALSE, slot.dev \notin holds'} :
                  txn' = [txn EXCEPT !.pc = "close", !.begun = TRUE, !.ok = ok]
    <3>1. PICK ok \in BOOLEAN :
            /\ txn' = [txn EXCEPT !.pc = "close", !.begun = TRUE, !.ok = ok]
            /\ ok => slot.dev \notin holds'
      BY <2>3
    <3>2. QED BY <2>1, <2>3, <3>1, TypeFacts, TxnMoves
  <2>4. QED BY <2>2, <2>3 DEF delete_send
<1>3. TxnInOrder'
  <2>1. slot.dev = txn.target /\ ~txn.begun /\ ~txn.ok /\ ~txn.late BY <1>1, TypeFacts, OrderFacts
  <2>2. UNCHANGED <<slot, latch, cancel>> BY <1>1 DEF sessionVars, queueVars
  <2>3. QED BY <1>1, <1>2, <2>1, <2>2 DEF TxnInOrder, Recording, SameWork
<1>4. QED
  BY <1>1, <1>2, <1>3, TypeFacts, DataStep DEF cardVars

LEMMA UploadWriteKeeps == ASSUME WorkIInv, upload_write PROVE WorkIInv'
<1>1. /\ UNCHANGED <<plugged, slot, up, connected, cardVars, sessionVars, hist>>
      /\ txn.pc = "write"
  BY DEF upload_write
<1>2. /\ SameWork /\ txn'.pc \in {"close", "readback"} /\ txn'.begun = txn.begun
      /\ txn'.ok = txn.ok
  <2>1. {"close", "readback"} \subseteq TxnPcs BY DEF TxnPcs
  <2>2. QED BY <2>1, TypeFacts, TxnMoves DEF upload_write, Goto
<1>3. holds' \in SUBSET Serials
  <2>1. slot.dev \in Serials BY <1>1, OrderFacts
  <2>2. holds' \in {holds, holds \union {slot.dev}} BY DEF upload_write
  <2>3. QED BY <2>1, <2>2, TypeFacts
<1>4. TxnInOrder'
  BY <1>1, <1>2, OrderFacts DEF TxnInOrder, Recording, SameWork, sessionVars, queueVars
<1>5. QED BY <1>1, <1>2, <1>3, <1>4, TypeFacts, DataStep DEF cardVars

LEMMA UploadReadbackKeeps == ASSUME WorkIInv, upload_readback PROVE WorkIInv'
<1>1. /\ UNCHANGED <<busVars, slot, up, connected, displayed, sessionVars, hist>>
      /\ txn.pc = "readback"
  BY DEF upload_readback
<1>2. SameWork /\ txn'.pc = "close" /\ txn'.begun = txn.begun
  <2>1. "close" \in TxnPcs /\ TRUE \in BOOLEAN /\ cancel \in BOOLEAN BY TypeFacts DEF TxnPcs
  <2>2. QED BY <2>1, TypeFacts, TxnMoves DEF upload_readback
<1>3. cache' \in CacheSet BY TypeFacts DEF upload_readback, CacheSet
<1>4. TxnInOrder'
  BY <1>1, <1>2, OrderFacts DEF TxnInOrder, Recording, SameWork, sessionVars, queueVars
<1>5. QED BY <1>1, <1>2, <1>3, <1>4, TypeFacts, DataStep DEF busVars

LEMMA SyncDataKeeps == ASSUME WorkIInv, sync_data PROVE WorkIInv'
<1>1. /\ UNCHANGED <<busVars, slot, up, connected, displayed, sessionVars, hist>>
      /\ txn.pc = "data"
  BY DEF sync_data
<1>2. SameWork /\ txn'.pc = "close" /\ txn'.begun = txn.begun
  <2>1. "close" \in TxnPcs /\ TRUE \in BOOLEAN BY DEF TxnPcs
  <2>2. QED BY <2>1, TypeFacts, TxnMoves DEF sync_data, Goto
<1>3. cache' \in CacheSet
  <2>1. slot.dev \in Serials BY <1>1, OrderFacts
  <2>2. cache[slot.dev] \in {"none", "present", "absent"} BY <2>1, TypeFacts DEF CacheSet
  <2>3. \/ cache' = cache
        \/ \E row \in {"none", "present", "absent"} : cache' = [cache EXCEPT ![slot.dev] = row]
    BY <2>2 DEF sync_data
  <2>4. QED BY <2>3, TypeFacts DEF CacheSet
<1>4. TxnInOrder'
  BY <1>1, <1>2, OrderFacts DEF TxnInOrder, Recording, SameWork, sessionVars, queueVars
<1>5. QED BY <1>1, <1>2, <1>3, <1>4, TypeFacts, DataStep DEF busVars

LEMMA TxnCloseKeeps == ASSUME WorkIInv, txn_close PROVE WorkIInv'
<1>1. /\ UNCHANGED <<busVars, polite, queueVars, up, del, sync, connected, autoDue,
                     cardVars, left>>
      /\ txn.pc = "close"
      /\ latch' = (latch \/ (txn.begun /\ ~txn.ok))
      /\ IF Eligible THEN Returns ELSE UNCHANGED auto
  BY DEF txn_close
<1> DEFINE doubt == txn.begun /\ ~txn.ok /\ Answers
<1>2. PICK sent \in BOOLEAN, released \in BOOLEAN :
        /\ Announces(sent, doubt)
        /\ txn' = [txn EXCEPT !.pc = "report",
                     !.cut = txn.cut \/ (txn.kind = "SYNC" /\ cancel),
                     !.ok = txn.ok /\ released /\ (txn.kind = "SYNC" => sent)]
  BY DEF txn_close
<1>3. /\ doubt \in BOOLEAN /\ up.attempted \in BOOLEAN /\ latch' \in BOOLEAN
      /\ hist.doubt \in BOOLEAN
  BY <1>1, TypeFacts DEF TxnSet, UpSet, HistSet, Answers
<1>4. /\ slot' \in SlotSet /\ slot'.polite = sent /\ slot'.dev = slot.dev
      /\ slot'.closing = slot.closing /\ slot'.scan = slot.scan /\ slot'.busy = slot.busy
      /\ hist' \in HistSet /\ hist'.tries = hist.tries /\ hist'.lost = hist.lost
      /\ hist'.switched = hist.switched /\ hist'.lapsed = hist.lapsed
      /\ hist'.doubt = (hist.doubt \/ doubt)
      /\ hist'.overrun = (hist.overrun \/ (slot.polite /\ ~sent
                                             /\ (up.attempted \/ hist.doubt)))
  <2> HIDE DEF doubt
  <2>1. QED BY <1>2, <1>3, TypeFacts, Announced
<1>5. /\ SameWork /\ txn'.pc = "report" /\ txn'.begun = txn.begun
      /\ (txn'.ok => txn.ok)
  <2> DEFINE cut == txn.cut \/ (txn.kind = "SYNC" /\ cancel)
             ok == txn.ok /\ released /\ (txn.kind = "SYNC" => sent)
  <2>1. "report" \in TxnPcs /\ cut \in BOOLEAN /\ ok \in BOOLEAN
    BY TypeFacts DEF TxnPcs, TxnSet
  <2>2. txn' = [txn EXCEPT !.pc = "report", !.cut = cut, !.ok = ok] BY <1>2
  <2>3. ok => txn.ok OBVIOUS
  <2> HIDE DEF cut, ok
  <2>4. QED BY <2>1, <2>2, <2>3, TypeFacts, TxnMoves
<1>6. TypeOK'
  <2>1. auto' \in AutoSet BY <1>1, TypeFacts, RootTypes
  <2>2. QED BY <1>1, <1>3, <1>4, <1>5, <2>1, TypeFacts, TypeByParts
        DEF busVars, queueVars, cardVars, SameWork
<1>7. TxnInOrder'
  BY <1>1, <1>4, <1>5, OrderFacts DEF TxnInOrder, Recording, SameWork, queueVars, busVars
<1>8. slot.polite /\ (up.attempted \/ hist.doubt) /\ ~hist'.overrun => sent BY <1>4
<1>9. AttemptKept'
  <2>1. ~hist'.overrun => ~hist.overrun BY <1>4
  <2>2. hist.tries > 0 /\ ~hist.overrun /\ ~hist.lapsed =>
          /\ hist.tries = 1 /\ up.attempted /\ (slot.closing => slot.polite)
          /\ (slot.dev = None => polite)
    BY DEF WorkIInv, AttemptKept
  <2>3. hist.tries > 0 => plugged' # None BY <1>1 DEF WorkIInv, AttemptKept, busVars
  <2>4. QED BY <1>1, <1>4, <1>8, <2>1, <2>2, <2>3 DEF AttemptKept
<1>10. DoubtKept'
  <2>1. ~hist'.overrun => ~hist.overrun BY <1>4
  <2>2. CASE hist.doubt
    <3>1. ~hist.overrun => latch /\ (slot.closing => slot.polite)
      BY <2>2 DEF WorkIInv, DoubtKept
    <3>2. QED BY <1>1, <1>4, <1>8, <2>1, <2>2, <3>1 DEF DoubtKept
  <2>3. CASE ~hist.doubt /\ doubt
    <3>1. latch' /\ ~slot.closing BY <1>1, <2>3 DEF Answers
    <3>2. QED BY <1>4, <3>1 DEF DoubtKept
  <2>4. CASE ~hist.doubt /\ ~doubt BY <1>3, <1>4, <2>4 DEF DoubtKept
  <2>5. QED BY <2>2, <2>3, <2>4
<1>11. QED
  BY <1>1, <1>4, <1>5, <1>6, <1>7, <1>9, <1>10, SlotWithin, OwedWithin, ConsentWithin,
     AimedWithin
  DEF WorkIInv, queueVars, cardVars, busVars, SameWork

LEMMA TxnReportKeeps == ASSUME WorkIInv, txn_report PROVE WorkIInv'
<1> DEFINE done == txn.kind = "DELETE" /\ txn.ok
<1>1. /\ UNCHANGED <<busVars, polite, latch, queueVars, connected, auto, cardVars, left, hist>>
      /\ txn.pc = "report"
      /\ done => txn' = [txn EXCEPT !.pc = "mark"] /\ slot' = slot
      /\ ~done => txn' = TxnIdle /\ slot' = [slot EXCEPT !.busy = FALSE]
  BY DEF txn_report, txn_result, Goto
<1>2. /\ up' \in UpSet /\ up'.consent = up.consent /\ up'.attempted = up.attempted
      /\ (txn.kind = "UPLOAD" => up'.state \in {"VERIFIED", "FAILED"})
      /\ (txn.kind # "UPLOAD" => up' = up)
  <2>1. CASE txn.kind = "UPLOAD"
    <3>1. PICK state \in {"VERIFIED", "FAILED"} : observe_upload(state, latch)
      BY <2>1 DEF txn_report
    <3>2. state \in UploadStates BY DEF UploadStates
    <3>3. QED BY <2>1, <3>1, <3>2, TypeFacts, UploadObserved
  <2>2. CASE txn.kind # "UPLOAD" BY <2>2, TypeFacts DEF txn_report
  <2>3. QED BY <2>1, <2>2
<1>3. /\ del' \in DelSet /\ del'.consent = del.consent
      /\ (txn.kind = "DELETE" => del'.state \in {"REMOVED", "FAILED"})
      /\ (txn.kind # "DELETE" => del' = del)
  <2>1. CASE txn.kind = "DELETE"
    <3>1. PICK state \in {"REMOVED", "FAILED"} : observe_delete(state, latch)
      BY <2>1 DEF txn_report
    <3>2. state \in DeleteStates BY DEF DeleteStates
    <3>3. QED BY <2>1, <3>1, <3>2, TypeFacts, DeleteObserved
  <2>2. CASE txn.kind # "DELETE" BY <2>2, TypeFacts DEF txn_report
  <2>3. QED BY <2>1, <2>2
<1>4. cache' = cache /\ displayed' = displayed BY <1>1 DEF cardVars
<1>5. sync' \in SyncSet /\ autoDue' \in BOOLEAN BY TypeFacts, RootTypes DEF txn_report
<1>6. /\ slot' \in SlotSet /\ slot'.dev = slot.dev /\ slot'.scan = slot.scan
      /\ slot'.closing = slot.closing /\ slot'.polite = slot.polite
      /\ done => slot'.busy = slot.busy
  <2>1. CASE done BY <1>1, <2>1, TypeFacts
  <2>2. CASE ~done BY <1>1, <2>2, TypeFacts, SlotMoves
  <2>3. QED BY <2>1, <2>2
<1>7. /\ txn' \in TxnSet
      /\ ~done => /\ txn'.pc = "idle" /\ txn'.kind = "SYNC"
                  /\ ~txn'.begun /\ ~txn'.ok /\ ~txn'.late
      /\ done => /\ txn'.pc = "mark" /\ SameWork
                 /\ txn'.begun = txn.begun /\ txn'.ok = txn.ok
  <2>1. None \in Devices /\ "SYNC" \in WorkKinds /\ "mark" \in TxnPcs
    BY DEF Devices, WorkKinds, TxnPcs
  <2>2. CASE done BY <1>1, <2>1, <2>2, TypeFacts, TxnMoves DEF SameWork
  <2>3. CASE ~done BY <1>1, <2>1, <2>3, TxnTakes
  <2>4. QED BY <2>2, <2>3
<1>8. TypeOK'
  BY <1>1, <1>2, <1>3, <1>4, <1>5, <1>6, <1>7, TypeFacts, TypeByParts DEF busVars, queueVars
<1>9. SlotHeld'
  <2>1. CASE done
    <3>1. slot.busy /\ ~slot.scan /\ slot.dev # None
      BY <1>1, OrderFacts, SerialAssumption
    <3>2. QED BY <1>6, <1>7, <2>1, <3>1 DEF SlotHeld
  <2>2. CASE ~done BY <1>1, <1>6, <1>7, <2>2, OrderFacts DEF SlotHeld
  <2>3. QED BY <2>1, <2>2
<1>10. TxnInOrder'
  <2>1. CASE done
    <3>1. txn.begun /\ txn.target \notin holds /\ ~txn.late BY <2>1, OrderFacts
    <3>2. UNCHANGED <<holds, latch, cancel>> BY <1>1 DEF busVars, queueVars
    <3>3. slot.dev = txn.target BY <3>1, OrderFacts
    <3>4. QED BY <1>6, <1>7, <2>1, <3>1, <3>2, <3>3 DEF TxnInOrder, Recording, SameWork
  <2>2. CASE ~done BY <1>7, <2>2 DEF TxnInOrder, Recording
  <2>3. QED BY <2>1, <2>2
<1>11. WorkOwed'
  <2> DEFINE u == Among(ctl, "UPLOAD") + Hand(held, "UPLOAD")
             d == Among(ctl, "DELETE") + Hand(held, "DELETE")
  <2>1. /\ Among(ctl, "UPLOAD") \in Nat /\ Hand(held, "UPLOAD") \in Nat
        /\ Among(ctl, "DELETE") \in Nat /\ Hand(held, "DELETE") \in Nat
    BY OwedNumbers
  <2>2. u \in Nat /\ d \in Nat BY <2>1
  <2>3. /\ u + Work(txn, "UPLOAD") = IF up.state = "RUNNING" THEN 1 ELSE 0
        /\ d + Work(txn, "DELETE") = IF del.state = "RUNNING" /\ ~hist.lost THEN 1 ELSE 0
    BY OwedIs DEF WorkIInv
  <2>4. Work(txn', "UPLOAD") = 0 /\ Work(txn', "DELETE") = 0 BY <1>7 DEF Work
  <2>5. UNCHANGED <<ctl, held, hist>> BY <1>1 DEF queueVars
  <2>6. /\ Among(ctl', "UPLOAD") + Hand(held', "UPLOAD") + Work(txn', "UPLOAD") = u
        /\ Among(ctl', "DELETE") + Hand(held', "DELETE") + Work(txn', "DELETE") = d
    BY <2>1, <2>4, <2>5
  <2> HIDE DEF u, d
  <2>7. u = IF up'.state = "RUNNING" THEN 1 ELSE 0
    <3>1. CASE txn.kind = "UPLOAD"
      <4>1. Work(txn, "UPLOAD") = 1 BY <1>1, <3>1 DEF Work
      <4>2. QED BY <1>2, <2>2, <2>3, <3>1, <4>1
    <3>2. CASE txn.kind # "UPLOAD"
      <4>1. Work(txn, "UPLOAD") = 0 BY <3>2 DEF Work
      <4>2. QED BY <1>2, <2>2, <2>3, <3>2, <4>1
    <3>3. QED BY <3>1, <3>2
  <2>8. d = IF del'.state = "RUNNING" /\ ~hist'.lost THEN 1 ELSE 0
    <3>1. CASE txn.kind = "DELETE"
      <4>1. Work(txn, "DELETE") = 1 BY <1>1, <3>1 DEF Work
      <4>2. QED BY <1>3, <2>2, <2>3, <3>1, <4>1
    <3>2. CASE txn.kind # "DELETE"
      <4>1. Work(txn, "DELETE") = 0 BY <3>2 DEF Work
      <4>2. QED BY <1>3, <2>2, <2>3, <2>5, <3>2, <4>1
    <3>3. QED BY <3>1, <3>2
  <2>9. QED BY <2>6, <2>7, <2>8, OwedIs
<1>12. DeleteAimed'
  <2>1. UNCHANGED <<ctl, held, hist, displayed>> BY <1>1, <1>4 DEF queueVars
  <2>2. txn'.kind = "DELETE" =>
          txn.kind = "DELETE" /\ txn.pc # "idle" /\ txn'.target = txn.target
    BY <1>1, <1>7 DEF SameWork
  <2>3. QED BY <2>1, <2>2, AimedIs DEF WorkIInv
<1>13. QED
  BY <1>1, <1>2, <1>3, <1>6, <1>8, <1>9, <1>10, <1>11, <1>12, ConsentWithin, AttemptWithin,
     DoubtWithin
  DEF WorkIInv, busVars

\* The card is written to while a delete is recorded, and nothing else happens.
LEMMA RowRecorded ==
    ASSUME WorkIInv, NEW row \in {"none", "absent"}, Recorded(row)
    PROVE  /\ cache' \in CacheSet
           /\ \A d \in Serials : cache'[d] # cache[d] => d = displayed
<1>1. \/ cache' = cache
      \/ cache' = [cache EXCEPT ![displayed] = row]
  BY DEF Recorded
<1>2. QED BY <1>1, TypeFacts DEF CacheSet

LEMMA DeleteMarksKeeps == ASSUME WorkIInv, delete_marks PROVE WorkIInv'
<1>1. /\ UNCHANGED <<busVars, portVars, queueVars, up, del, rootVars, displayed, left, hist>>
      /\ txn.pc = "mark" /\ txn' = [txn EXCEPT !.pc = "forget"] /\ Recorded("absent")
  BY DEF delete_marks, Goto
<1>2. /\ SameWork /\ txn'.pc = "forget" /\ txn'.begun = txn.begun /\ txn'.ok = txn.ok
  <2>1. "forget" \in TxnPcs BY DEF TxnPcs
  <2>2. QED BY <1>1, <2>1, TypeFacts, TxnMoves
<1>3. cache' \in CacheSet BY <1>1, RowRecorded
<1>4. TypeOK'
  BY <1>1, <1>2, <1>3, TypeFacts, TypeByParts
  DEF busVars, portVars, queueVars, rootVars, SameWork
<1>5. TxnInOrder'
  <2>1. UNCHANGED <<slot, latch, cancel, holds>> BY <1>1 DEF portVars, queueVars, busVars
  <2>2. Recording BY <1>1 DEF Recording
  <2>3. QED BY <1>1, <1>2, <2>1, <2>2, OrderFacts DEF TxnInOrder, Recording, SameWork
<1>6. QED
  BY <1>1, <1>2, <1>4, <1>5, SlotWithin, OwedWithin, ConsentWithin, AttemptWithin,
     DoubtWithin, AimedWithin
  DEF WorkIInv, portVars, queueVars, busVars, SameWork

LEMMA DeleteForgetsKeeps == ASSUME WorkIInv, delete_forgets PROVE WorkIInv'
<1>1. /\ UNCHANGED <<busVars, polite, latch, queueVars, up, rootVars, displayed, left, hist>>
      /\ txn.pc = "forget" /\ txn' = TxnIdle /\ slot' = [slot EXCEPT !.busy = FALSE]
      /\ del' = [del EXCEPT !.forget = FALSE]
      /\ Recorded("none") \/ cache' = cache
  BY DEF delete_forgets, txn_result
<1>2. del' \in DelSet /\ del'.state = del.state /\ del'.consent = del.consent
  BY <1>1, TypeFacts DEF DelSet
<1>3. cache' \in CacheSet BY <1>1, TypeFacts, RowRecorded
<1>4. /\ slot' \in SlotSet /\ slot'.dev = slot.dev /\ slot'.scan = slot.scan
      /\ slot'.closing = slot.closing /\ slot'.polite = slot.polite
  BY <1>1, TypeFacts, SlotMoves
<1>5. /\ txn' \in TxnSet /\ txn'.pc = "idle" /\ txn'.kind = "SYNC"
      /\ ~txn'.begun /\ ~txn'.ok /\ ~txn'.late
  <2>1. None \in Devices /\ "SYNC" \in WorkKinds BY DEF Devices, WorkKinds
  <2>2. QED BY <1>1, <2>1, TxnTakes
<1>6. TypeOK'
  BY <1>1, <1>2, <1>3, <1>4, <1>5, TypeFacts, TypeByParts DEF busVars, queueVars, rootVars
<1>7. SlotHeld' BY <1>1, <1>4, <1>5, OrderFacts DEF SlotHeld
<1>8. TxnInOrder' BY <1>5 DEF TxnInOrder, Recording
<1>9. WorkOwed'
  <2>1. UNCHANGED <<ctl, held, up, hist>> BY <1>1 DEF queueVars
  <2>2. \A k \in {"UPLOAD", "DELETE"} : Work(txn', k) = Work(txn, k)
    BY <1>1, <1>5 DEF Work
  <2>3. QED BY <1>2, <2>1, <2>2, OwedIs DEF WorkIInv
<1>10. DeleteAimed' BY <1>1, <1>5, AimedIs DEF WorkIInv, queueVars
<1>11. QED
  BY <1>1, <1>2, <1>4, <1>6, <1>7, <1>8, <1>9, <1>10, ConsentWithin, AttemptWithin,
     DoubtWithin
  DEF WorkIInv, busVars

(***************************************************************************)
(* The requests                                                            *)
(***************************************************************************)

\* A write is asked for, by the owner or automatically.
LEMMA UploadRequested ==
    ASSUME WorkIInv, NEW d \in Devices, map_upload_request(d),
           UNCHANGED <<held, txn, del, hist, displayed>>
    PROVE  /\ up' \in UpSet /\ up'.attempted = up.attempted /\ QueueFits(ctl')
           /\ WorkOwed' /\ Consented' /\ DeleteAimed'
<1> DEFINE r == [kind |-> "UPLOAD", target |-> d]
<1>1. CASE MayUpload /\ Room
  <2>1. ctl' = Append(ctl, r) /\ up' = [up EXCEPT !.state = "RUNNING"]
    BY <1>1 DEF map_upload_request
  <2>2. /\ r \in Requests /\ r.kind = "UPLOAD"
        /\ Hand(r, "UPLOAD") = 1 /\ Hand(r, "DELETE") = 0
    BY DEF Requests, WorkKinds, Hand
  <2>3. QueueFits(ctl) /\ Len(ctl) < QueueDepth BY <1>1, TypeFacts DEF Room
  <2> HIDE DEF r
  <2>4. QueueFits(ctl') BY <2>1, <2>2, <2>3, QueueMoves
  <2>5. /\ up' \in UpSet /\ up'.attempted = up.attempted /\ up'.state = "RUNNING"
        /\ up'.consent = up.consent /\ up.consent /\ up.state # "RUNNING"
    <3>1. "RUNNING" \in UploadStates BY DEF UploadStates
    <3>2. QED BY <1>1, <2>1, <3>1, TypeFacts DEF MayUpload, UpSet
  <2>6. \A k : Among(ctl', k) = Among(ctl, k) + Hand(r, k)
    BY <2>1, <2>2, <2>3, AmongAppend DEF QueueFits
  <2>7. WorkOwed'
    <3>1. /\ Among(ctl, "UPLOAD") \in Nat /\ Hand(held, "UPLOAD") \in Nat
          /\ Work(txn, "UPLOAD") \in Nat
          /\ Among(ctl, "DELETE") \in Nat
      BY OwedNumbers
    <3>2. Among(ctl', "UPLOAD") = Among(ctl, "UPLOAD") + 1
          /\ Among(ctl', "DELETE") = Among(ctl, "DELETE")
      BY <2>2, <2>6, <3>1
    <3>3. Among(ctl, "UPLOAD") + Hand(held, "UPLOAD") + Work(txn, "UPLOAD") = 0
      BY <2>5, OwedIs DEF WorkIInv
    <3>4. Among(ctl', "UPLOAD") + Hand(held', "UPLOAD") + Work(txn', "UPLOAD") = 1
      BY <3>1, <3>2, <3>3
    <3>5. QED BY <2>5, <3>2, <3>4, OwedIs DEF WorkIInv
  <2>8. Consented' BY <2>5 DEF WorkIInv, Consented
  <2>9. DeleteAimed'
    <3>1. \A e : Aims(ctl, e) => Aims(ctl', e)
      BY <2>1, <2>2, <2>3, AimsAppend DEF QueueFits
    <3>2. QED BY <3>1, AimedIs DEF WorkIInv
  <2>10. QED BY <2>4, <2>5, <2>7, <2>8, <2>9
<1>2. CASE ~(MayUpload /\ Room)
  <2>1. ctl' = ctl /\ \/ up' = up
                      \/ up' = [up EXCEPT !.state = "FAILED"] /\ up.state # "RUNNING"
    BY <1>2 DEF map_upload_request, MayUpload
  <2>2. /\ up' \in UpSet /\ up'.attempted = up.attempted /\ up'.consent = up.consent
        /\ up'.state = "RUNNING" <=> up.state = "RUNNING"
    <3>1. "FAILED" \in UploadStates BY DEF UploadStates
    <3>2. CASE up' = up BY <3>2, TypeFacts
    <3>3. CASE up' = [up EXCEPT !.state = "FAILED"] /\ up.state # "RUNNING"
      BY <3>1, <3>3, TypeFacts DEF UpSet
    <3>4. QED BY <2>1, <3>2, <3>3
  <2>3. WorkOwed' BY <2>1, <2>2, OwedIs DEF WorkIInv
  <2>4. QED BY <2>1, <2>2, <2>3, TypeFacts, ConsentWithin, AimedWithin
<1>3. QED BY <1>1, <1>2

LEMMA AutoApplyKeeps == ASSUME WorkIInv, auto_apply PROVE WorkIInv'
<1>1. /\ UNCHANGED <<busVars, portVars, queueVars, txn, del, sync, connected, cardVars, left>>
      /\ autoDue' = FALSE
  BY DEF auto_apply
<1>2. CASE connected # None /\ evaluate_apply(connected)
  <2> DEFINE n == IF Answers THEN hist.tries + 1 ELSE hist.tries
  <2>1. /\ up' = [up EXCEPT !.attempted = TRUE]
        /\ auto' = [pc |-> "request", dev |-> connected]
        /\ hist' = [hist EXCEPT !.tries = n]
    BY <1>2 DEF auto_apply
  <2>2. n \in Nat BY TypeFacts DEF HistSet
  <2>3. /\ up' \in UpSet /\ up'.attempted = TRUE /\ up'.state = up.state
        /\ up'.consent = up.consent
    BY <2>1, TypeFacts DEF UpSet
  <2>4. /\ hist' \in HistSet /\ hist'.tries = n /\ hist'.lost = hist.lost
        /\ hist'.switched = hist.switched /\ hist'.doubt = hist.doubt
        /\ hist'.overrun = hist.overrun /\ hist'.lapsed = hist.lapsed
    <3> HIDE DEF n
    <3>1. QED BY <2>1, <2>2, TypeFacts, HistMoves, TRUE \in BOOLEAN
  <2>5. TypeOK'
    <3>1. auto' \in AutoSet BY <2>1, TypeFacts, RootTypes
    <3>2. QED BY <1>1, <2>3, <2>4, <3>1, TypeFacts, TypeByParts
          DEF busVars, portVars, queueVars, cardVars
  <2>6. AttemptKept'
    <3>1. ~up.attempted BY <1>2 DEF evaluate_apply
    <3>2. ~hist.overrun /\ ~hist.lapsed => hist.tries = 0
      BY <3>1, TypeFacts DEF WorkIInv, AttemptKept, HistSet
    <3>3. CASE Answers
      <4>1. ~slot.closing /\ slot.dev # None /\ plugged # None BY <3>3 DEF Answers
      <4>2. QED BY <1>1, <2>3, <2>4, <3>2, <3>3, <4>1 DEF AttemptKept, portVars, busVars
    <3>4. CASE ~Answers
      BY <1>1, <2>4, <3>2, <3>4 DEF WorkIInv, AttemptKept, busVars
    <3>5. QED BY <3>3, <3>4
  <2>7. QED
    BY <1>1, <2>3, <2>4, <2>5, <2>6, SlotWithin, TxnWithin, OwedWithin, ConsentWithin,
       DoubtWithin, AimedWithin
    DEF WorkIInv, portVars, busVars, queueVars, cardVars
<1>3. CASE ~(connected # None /\ evaluate_apply(connected))
  <2>1. auto' = [pc |-> "none", dev |-> None] /\ UNCHANGED <<up, hist>>
    BY <1>3 DEF auto_apply
  <2>2. TypeOK'
    <3>1. None \in Devices BY DEF Devices
    <3>2. auto' \in AutoSet BY <2>1, <3>1, TypeFacts, RootTypes
    <3>3. QED BY <1>1, <2>1, <3>2, TypeFacts, TypeByParts
          DEF busVars, portVars, queueVars, cardVars
  <2>3. QED
    BY <1>1, <2>1, <2>2, SlotWithin, TxnWithin, OwedWithin, ConsentWithin, AttemptWithin,
       DoubtWithin, AimedWithin
    DEF WorkIInv, portVars, busVars, queueVars, cardVars
<1>4. QED BY <1>2, <1>3

LEMMA AutoRequestKeeps == ASSUME WorkIInv, auto_request PROVE WorkIInv'
<1>1. /\ UNCHANGED <<busVars, portVars, held, cancel, txn, del, sync, connected, autoDue,
                     cardVars, left, hist>>
      /\ map_upload_request(auto.dev) /\ auto' = [pc |-> "none", dev |-> None]
  BY DEF auto_request
<1>2. /\ up' \in UpSet /\ up'.attempted = up.attempted /\ QueueFits(ctl')
      /\ WorkOwed' /\ Consented' /\ DeleteAimed'
  <2>1. auto.dev \in Devices BY TypeFacts DEF AutoSet
  <2>2. QED BY <1>1, <2>1, UploadRequested DEF cardVars
<1>3. TypeOK'
  <2>1. None \in Devices BY DEF Devices
  <2>2. auto' \in AutoSet BY <1>1, <2>1, TypeFacts, RootTypes
  <2>3. QED BY <1>1, <1>2, <2>2, TypeFacts, TypeByParts DEF busVars, portVars, cardVars
<1>4. QED
  BY <1>1, <1>2, <1>3, SlotWithin, TxnWithin, AttemptWithin, DoubtWithin
  DEF WorkIInv, portVars, busVars

(***************************************************************************)
(* The owner                                                               *)
(***************************************************************************)

LEMMA CallType == ASSUME WorkIInv, Call PROVE left' \in LeftSet
  BY TypeFacts, CallBounds DEF Call, LeftSet

\* The owner's calls leave the port, the flags and the transaction alone.
LEMMA CallWithin ==
    ASSUME WorkIInv, Call, UNCHANGED <<busVars, portVars, held, cancel, txn>>,
           up' \in UpSet, up'.attempted = up.attempted, del' \in DelSet, QueueFits(ctl'),
           sync' \in SyncSet, UNCHANGED <<connected, autoDue, auto, cache>>,
           displayed' \in Devices, hist' \in HistSet, hist'.tries = hist.tries,
           hist'.doubt = hist.doubt, hist'.overrun = hist.overrun,
           hist'.lapsed = hist.lapsed, WorkOwed', Consented', DeleteAimed'
    PROVE  WorkIInv'
<1>1. TypeOK' BY CallType, TypeFacts, TypeByParts DEF busVars, portVars
<1>2. SlotHeld' /\ TxnInOrder' BY SlotWithin, TxnWithin DEF portVars, busVars
<1>3. AttemptKept' /\ DoubtKept' BY AttemptWithin, DoubtWithin DEF portVars, busVars
<1>4. QED BY <1>1, <1>2, <1>3 DEF WorkIInv

\* The calls that change a consent or the staged payload.
LEMMA ServiceCall ==
    ASSUME WorkIInv, Call,
           UNCHANGED <<busVars, portVars, queueVars, txn, rootVars, cardVars, hist>>,
           up' \in UpSet, up'.attempted = up.attempted, del' \in DelSet,
           up'.state = "RUNNING" <=> up.state = "RUNNING", del'.state = del.state,
           Consented'
    PROVE  WorkIInv'
<1>1. UNCHANGED <<held, cancel, ctl, sync, connected, autoDue, auto, cache, displayed>>
  BY DEF queueVars, rootVars, cardVars
<1>2. WorkOwed' BY <1>1, OwedIs DEF WorkIInv
<1>3. DeleteAimed' BY <1>1, AimedWithin
<1>4. QED BY <1>1, <1>2, <1>3, TypeFacts, CallWithin

LEMMA WriteConsentKeeps == ASSUME WorkIInv, portal_write_consent PROVE WorkIInv'
<1> DEFINE enabled == ~up.consent
<1>1. /\ Call /\ UNCHANGED <<busVars, portVars, queueVars, txn, rootVars, cardVars, hist>>
      /\ up.state # "RUNNING" /\ up' = [up EXCEPT !.consent = enabled] /\ del' = del
  BY DEF portal_write_consent, portal_settings, set_write_consent, map_upload_set_consent
<1>2. enabled \in BOOLEAN OBVIOUS
<1> HIDE DEF enabled
<1>3. up' \in UpSet /\ up'.attempted = up.attempted /\ up'.state = up.state
  BY <1>1, <1>2, TypeFacts DEF UpSet
<1>4. Consented' BY <1>1, <1>3 DEF WorkIInv, Consented
<1>5. QED BY <1>1, <1>3, <1>4, TypeFacts, ServiceCall

LEMMA DeleteConsentKeeps == ASSUME WorkIInv, portal_delete_consent PROVE WorkIInv'
<1> DEFINE enabled == ~del.consent
<1>1. /\ Call /\ UNCHANGED <<busVars, portVars, queueVars, txn, rootVars, cardVars, hist>>
      /\ del.state # "RUNNING" /\ del' = [del EXCEPT !.consent = enabled] /\ up' = up
  BY DEF portal_delete_consent, portal_settings, set_delete_consent, file_delete_set_consent
<1>2. enabled \in BOOLEAN OBVIOUS
<1> HIDE DEF enabled
<1>3. del' \in DelSet /\ del'.state = del.state BY <1>1, <1>2, TypeFacts DEF DelSet
<1>4. Consented' BY <1>1, <1>3 DEF WorkIInv, Consented
<1>5. QED BY <1>1, <1>3, <1>4, TypeFacts, ServiceCall

LEMMA MapAutoKeeps == ASSUME WorkIInv, portal_map_auto_apply PROVE WorkIInv'
<1> DEFINE enabled == ~up.auto
<1>1. /\ Call /\ UNCHANGED <<busVars, portVars, queueVars, txn, rootVars, cardVars, hist>>
      /\ up' = [up EXCEPT !.auto = enabled] /\ del' = del
  BY DEF portal_map_auto_apply, portal_settings, set_map_auto_apply,
     map_upload_set_auto_apply
<1>2. enabled \in BOOLEAN OBVIOUS
<1> HIDE DEF enabled
<1>3. /\ up' \in UpSet /\ up'.attempted = up.attempted /\ up'.state = up.state
      /\ up'.consent = up.consent
  BY <1>1, <1>2, TypeFacts DEF UpSet
<1>4. Consented' BY <1>1, <1>3, ConsentWithin
<1>5. QED BY <1>1, <1>3, <1>4, TypeFacts, ServiceCall

LEMMA MapStageKeeps == ASSUME WorkIInv, portal_map_stage PROVE WorkIInv'
<1> DEFINE kept == ~cached_destination
           pin == IF cached_destination THEN None ELSE selected_device_identity
<1>1. /\ Call /\ UNCHANGED <<busVars, portVars, queueVars, txn, del, rootVars, cardVars, hist>>
      /\ up.state # "RUNNING"
      /\ up' = [up EXCEPT !.state = "IDLE", !.staged = kept, !.pin = pin]
  BY DEF portal_map_stage
<1>2. kept \in BOOLEAN /\ pin \in Devices /\ "IDLE" \in UploadStates
  BY TypeFacts DEF selected_device_identity, Devices, UploadStates
<1> HIDE DEF kept, pin
<1>3. /\ up' \in UpSet /\ up'.attempted = up.attempted /\ up'.state = "IDLE"
      /\ up'.consent = up.consent
  BY <1>1, <1>2, TypeFacts DEF UpSet
<1>4. Consented' BY <1>1, <1>3, ConsentWithin
<1>5. QED BY <1>1, <1>3, <1>4, TypeFacts, ServiceCall

LEMMA MapDiscardKeeps == ASSUME WorkIInv, portal_map_discard PROVE WorkIInv'
<1>1. /\ Call /\ UNCHANGED <<busVars, portVars, queueVars, txn, del, rootVars, cardVars, hist>>
      /\ up.state # "RUNNING"
      /\ up' = [up EXCEPT !.state = "IDLE", !.staged = FALSE, !.pin = None]
  BY DEF portal_map_discard
<1>2. None \in Devices /\ "IDLE" \in UploadStates BY DEF Devices, UploadStates
<1>3. /\ up' \in UpSet /\ up'.attempted = up.attempted /\ up'.state = "IDLE"
      /\ up'.consent = up.consent
  BY <1>1, <1>2, TypeFacts DEF UpSet
<1>4. Consented' BY <1>1, <1>3, ConsentWithin
<1>5. QED BY <1>1, <1>3, <1>4, TypeFacts, ServiceCall

LEMMA MapApplyKeeps == ASSUME WorkIInv, portal_map_apply PROVE WorkIInv'
<1>1. /\ Call /\ UNCHANGED <<busVars, portVars, held, cancel, txn, del, rootVars, cardVars,
                             hist>>
      /\ map_upload_request(connected)
  BY DEF portal_map_apply
<1>2. UNCHANGED <<sync, connected, autoDue, auto, displayed, cache>>
  BY <1>1 DEF rootVars, cardVars
<1>3. /\ up' \in UpSet /\ up'.attempted = up.attempted /\ QueueFits(ctl')
      /\ WorkOwed' /\ Consented' /\ DeleteAimed'
  BY <1>1, <1>2, TypeFacts, UploadRequested
<1>4. QED BY <1>1, <1>2, <1>3, TypeFacts, CallWithin

LEMMA FileDeleteKeeps ==
    ASSUME WorkIInv, NEW both \in BOOLEAN, portal_file_delete(both)
    PROVE  WorkIInv'
<1> DEFINE r == [kind |-> "DELETE", target |-> connected]
           taken == ~latch /\ Room
           state == IF taken THEN "RUNNING" ELSE "FAILED"
           still == hist.switched /\ Recording
<1>1. /\ Call /\ UNCHANGED <<busVars, portVars, held, cancel, txn, up, rootVars, cardVars>>
      /\ displayed = connected /\ del.consent /\ del.state # "RUNNING"
      /\ hist' = [hist EXCEPT !.switched = still, !.lost = FALSE]
      /\ del' = [del EXCEPT !.state = state, !.forget = both]
      /\ ctl' = IF taken THEN Append(ctl, r) ELSE ctl
  BY DEF portal_file_delete, OnDisplay, file_delete_request, MayDelete
<1>2. UNCHANGED <<sync, connected, autoDue, auto, displayed, cache>>
  BY <1>1 DEF rootVars, cardVars
<1>3. /\ hist' \in HistSet /\ hist'.tries = hist.tries /\ ~hist'.lost
      /\ hist'.switched = still /\ hist'.doubt = hist.doubt
      /\ hist'.overrun = hist.overrun /\ hist'.lapsed = hist.lapsed
  <2>1. still \in BOOLEAN BY TypeFacts DEF HistSet
  <2> HIDE DEF still
  <2>2. QED BY <1>1, <2>1, TypeFacts, HistMoves, 0 \in Nat, FALSE \in BOOLEAN
<1>4. del' \in DelSet /\ del'.consent = del.consent /\ del'.state = state
  <2>1. state \in DeleteStates BY DEF DeleteStates
  <2> HIDE DEF state
  <2>2. QED BY <1>1, <2>1, TypeFacts DEF DelSet
<1>5. /\ \A d : Aims(ctl, d) /\ held.kind # "DELETE"
                  /\ (txn.kind = "DELETE" /\ txn.pc # "idle" => Recording)
      /\ Among(ctl, "DELETE") = 0 /\ Hand(held, "DELETE") = 0
      /\ Work(txn, "DELETE") = 0
  BY <1>1, AimedAnyhow
<1>6. /\ r \in Requests /\ r.kind = "DELETE" /\ r.target = displayed
      /\ Hand(r, "UPLOAD") = 0 /\ Hand(r, "DELETE") = 1
  BY <1>1, TypeFacts DEF Requests, WorkKinds, Hand
<1> HIDE DEF r
<1>7. /\ QueueFits(ctl') /\ Aims(ctl', displayed)
      /\ Among(ctl', "UPLOAD") = Among(ctl, "UPLOAD")
      /\ Among(ctl', "DELETE") = IF taken THEN 1 ELSE 0
  <2>1. CASE taken
    <3>1. QueueFits(ctl) /\ Len(ctl) < QueueDepth BY <2>1, TypeFacts DEF Room
    <3>2. QueueFits(ctl') BY <1>1, <1>6, <2>1, <3>1, QueueMoves
    <3>3. Aims(ctl', displayed)
      BY <1>1, <1>5, <1>6, <2>1, <3>1, AimsAppend DEF QueueFits
    <3>4. \A k : Among(ctl', k) = Among(ctl, k) + Hand(r, k)
      BY <1>1, <1>6, <2>1, <3>1, AmongAppend DEF QueueFits
    <3>5. Among(ctl, "UPLOAD") \in Nat BY OwedNumbers
    <3>6. QED BY <1>5, <1>6, <2>1, <3>2, <3>3, <3>4, <3>5
  <2>2. CASE ~taken BY <1>1, <1>5, <2>2, TypeFacts
  <2>3. QED BY <2>1, <2>2
<1>8. WorkOwed'
  <2>1. /\ Among(ctl', "UPLOAD") + Hand(held', "UPLOAD") + Work(txn', "UPLOAD")
             = IF up'.state = "RUNNING" THEN 1 ELSE 0
    BY <1>1, <1>7, OwedIs DEF WorkIInv
  <2>2. Hand(held', "DELETE") = 0 /\ Work(txn', "DELETE") = 0 BY <1>1, <1>5
  <2>3. Among(ctl', "DELETE") + Hand(held', "DELETE") + Work(txn', "DELETE")
             = IF del'.state = "RUNNING" /\ ~hist'.lost THEN 1 ELSE 0
    BY <1>3, <1>4, <1>7, <2>2
  <2>4. QED BY <2>1, <2>3, OwedIs
<1>9. Consented' BY <1>1, <1>4 DEF WorkIInv, Consented
<1>10. DeleteAimed'
  <2>1. CASE still BY <1>3, <2>1, AimedIs
  <2>2. CASE ~still
    <3>1. txn.kind = "DELETE" /\ txn.pc # "idle" => txn.target = displayed
      BY <1>5, <2>2, AimedIs DEF WorkIInv
    <3>2. QED BY <1>1, <1>2, <1>5, <1>7, <3>1, AimedIs
  <2>3. QED BY <2>1, <2>2
<1>11. QED
  BY <1>1, <1>2, <1>3, <1>4, <1>7, <1>8, <1>9, <1>10, TypeFacts, CallWithin

LEMMA SelectKeeps == ASSUME WorkIInv, NEW d \in Serials, portal_select(d) PROVE WorkIInv'
<1> DEFINE moved == del.state = "RUNNING" \/ Recording
<1>1. /\ Call /\ UNCHANGED <<busVars, portVars, queueVars, txn, up, del, rootVars, cache>>
      /\ displayed' = d /\ hist' = [hist EXCEPT !.switched = moved]
  BY DEF portal_select
<1>2. UNCHANGED <<ctl, held, cancel, sync, connected, autoDue, auto>>
  BY <1>1 DEF queueVars, rootVars
<1>3. moved \in BOOLEAN OBVIOUS
<1>4. /\ hist' \in HistSet /\ hist'.tries = hist.tries /\ hist'.lost = hist.lost
      /\ hist'.switched = moved /\ hist'.doubt = hist.doubt
      /\ hist'.overrun = hist.overrun /\ hist'.lapsed = hist.lapsed
  <2> HIDE DEF moved
  <2>1. QED BY <1>1, <1>3, TypeFacts, HistMoves, 0 \in Nat
<1>5. displayed' \in Devices BY <1>1 DEF Devices
<1>6. WorkOwed' BY <1>1, <1>2, <1>4, OwedWithin
<1>7. Consented' BY <1>1, ConsentWithin
<1>8. DeleteAimed'
  <2>1. CASE moved BY <1>4, <2>1, AimedIs
  <2>2. CASE ~moved
    <3>1. /\ Aims(ctl, displayed') /\ held.kind # "DELETE"
          /\ ~(txn.kind = "DELETE" /\ txn.pc # "idle")
      BY <2>2, AimedAnyhow
    <3>2. QED BY <1>1, <1>2, <3>1, AimedIs
  <2>3. QED BY <2>1, <2>2
<1>9. QED
  BY <1>1, <1>2, <1>4, <1>5, <1>6, <1>7, <1>8, TypeFacts, CallWithin

\* A sync is asked for, or cancelled.
LEMMA SyncCallsKeep == ASSUME WorkIInv, portal_sync \/ portal_cancel PROVE WorkIInv'
<1>1. /\ Call /\ Room /\ sync' \in SyncSet
      /\ UNCHANGED <<busVars, portVars, held, cancel, txn, up, del, connected, autoDue, auto,
                     cardVars, hist>>
      /\ \E kind \in {"SYNC", "CANCEL"} :
            ctl' = Append(ctl, [kind |-> kind, target |-> None])
  BY DEF portal_sync, portal_cancel, SyncSet
<1>2. UNCHANGED <<displayed, cache>> BY <1>1 DEF cardVars
<1>3. /\ QueueFits(ctl')
      /\ \A k \in {"UPLOAD", "DELETE"} : Among(ctl', k) = Among(ctl, k)
      /\ \A d : Aims(ctl, d) => Aims(ctl', d)
  BY <1>1, QueueBeside
<1>4. WorkOwed' BY <1>1, <1>3, OwedBeside
<1>5. Consented' BY <1>1, ConsentWithin
<1>6. DeleteAimed' BY <1>1, <1>2, <1>3, AimedIs DEF WorkIInv
<1>7. QED
  BY <1>1, <1>2, <1>3, <1>4, <1>5, <1>6, TypeFacts, CallWithin

(***************************************************************************)
(* The invariant                                                           *)
(***************************************************************************)

LEMMA InitWork == Init => WorkIInv
<1> SUFFICES ASSUME Init PROVE WorkIInv
  OBVIOUS
<1>1. None \in Devices BY DEF Devices
<1>2. /\ slot = NoSlot /\ txn = TxnIdle /\ ctl = <<>> /\ held = NoRequest
      /\ latch = FALSE /\ cancel = FALSE
  BY DEF Init
<1>3. up \in UpSet /\ up.state = "IDLE"
  <2>1. PICK pin \in Devices :
          up = [consent |-> "write" \in Settings, auto |-> "auto" \in Settings,
                attempted |-> FALSE, staged |-> pin # None, pin |-> pin, state |-> "IDLE",
                recovery |-> FALSE]
    BY DEF Init
  <2> DEFINE a == "write" \in Settings
             b == "auto" \in Settings
             c == pin # None
  <2>2. a \in BOOLEAN /\ b \in BOOLEAN /\ c \in BOOLEAN OBVIOUS
  <2>3. up = [consent |-> a, auto |-> b, attempted |-> FALSE, staged |-> c, pin |-> pin,
              state |-> "IDLE", recovery |-> FALSE]
    BY <2>1
  <2> HIDE DEF a, b, c
  <2>4. QED BY <2>2, <2>3 DEF UpSet, UploadStates
<1>4. del \in DelSet /\ del.state = "IDLE"
  <2> DEFINE a == "delete" \in Settings
  <2>1. a \in BOOLEAN OBVIOUS
  <2>2. del = [consent |-> a, state |-> "IDLE", recovery |-> FALSE, forget |-> FALSE]
    BY DEF Init
  <2> HIDE DEF a
  <2>3. QED BY <2>1, <2>2 DEF DelSet, DeleteStates
<1>5. /\ hist \in HistSet /\ hist.tries = 0 /\ ~hist.doubt
  BY DEF Init, HistSet
<1>6. /\ slot \in SlotSet /\ slot.dev = None /\ ~slot.busy /\ ~slot.scan
  BY <1>1, <1>2 DEF NoSlot, SlotSet
<1>7. /\ txn \in TxnSet /\ txn.pc = "idle" /\ txn.kind = "SYNC" /\ ~txn.begun /\ ~txn.ok
      /\ ~txn.late
  BY <1>1, <1>2 DEF TxnIdle, TxnSet, TxnPcs, WorkKinds
<1>8. held \in Requests /\ held.kind = "CANCEL" BY <1>1, <1>2 DEF NoRequest, Requests
<1>9. QueueFits(ctl) BY <1>2, QueueAssumption DEF QueueFits
<1>10. cache \in CacheSet BY DEF Init, CacheSet
<1>11. /\ auto \in AutoSet /\ sync \in SyncSet /\ connected \in Devices
       /\ autoDue \in BOOLEAN /\ polite \in BOOLEAN /\ plugged \in Devices
       /\ holds \in SUBSET Serials
  BY <1>1 DEF Init, AutoSet, SyncSet
<1>12. left \in LeftSet BY CallBounds DEF Init, LeftSet
<1>13. displayed \in Devices BY <1>3 DEF Init, UpSet
<1>14. TypeOK
  BY <1>2, <1>3, <1>4, <1>5, <1>6, <1>7, <1>8, <1>9, <1>10, <1>11, <1>12, <1>13, TypeByParts
<1>15. SlotHeld BY <1>6, <1>7 DEF SlotHeld
<1>16. TxnInOrder BY <1>7 DEF TxnInOrder, Recording
<1>17. WorkOwed
  <2>1. \A k : Spots(ctl, k) = {} BY <1>2 DEF Spots
  <2>2. \A k : Among(ctl, k) = 0 BY <2>1, FS_EmptySet DEF Among
  <2>3. \A k \in {"UPLOAD", "DELETE"} : Hand(held, k) = 0 /\ Work(txn, k) = 0
    BY <1>7, <1>8 DEF Hand, Work
  <2>4. QED BY <1>3, <1>4, <2>2, <2>3, OwedIs
<1>18. Consented BY <1>3, <1>4 DEF Consented
<1>19. AttemptKept /\ DoubtKept BY <1>5 DEF AttemptKept, DoubtKept
<1>20. DeleteAimed BY <1>2, <1>7, <1>8 DEF DeleteAimed
<1>21. QED BY <1>14, <1>15, <1>16, <1>17, <1>18, <1>19, <1>20 DEF WorkIInv

LEMMA NextWork == WorkIInv /\ [Next]_vars => WorkIInv'
<1> SUFFICES ASSUME WorkIInv, [Next]_vars PROVE WorkIInv'
  OBVIOUS
<1>1. CASE Bus BY <1>1, PlugKeeps, UnplugKeeps, ReenumerateKeeps, WindowKeeps DEF Bus
<1>2. CASE Client
  BY <1>2, CancelKeeps, RefuseKeeps, DeferKeeps, RequeueKeeps, DispatchKeeps DEF Client
<1>3. CASE Ports BY <1>3, CollectKeeps, CloseKeeps DEF Ports
<1>4. CASE Scan BY <1>4, OpenKeeps DEF Scan
<1>5. CASE Transaction
  BY <1>5, TxnRefuseKeeps, TxnStartKeeps, TxnIdentityKeeps, UploadSendKeeps,
     DeleteSendKeeps, UploadWriteKeeps, UploadReadbackKeeps, SyncDataKeeps, TxnCloseKeeps,
     TxnReportKeeps, DeleteMarksKeeps, DeleteForgetsKeeps
  DEF Transaction
<1>6. CASE AutoWrite BY <1>6, AutoApplyKeeps, AutoRequestKeeps DEF AutoWrite
<1>7. CASE Owner
  BY <1>7, WriteConsentKeeps, DeleteConsentKeeps, MapAutoKeeps, FileDeleteKeeps,
     MapStageKeeps, MapDiscardKeeps, MapApplyKeeps, SelectKeeps, SyncCallsKeep
  DEF Owner
<1>8. CASE UNCHANGED vars
  <2>1. UNCHANGED <<plugged, holds, slot, polite, latch, cancel, ctl, held, txn, up, del,
                    sync, connected, autoDue, auto, displayed, cache, left, hist>>
    BY <1>8 DEF vars, busVars, portVars, queueVars, rootVars, cardVars
  <2>2. TypeOK' BY <2>1, TypeFacts, TypeByParts
  <2>3. QED
    BY <2>1, <2>2, SlotWithin, TxnWithin, OwedWithin, ConsentWithin, AttemptWithin,
       DoubtWithin, AimedWithin
    DEF WorkIInv
<1>9. QED BY <1>1, <1>2, <1>3, <1>4, <1>5, <1>6, <1>7, <1>8 DEF Next

\* The invariant behind the results below: types, a device held in its slot for one
\* piece of work, transactions that reach a change only in order, and what the history
\* remembers of attempts, doubts and aims.
THEOREM WorkInvariance == Spec => []WorkIInv
<1>1. QED BY InitWork, NextWork, PTL DEF Spec

\* One automatic attempt per attachment (auto_apply_attempted), unless a session ran
\* between a polite close and the detach it announced, or the device took longer than
\* the polite window to come back (expect_polite_accessport_reenumeration).
THEOREM OneAttemptAlways == Spec => []OneAutomaticAttempt
<1>1. WorkIInv => OneAutomaticAttempt
  <2> SUFFICES ASSUME WorkIInv PROVE OneAutomaticAttempt
    OBVIOUS
  <2>1. hist.tries \in Nat BY TypeFacts DEF HistSet
  <2>2. QED BY <2>1 DEF WorkIInv, AttemptKept, OneAutomaticAttempt
<1>2. QED BY <1>1, WorkInvariance, PTL

\* No write begins under a cancel flag that a sync left up (sync_cancel_requested).
THEOREM LateCancelAlwaysHarmless == Spec => []LeftoverCancelHarmless
<1>1. WorkIInv => LeftoverCancelHarmless
  BY DEF WorkIInv, TxnInOrder, Recording, LeftoverCancelHarmless
<1>2. QED BY <1>1, WorkInvariance, PTL

\* No accepted write or delete is lost or doubled between the portal, the control
\* queue, the client task, the transaction task and the observers.
THEOREM WorkAlwaysOwed == Spec => []WorkOwed
<1>1. WorkIInv => WorkOwed BY DEF WorkIInv
<1>2. QED BY <1>1, WorkInvariance, PTL

(***************************************************************************)
(* What a step may never do                                                *)
(***************************************************************************)

\* The contents of an AccessPort change in two steps only.
LEMMA ChangingSteps ==
    ASSUME WorkIInv, [Next]_vars, holds' # holds
    PROVE  /\ txn.pc \in {"send", "write"} /\ slot.dev = txn.target
           /\ \A d \in Serials : (d \in holds') # (d \in holds) => d = slot.dev
           /\ \/ txn.kind = "UPLOAD" /\ up.consent
              \/ txn.kind = "DELETE" /\ del.consent
           /\ ~latch
<1>1. upload_write \/ delete_send
  <2>1. CASE Bus
    BY <2>1 DEF Bus, Plug, Unplug, Reenumerate, PoliteWindowPasses, busVars
  <2>2. CASE Client
    BY <2>2 DEF Client, accept_cancel, refuse_request, defer_request, requeue_request,
       dispatch_request, busVars
  <2>3. CASE Ports \/ Scan
    BY <2>3 DEF Ports, Scan, collect_scan_results, inspect_close, log_open_device, busVars
  <2>4. CASE Transaction
    BY <2>4 DEF Transaction, txn_refuse, txn_start, txn_identity, upload_send,
       upload_readback, sync_data, txn_close, txn_report, delete_marks, delete_forgets,
       busVars
  <2>5. CASE AutoWrite BY <2>5 DEF AutoWrite, auto_apply, auto_request, busVars
  <2>6. CASE Owner
    BY <2>6 DEF Owner, portal_write_consent, portal_delete_consent, portal_map_auto_apply,
       portal_settings, portal_file_delete, portal_map_stage, portal_map_discard,
       portal_map_apply, portal_select, portal_sync, portal_cancel, busVars
  <2>7. CASE UNCHANGED vars BY <2>7 DEF vars, busVars
  <2>8. QED BY <2>1, <2>2, <2>3, <2>4, <2>5, <2>6, <2>7 DEF Next
<1>2. CASE upload_write
  <2>1. txn.pc = "write" /\ txn.kind = "UPLOAD" BY <1>2, OrderFacts DEF upload_write
  <2>2. holds' = holds \union {slot.dev} BY <1>2 DEF upload_write
  <2>3. QED BY <2>1, <2>2, OrderFacts, ChangeOwed DEF Changes
<1>3. CASE delete_send
  <2>1. txn.pc = "send" /\ txn.kind = "DELETE" BY <1>3 DEF delete_send
  <2>2. holds' = holds \ {slot.dev} BY <1>3 DEF delete_send
  <2>3. QED BY <2>1, <2>2, OrderFacts, ChangeOwed DEF Changes
<1>4. QED BY <1>1, <1>2, <1>3

\* A device is changed only if it is the one the owner's request named and the consent
\* for the operation is still given.
THEOREM ChangesAlwaysAuthorised == Spec => ChangesAuthorised
<1> DEFINE A == \A d \in Serials : (d \in holds') # (d \in holds) =>
                  /\ d = txn.target
                  /\ IF txn.kind = "UPLOAD" THEN up.consent ELSE del.consent
<1>1. WorkIInv /\ [Next]_vars => [A]_vars
  <2> SUFFICES ASSUME WorkIInv, [Next]_vars, NEW d \in Serials,
                      (d \in holds') # (d \in holds)
               PROVE  /\ d = txn.target
                      /\ IF txn.kind = "UPLOAD" THEN up.consent ELSE del.consent
    OBVIOUS
  <2>1. holds' # holds OBVIOUS
  <2>2. QED BY <2>1, ChangingSteps
<1>2. QED BY <1>1, WorkInvariance, PTL DEF Spec, ChangesAuthorised

\* Nothing is changed on a device about which there is a doubt
\* (write_recovery_required), with the exception named at RecoveryHolds.
THEOREM RecoveryAlwaysHolds == Spec => RecoveryHolds
<1>1. WorkIInv /\ [Next]_vars => [holds' # holds => ~hist.doubt \/ hist.overrun]_vars
  <2> SUFFICES ASSUME WorkIInv, [Next]_vars, holds' # holds
               PROVE  ~hist.doubt \/ hist.overrun
    OBVIOUS
  <2>1. ~latch BY ChangingSteps
  <2>2. QED BY <2>1 DEF WorkIInv, DoubtKept
<1>2. QED BY <1>1, WorkInvariance, PTL DEF Spec, RecoveryHolds

\* The rows of the card change in four steps only.
LEMMA RecordingSteps ==
    ASSUME [Next]_vars, cache' # cache
    PROVE  upload_readback \/ sync_data \/ delete_marks \/ delete_forgets
<1>1. CASE Bus
  BY <1>1 DEF Bus, Plug, Unplug, Reenumerate, PoliteWindowPasses, cardVars
<1>2. CASE Client
  BY <1>2 DEF Client, accept_cancel, refuse_request, defer_request, requeue_request,
     dispatch_request, cardVars
<1>3. CASE Ports \/ Scan
  BY <1>3 DEF Ports, Scan, collect_scan_results, inspect_close, log_open_device, cardVars
<1>4. CASE Transaction
  BY <1>4 DEF Transaction, txn_refuse, txn_start, txn_identity, upload_send, delete_send,
     upload_write, txn_close, txn_report, cardVars
<1>5. CASE AutoWrite BY <1>5 DEF AutoWrite, auto_apply, auto_request, cardVars
<1>6. CASE Owner
  BY <1>6 DEF Owner, portal_write_consent, portal_delete_consent, portal_map_auto_apply,
     portal_settings, portal_file_delete, portal_map_stage, portal_map_discard,
     portal_map_apply, portal_select, portal_sync, portal_cancel, cardVars
<1>7. CASE UNCHANGED vars BY <1>7 DEF vars, cardVars
<1>8. QED BY <1>1, <1>2, <1>3, <1>4, <1>5, <1>6, <1>7 DEF Next

\* A cached copy is forgotten only once the AccessPort has lost its own, and a delete
\* leaves the rows of other datasets alone, unless one was put on display meanwhile.
THEOREM DeleteAlwaysRecorded == Spec => DeleteRecorded
<1> DEFINE A == \A d \in Serials : cache'[d] # cache[d] =>
                  /\ cache'[d] = "none" => txn.kind = "DELETE" /\ txn.target \notin holds
                  /\ txn.kind = "DELETE" => d = txn.target \/ hist.switched
<1>1. WorkIInv /\ [Next]_vars => [A]_vars
  <2> SUFFICES ASSUME WorkIInv, [Next]_vars, NEW d \in Serials, cache'[d] # cache[d]
               PROVE  /\ cache'[d] = "none" => txn.kind = "DELETE" /\ txn.target \notin holds
                      /\ txn.kind = "DELETE" => d = txn.target \/ hist.switched
    OBVIOUS
  <2>1. upload_readback \/ sync_data \/ delete_marks \/ delete_forgets
    <3>1. cache' # cache OBVIOUS
    <3>2. QED BY <3>1, RecordingSteps
  <2>2. CASE upload_readback
    <3>1. txn.kind = "UPLOAD" BY <2>2, OrderFacts DEF upload_readback
    <3>2. cache' = [cache EXCEPT ![slot.dev] = "present"] BY <2>2 DEF upload_readback
    <3>3. QED BY <3>1, <3>2, TypeFacts DEF CacheSet
  <2>3. CASE sync_data
    <3>1. txn.kind = "SYNC" BY <2>3, OrderFacts DEF sync_data
    <3>2. cache' = [cache EXCEPT ![slot.dev] =
                      IF slot.dev \in holds THEN "present"
                      ELSE IF cache[slot.dev] = "present" THEN "absent" ELSE cache[slot.dev]]
      BY <2>3 DEF sync_data
    <3>3. QED BY <3>1, <3>2, TypeFacts DEF CacheSet
  <2>4. CASE delete_marks \/ delete_forgets
    <3>1. Recording /\ txn.pc # "idle" BY <2>4 DEF delete_marks, delete_forgets, Recording
    <3>2. txn.kind = "DELETE" /\ txn.target \notin holds BY <3>1, OrderFacts
    <3>3. PICK row \in {"none", "absent"} : Recorded(row)
      BY <2>4 DEF delete_marks, delete_forgets
    <3>4. d = displayed BY <3>3, RowRecorded
    <3>5. txn.target = displayed \/ hist.switched BY <3>1, <3>2, AimedIs DEF WorkIInv
    <3>6. QED BY <3>2, <3>4, <3>5
  <2>5. QED BY <2>1, <2>2, <2>3, <2>4
<1>2. QED BY <1>1, WorkInvariance, PTL DEF Spec, DeleteRecorded
=============================================================================
