--------------------------- MODULE SoftPowerProofs ---------------------------
(***************************************************************************)
(* Proofs about SoftPower, for every debounce time, hold, window and       *)
(* time-out, any number of attempts and every bound.                       *)
(***************************************************************************)
EXTENDS SoftPower, TLAPS

\* The types of the variables, by name.
ButtonSet == [cand : BOOLEAN, candFor : 0..Debounce, stable : BOOLEAN,
              heldFor : 0..Hold, latched : BOOLEAN]
GroupSet == [count : 0..MaxPresses, window : 0..Window - 1]
RecoverySet == [state : RecoveryStates, elapsed : 0..Confirm - 1]
StorageSet == [state : StorageStates, card : BOOLEAN, power : BOOLEAN]
Kinds == {"absent", "blank", "fresh", "files"}
MediumSet == [kind : Kinds, mounted : BOOLEAN]
TaskPcs == {"start", "sample", "gate", "policy", "cancel", "wait", "disconnect", "stop", "tick",
            "format", "asleep"}
TaskSet == [pc : TaskPcs, n : Nat]
HistSet == [raw : 0..Debounce, down : BOOLEAN, solid : BOOLEAN, held : BOOLEAN,
            burst : 0..MaxPresses, quiet : 0..Window - 1, since : 0..Confirm,
            confirmed : BOOLEAN, skipped : BOOLEAN, passed : BOOLEAN, late : BOOLEAN]

\* A step that is no sample of the button.
SameGesture ==
    /\ hist'.raw = hist.raw /\ hist'.down = hist.down /\ hist'.solid = hist.solid
    /\ hist'.held = hist.held /\ hist'.burst = hist.burst /\ hist'.quiet = hist.quiet

LEMMA TypeByParts ==
    /\ TypeOK /\ HistTypeOK <=>
          /\ sync \in SyncSnapshot /\ policy \in BOOLEAN
          /\ button \in ButtonSet /\ group \in GroupSet /\ overlay \in BOOLEAN
          /\ gate \in BOOLEAN /\ closing \in BOOLEAN /\ recovery \in RecoverySet
          /\ storage \in StorageSet /\ medium \in MediumSet /\ task \in TaskSet
          /\ asked \subseteq Askers /\ (group.count = 0 <=> group.window = 0)
          /\ hist \in HistSet
    /\ TypeOK' /\ HistTypeOK' <=>
          /\ sync' \in SyncSnapshot /\ policy' \in BOOLEAN
          /\ button' \in ButtonSet /\ group' \in GroupSet /\ overlay' \in BOOLEAN
          /\ gate' \in BOOLEAN /\ closing' \in BOOLEAN /\ recovery' \in RecoverySet
          /\ storage' \in StorageSet /\ medium' \in MediumSet /\ task' \in TaskSet
          /\ asked' \subseteq Askers /\ (group'.count = 0 <=> group'.window = 0)
          /\ hist' \in HistSet
<1>1. /\ (group.count = 0) = (group.window = 0) <=> (group.count = 0 <=> group.window = 0)
      /\ (group'.count = 0) = (group'.window = 0) <=> (group'.count = 0 <=> group'.window = 0)
  OBVIOUS
<1>2. QED
  BY <1>1 DEF TypeOK, HistTypeOK, SyncTypeOK, ButtonSet, GroupSet, RecoverySet, StorageSet,
     MediumSet, Kinds, TaskSet, TaskPcs, HistSet

LEMMA TypeFacts ==
    ASSUME PowerIInv
    PROVE  /\ sync \in SyncSnapshot /\ policy \in BOOLEAN
           /\ button \in ButtonSet /\ group \in GroupSet /\ overlay \in BOOLEAN
           /\ gate \in BOOLEAN /\ closing \in BOOLEAN /\ recovery \in RecoverySet
           /\ storage \in StorageSet /\ medium \in MediumSet /\ task \in TaskSet
           /\ asked \subseteq Askers /\ (group.count = 0 <=> group.window = 0)
           /\ hist \in HistSet
  BY TypeByParts DEF PowerIInv

\* What the memory holds after a start.
LEMMA StartTypes ==
    /\ Released \in ButtonSet /\ NoGroup \in GroupSet /\ NoStorage \in StorageSet
    /\ Starting \in TaskSet /\ Sampling \in TaskSet /\ NoHistory \in HistSet
    /\ [state |-> "UNAVAILABLE", elapsed |-> 0] \in RecoverySet
    /\ NoGroup.count = 0 /\ NoGroup.window = 0 /\ ~NoStorage.card
    /\ Starting.pc = "start" /\ Sampling.pc = "sample"
<1>1. 0 \in 0..Debounce /\ 0 \in 0..Hold /\ 0 \in 0..Window - 1 /\ 0 \in 0..MaxPresses
      /\ 0 \in 0..Confirm - 1 /\ Confirm \in 0..Confirm
  BY PowerAssumption
<1>2. Released \in ButtonSet /\ NoGroup \in GroupSet BY <1>1 DEF Released, ButtonSet, NoGroup, GroupSet
<1>3. NoStorage \in StorageSet /\ [state |-> "UNAVAILABLE", elapsed |-> 0] \in RecoverySet
  BY <1>1 DEF NoStorage, StorageSet, StorageStates, RecoverySet, RecoveryStates
<1>4. Starting \in TaskSet /\ Sampling \in TaskSet /\ NoHistory \in HistSet
  BY <1>1 DEF Starting, Sampling, TaskSet, TaskPcs, NoHistory, HistSet
<1>5. QED BY <1>2, <1>3, <1>4 DEF NoGroup, NoStorage, Starting, Sampling

\* A start of the Sidecar, the first or a later one.
LEMMA FreshHolds ==
    ASSUME sync \in SyncSnapshot, policy \in BOOLEAN, button = Released, group = NoGroup,
           overlay = FALSE, recovery = [state |-> "UNAVAILABLE", elapsed |-> 0],
           storage = NoStorage, medium \in MediumSet, ~medium.mounted, task = Starting,
           gate = FALSE, asked = {}, closing = FALSE, hist = NoHistory
    PROVE  PowerIInv
<1>1. TypeOK /\ HistTypeOK BY StartTypes, TypeByParts
<1>2. ButtonSeen BY DEF ButtonSeen, Released, NoHistory, NoGroup
<1>3. RequestSeen BY DEF RequestSeen, Starting
<1>4. GateHolds /\ CardHeld /\ FormatConfirmed
  BY DEF GateHolds, CardHeld, FormatConfirmed, Starting
<1>5. QED BY <1>1, <1>2, <1>3, <1>4 DEF PowerIInv

LEMMA PowerInit == Init => PowerIInv
<1> SUFFICES ASSUME Init PROVE PowerIInv OBVIOUS
<1>1. sync \in SyncSnapshot /\ policy \in BOOLEAN
  BY DEF Init, SyncInit, SyncSnapshot, SyncStates
<1>2. medium \in MediumSet /\ ~medium.mounted BY DEF Init, MediumSet, Kinds
<1>3. QED BY <1>1, <1>2, FreshHolds DEF Init

LEMMA RestartKeeps ==
    ASSUME PowerIInv, NEW kind \in Kinds, Restart(kind)
    PROVE  PowerIInv'
<1>1. /\ button' = Released /\ group' = NoGroup /\ overlay' = FALSE
      /\ recovery' = [state |-> "UNAVAILABLE", elapsed |-> 0]
      /\ storage' = NoStorage /\ task' = Starting /\ gate' = FALSE /\ asked' = {}
      /\ closing' = FALSE /\ hist' = NoHistory /\ policy' = policy
      /\ medium' = [kind |-> kind, mounted |-> FALSE]
      /\ sync' = [state |-> "IDLE", recovery |-> FALSE]
  BY DEF Restart
<1>2. sync' \in SyncSnapshot /\ policy' \in BOOLEAN
  BY <1>1, TypeFacts DEF SyncSnapshot, SyncStates
<1>3. medium' \in MediumSet /\ ~medium'.mounted BY <1>1 DEF MediumSet
<1>4. TypeOK' /\ HistTypeOK' BY <1>1, <1>2, <1>3, StartTypes, TypeByParts
<1>5. ButtonSeen' BY <1>1 DEF ButtonSeen, Released, NoHistory, NoGroup
<1>6. RequestSeen' BY <1>1 DEF RequestSeen, Starting
<1>7. GateHolds' /\ CardHeld' /\ FormatConfirmed'
  BY <1>1, <1>3 DEF GateHolds, CardHeld, FormatConfirmed, Starting
<1>8. QED BY <1>4, <1>5, <1>6, <1>7 DEF PowerIInv

(***************************************************************************)
(* The card                                                                *)
(***************************************************************************)

\* A card that can be used was not mounted before, and only a card without a filesystem
\* can have become a fresh one.
LEMMA FoundFacts ==
    ASSUME medium \in MediumSet, NEW format \in BOOLEAN,
           NEW found \in Mounts(format) \intersect Usable
    PROVE  /\ found \in Kinds /\ ~medium.mounted
           /\ found = "fresh" => medium.kind \in {"blank", "fresh"}
<1>1. found \in Mounts(format) /\ found \in {"fresh", "files"} BY DEF Usable
<1>2. CASE medium.mounted
  BY <1>1, <1>2 DEF Mounts
<1>3. CASE ~medium.mounted /\ medium.kind = "absent"
  BY <1>1, <1>3 DEF Mounts
<1>4. CASE ~medium.mounted /\ medium.kind = "blank"
  BY <1>1, <1>4 DEF Mounts, Kinds
<1>5. CASE ~medium.mounted /\ medium.kind \in {"fresh", "files"}
  <2>1. Mounts(format) = {medium.kind, "silent"} BY <1>5 DEF Mounts
  <2>2. QED BY <1>1, <1>5, <2>1 DEF Kinds
<1>6. QED BY <1>2, <1>3, <1>4, <1>5 DEF MediumSet, Kinds

LEMMA ClassifiedType ==
    ASSUME NEW found
    PROVE  Classified(found) \subseteq StorageStates
  BY DEF Classified, StorageStates

(***************************************************************************)
(* Parts of the invariant that a step leaves alone                         *)
(***************************************************************************)

LEMMA RequestKeeps ==
    ASSUME PowerIInv, task.pc # "format", task'.pc # "format",
           \/ /\ UNCHANGED recovery /\ hist'.since = hist.since
              /\ task.pc = "sample" <=> task'.pc = "sample"
           \/ recovery'.state \in {"AWAITING_REQUEST", "UNAVAILABLE"}
    PROVE  RequestSeen' /\ FormatConfirmed'
<1>1. FormatConfirmed' BY DEF FormatConfirmed
<1>2. CASE /\ UNCHANGED recovery /\ hist'.since = hist.since
           /\ task.pc = "sample" <=> task'.pc = "sample"
  BY <1>1, <1>2 DEF PowerIInv, RequestSeen
<1>3. CASE recovery'.state \in {"AWAITING_REQUEST", "UNAVAILABLE"}
  <2>1. recovery'.state # "AWAITING_CONFIRMATION" /\ recovery'.state # "FORMATTING" BY <1>3
  <2>2. QED BY <1>1, <2>1 DEF RequestSeen
<1>4. QED BY <1>2, <1>3

\* What a start of the card leaves.
OutcomeFits(o) ==
    /\ o.s \in StorageSet /\ o.m \in MediumSet
    /\ o.m.kind = "fresh" => medium.kind \in {"blank", "fresh"}
    /\ o.m.mounted /\ ~o.s.card => hist.skipped \/ Skipped(o)

LEMMA OutcomeFacts ==
    ASSUME storage \in StorageSet, medium \in MediumSet, hist \in HistSet, CardHeld,
           NEW format \in BOOLEAN, NEW o \in StartOutcomes(format)
    PROVE  OutcomeFits(o)
<1>1. CASE o = [s |-> [storage EXCEPT !.state = "UNKNOWN"], m |-> medium]
  <2>1. o.m = medium /\ o.s \in StorageSet /\ o.s.card = storage.card
    BY <1>1 DEF StorageSet, StorageStates
  <2>2. QED BY <2>1 DEF OutcomeFits, CardHeld, MediumSet, Kinds
<1>2. CASE \E state \in UNION {Classified(found) : found \in Mounts(format) \ Usable} :
              o = [s |-> [NoStorage EXCEPT !.state = state], m |-> medium]
  <2>1. PICK state \in UNION {Classified(found) : found \in Mounts(format) \ Usable} :
              o = [s |-> [NoStorage EXCEPT !.state = state], m |-> medium]
    BY <1>2
  <2>2. state \in {"UNREADABLE", "MISSING", "ERROR"} BY DEF Classified
  <2>3. o.m = medium /\ o.s \in StorageSet /\ o.s.state = state
    BY <2>1, <2>2 DEF NoStorage, StorageSet, StorageStates
  <2>4. QED BY <2>2, <2>3 DEF OutcomeFits, Skipped
<1>3. CASE \E found \in Mounts(format) \intersect Usable, cleaned \in {"all", "unmounted", "power"} :
              o = [s |-> [state |-> "ERROR", card |-> FALSE, power |-> cleaned # "all"],
                   m |-> [kind |-> found, mounted |-> cleaned = "power"]]
  <2>1. PICK found \in Mounts(format) \intersect Usable, cleaned \in {"all", "unmounted", "power"} :
              o = [s |-> [state |-> "ERROR", card |-> FALSE, power |-> cleaned # "all"],
                   m |-> [kind |-> found, mounted |-> cleaned = "power"]]
    BY <1>3
  <2>2. found \in Kinds /\ (found = "fresh" => medium.kind \in {"blank", "fresh"})
    BY FoundFacts
  <2>3. /\ o.s \in StorageSet /\ o.m \in MediumSet /\ o.m.kind = found
        /\ o.s.state = "ERROR"
    BY <2>1, <2>2 DEF StorageSet, StorageStates, MediumSet
  <2>4. QED BY <2>2, <2>3 DEF OutcomeFits, Skipped
<1>4. CASE \E found \in Mounts(format) \intersect Usable :
              o = [s |-> [state |-> "MOUNTED", card |-> TRUE, power |-> TRUE],
                   m |-> [kind |-> found, mounted |-> TRUE]]
  <2>1. PICK found \in Mounts(format) \intersect Usable :
              o = [s |-> [state |-> "MOUNTED", card |-> TRUE, power |-> TRUE],
                   m |-> [kind |-> found, mounted |-> TRUE]]
    BY <1>4
  <2>2. found \in Kinds /\ (found = "fresh" => medium.kind \in {"blank", "fresh"})
    BY FoundFacts
  <2>3. o.s \in StorageSet /\ o.m \in MediumSet /\ o.m.kind = found /\ o.s.card
    BY <2>1, <2>2 DEF StorageSet, StorageStates, MediumSet
  <2>4. QED BY <2>2, <2>3 DEF OutcomeFits
<1>5. QED BY <1>1, <1>2, <1>3, <1>4 DEF StartOutcomes

\* The history of a step that may leave a card mounted.
LEMMA HistStep ==
    ASSUME hist \in HistSet, NEW since \in 0..Confirm, NEW skipped \in BOOLEAN,
           hist' = [hist EXCEPT !.since = since, !.skipped = skipped]
    PROVE  /\ hist' \in HistSet /\ hist'.since = since /\ hist'.skipped = skipped
           /\ SameGesture /\ hist'.passed = hist.passed /\ hist'.late = hist.late
  BY DEF HistSet, SameGesture

LEMMA RecoveryBegins ==
    ASSUME NEW s
    PROVE  /\ recovery_init(s) \in RecoverySet
           /\ recovery_init(s).state \in {"AWAITING_REQUEST", "UNAVAILABLE"}
<1>1. 0 \in 0..Confirm - 1 BY PowerAssumption
<1>2. QED BY <1>1 DEF recovery_init, RecoverySet, RecoveryStates

LEMMA StartStorageKeeps ==
    ASSUME PowerIInv, start_storage
    PROVE  PowerIInv'
<1>1. /\ task.pc = "start" /\ UNCHANGED <<button, group, overlay, gate, sync, policy, asked, closing>>
  BY DEF start_storage, syncs
<1>2. PICK o \in StartOutcomes(FALSE) :
        /\ storage' = o.s /\ medium' = o.m
        /\ \/ task' = [task EXCEPT !.n = task.n + 1] /\ UNCHANGED recovery
           \/ task' = Sampling /\ recovery' = recovery_init(o.s)
        /\ hist' = [hist EXCEPT !.skipped = hist.skipped \/ Skipped(o)]
  BY DEF start_storage
<1>3. OutcomeFits(o) BY TypeFacts, OutcomeFacts DEF PowerIInv
<1>4. /\ hist' \in HistSet /\ hist'.skipped = (hist.skipped \/ Skipped(o))
      /\ SameGesture /\ hist'.since = hist.since /\ hist'.passed = hist.passed
      /\ hist'.late = hist.late
  <2>1. (hist.skipped \/ Skipped(o)) \in BOOLEAN OBVIOUS
  <2>2. QED BY <1>2, <2>1, TypeFacts DEF HistSet, SameGesture
<1>5. /\ task' \in TaskSet /\ task'.pc \in {"start", "sample"} /\ recovery' \in RecoverySet
      /\ \/ task'.pc = "start" /\ recovery' = recovery
         \/ recovery'.state \in {"AWAITING_REQUEST", "UNAVAILABLE"}
  <2>1. CASE task' = [task EXCEPT !.n = task.n + 1] /\ UNCHANGED recovery
    BY <1>1, <2>1, TypeFacts DEF TaskSet
  <2>2. CASE task' = Sampling /\ recovery' = recovery_init(o.s)
    BY <2>2, StartTypes, RecoveryBegins
  <2>3. QED BY <1>2, <2>1, <2>2
<1>7. TypeOK' /\ HistTypeOK'
  BY <1>1, <1>2, <1>3, <1>4, <1>5, TypeFacts, TypeByParts DEF OutcomeFits
<1>8. ButtonSeen' BY <1>1, <1>4 DEF PowerIInv, ButtonSeen, SameGesture
<1>9. RequestSeen' /\ FormatConfirmed'
  BY <1>1, <1>4, <1>5, RequestKeeps
<1>10. GateHolds' BY <1>1, <1>4, <1>5 DEF PowerIInv, GateHolds
<1>11. CardHeld' BY <1>2, <1>3, <1>4, <1>5 DEF OutcomeFits, CardHeld
<1>12. QED BY <1>7, <1>8, <1>9, <1>10, <1>11 DEF PowerIInv

LEMMA FormatKeeps ==
    ASSUME PowerIInv, format_unreadable
    PROVE  PowerIInv'
<1> DEFINE outcomes == IF storage = [NoStorage EXCEPT !.state = "UNREADABLE"]
                       THEN StartOutcomes(TRUE) ELSE {[s |-> storage, m |-> medium]}
<1>1. task.pc = "format" BY DEF format_unreadable
<1>2. PICK o \in outcomes :
        \/ o.s.state = "MOUNTED" /\ Restart(o.m.kind)
        \/ /\ storage' = o.s /\ medium' = o.m
           /\ recovery' = recovery_init(o.s)
           /\ task' = [Sampling EXCEPT !.pc = "tick"]
           /\ hist' = [hist EXCEPT !.since = Confirm, !.skipped = hist.skipped \/ Skipped(o)]
           /\ UNCHANGED <<button, group, overlay, gate, sync, policy, asked, closing>>
  BY DEF format_unreadable, syncs
<1>3. OutcomeFits(o)
  <2>1. CASE o \in StartOutcomes(TRUE) BY <2>1, TypeFacts, OutcomeFacts DEF PowerIInv
  <2>2. CASE o = [s |-> storage, m |-> medium]
    <3>1. o.s = storage /\ o.m = medium BY <2>2
    <3>2. QED BY <3>1, TypeFacts DEF OutcomeFits, PowerIInv, CardHeld, MediumSet, Kinds
  <2>3. QED BY <1>2, <2>1, <2>2
<1> HIDE DEF outcomes
<1>4. CASE o.s.state = "MOUNTED" /\ Restart(o.m.kind)
  <2>1. o.m.kind \in Kinds BY <1>3 DEF OutcomeFits, MediumSet
  <2>2. QED BY <1>4, <2>1, RestartKeeps
<1>5. CASE /\ storage' = o.s /\ medium' = o.m
           /\ recovery' = recovery_init(o.s)
           /\ task' = [Sampling EXCEPT !.pc = "tick"]
           /\ hist' = [hist EXCEPT !.since = Confirm, !.skipped = hist.skipped \/ Skipped(o)]
           /\ UNCHANGED <<button, group, overlay, gate, sync, policy, asked, closing>>
  <2>1. /\ hist' \in HistSet /\ hist'.skipped = (hist.skipped \/ Skipped(o))
        /\ SameGesture /\ hist'.passed = hist.passed /\ hist'.late = hist.late
    <3> DEFINE skipped == hist.skipped \/ Skipped(o)
    <3>1. skipped \in BOOLEAN OBVIOUS
    <3>2. hist' = [hist EXCEPT !.since = Confirm, !.skipped = skipped] BY <1>5
    <3>3. Confirm \in 0..Confirm BY PowerAssumption
    <3> HIDE DEF skipped
    <3>4. /\ hist' \in HistSet /\ hist'.skipped = skipped /\ SameGesture
          /\ hist'.passed = hist.passed /\ hist'.late = hist.late
      BY <3>1, <3>2, <3>3, TypeFacts, HistStep
    <3>5. QED BY <3>4 DEF skipped
  <2>2. task' \in TaskSet /\ task'.pc = "tick"
    BY <1>5, StartTypes DEF TaskSet, TaskPcs
  <2>3. recovery' \in RecoverySet /\ recovery'.state \in {"AWAITING_REQUEST", "UNAVAILABLE"}
    BY <1>5, RecoveryBegins
  <2>4. TypeOK' /\ HistTypeOK'
    BY <1>3, <1>5, <2>1, <2>2, <2>3, TypeFacts, TypeByParts DEF OutcomeFits
  <2>5. ButtonSeen' BY <1>5, <2>1 DEF PowerIInv, ButtonSeen, SameGesture
  <2>6. RequestSeen' /\ FormatConfirmed'
    <3>1. recovery'.state # "AWAITING_CONFIRMATION" /\ recovery'.state # "FORMATTING"
      BY <2>3
    <3>2. QED BY <2>2, <3>1 DEF RequestSeen, FormatConfirmed
  <2>7. GateHolds' BY <1>1, <1>5, <2>1, <2>2 DEF PowerIInv, GateHolds
  <2>8. CardHeld' BY <1>3, <1>5, <2>1, <2>2 DEF OutcomeFits, CardHeld
  <2>9. QED BY <2>4, <2>5, <2>6, <2>7, <2>8 DEF PowerIInv
<1>6. QED BY <1>2, <1>4, <1>5

\* The owner changes a card that is out of use.
LEMMA SwapKeeps ==
    ASSUME PowerIInv, NEW kind \in {"absent", "blank", "files"}, SwapCard(kind)
    PROVE  PowerIInv'
<1>1. /\ UNCHANGED <<button, group, overlay, recovery, storage, task, gate, sync, policy,
                    asked, closing, hist>>
      /\ medium' = [kind |-> kind, mounted |-> FALSE]
  BY DEF SwapCard, power, syncs
<1>2. medium' \in MediumSet /\ ~medium'.mounted BY <1>1 DEF MediumSet, Kinds
<1>3. TypeOK' /\ HistTypeOK' BY <1>1, <1>2, TypeFacts, TypeByParts
<1>4. ButtonSeen' /\ RequestSeen' /\ GateHolds' /\ FormatConfirmed'
  BY <1>1 DEF PowerIInv, ButtonSeen, RequestSeen, GateHolds, FormatConfirmed
<1>5. QED BY <1>2, <1>3, <1>4 DEF PowerIInv, CardHeld

(***************************************************************************)
(* The button                                                              *)
(***************************************************************************)

LEMMA MoreType == ASSUME NEW cap \in Nat, NEW v \in 0..cap PROVE More(v, cap) \in 0..cap
  BY DEF More

\* The level a line has had for so long, and the level that lasted the debounce time:
\* what button_update and the history both compute.
Lasts(cand, candFor, raw) == IF raw # cand THEN 1 ELSE More(candFor, Debounce)
Steady(stable, n, raw) == IF raw # stable /\ n >= Debounce THEN raw ELSE stable
Lifts(stable, n, raw) == stable /\ ~raw /\ n >= Debounce

\* revlink_power_button_update: a press is reported when the line comes up after it was
\* down for the debounce time.
LEMMA ButtonUpdate ==
    ASSUME NEW b \in ButtonSet, NEW raw \in BOOLEAN
    PROVE  LET up == button_update(b, raw)
               n == Lasts(b.cand, b.candFor, raw)
           IN  /\ up.b \in ButtonSet /\ up.b.cand = raw /\ up.b.candFor = n
               /\ up.b.stable = Steady(b.stable, n, raw) /\ n \in 0..Debounce
               /\ up.action \in {"NONE", "SHORT", "SHUTDOWN"}
               /\ up.action = "SHORT" <=> Lifts(b.stable, n, raw) /\ ~b.latched
               /\ up.action = "SHUTDOWN" => ~Lifts(b.stable, n, raw)
               /\ up.b.latched <=> ~Lifts(b.stable, n, raw)
                                  /\ (b.latched \/ up.action = "SHUTDOWN")
<1> DEFINE n == Lasts(b.cand, b.candFor, raw)
           flips == raw # b.stable /\ n >= Debounce
           stable == IF flips THEN raw ELSE b.stable
           heldFor == IF flips THEN 0 ELSE IF stable THEN More(b.heldFor, Hold) ELSE b.heldFor
           long == stable /\ ~b.latched /\ heldFor >= Hold
           lifted == flips /\ ~raw
           up == button_update(b, raw)
<1>1. up = [b |-> [cand |-> raw, candFor |-> n, stable |-> stable, heldFor |-> heldFor,
                   latched |-> IF lifted THEN FALSE ELSE b.latched \/ long],
            action |-> IF long THEN "SHUTDOWN" ELSE IF lifted /\ ~b.latched THEN "SHORT"
                       ELSE "NONE"]
  BY DEF button_update, Lasts
<1>2. b.candFor \in 0..Debounce /\ b.heldFor \in 0..Hold /\ b.stable \in BOOLEAN
      /\ b.latched \in BOOLEAN /\ b.cand \in BOOLEAN
  BY DEF ButtonSet
<1>3. n \in 0..Debounce BY <1>2, MoreType, PowerAssumption DEF Lasts
<1>4. stable \in BOOLEAN /\ stable = Steady(b.stable, n, raw) BY <1>2 DEF Steady
<1>5. heldFor \in 0..Hold BY <1>2, MoreType, PowerAssumption
<1>6. (lifted <=> Lifts(b.stable, n, raw)) /\ ~(lifted /\ long) BY <1>2 DEF Lifts
<1>7. (IF lifted THEN FALSE ELSE b.latched \/ long) \in BOOLEAN OBVIOUS
<1> HIDE DEF n, flips, stable, heldFor, long, lifted, up
<1>8. /\ up.b \in ButtonSet /\ up.b.cand = raw /\ up.b.candFor = n /\ up.b.stable = stable
      /\ up.b.latched <=> ~lifted /\ (b.latched \/ long)
  BY <1>1, <1>3, <1>4, <1>5, <1>7 DEF ButtonSet
<1>9. /\ up.action \in {"NONE", "SHORT", "SHUTDOWN"}
      /\ up.action = "SHORT" <=> ~long /\ lifted /\ ~b.latched
      /\ up.action = "SHUTDOWN" <=> long
  BY <1>1
<1>10. QED BY <1>3, <1>4, <1>6, <1>8, <1>9 DEF n, up

\* The group a sample leaves, and whether it is over.
LEMMA GroupFacts ==
    ASSUME PowerIInv, NEW action \in {"NONE", "SHORT", "SHUTDOWN"}
    PROVE  LET g == Aged(Counted(action))
               rest == IF Closed(g) THEN NoGroup ELSE g
           IN  /\ rest \in GroupSet /\ (rest.count = 0 <=> rest.window = 0)
               /\ g.count \in Nat /\ (g.count = 0 => g.window = 0)
               /\ action = "SHUTDOWN" => g.count = 0
<1> DEFINE c == Counted(action)
           g == Aged(c)
           rest == IF Closed(g) THEN NoGroup ELSE g
<1>1. /\ group.count \in 0..MaxPresses /\ group.window \in 0..Window - 1
      /\ group.count = 0 <=> group.window = 0
  BY TypeFacts DEF GroupSet
<1>2. /\ c \in [count : 0..MaxPresses, window : 0..Window - 1]
      /\ c.count = 0 => c.window = 0
      /\ action = "SHUTDOWN" => c.count = 0
  <2>1. CASE action = "SHUTDOWN" \/ (action = "SHORT" /\ overlay)
    <3>1. c = NoGroup BY <2>1 DEF Counted
    <3>2. QED BY <2>1, <3>1, StartTypes DEF GroupSet
  <2>2. CASE action = "SHORT" /\ ~overlay
    <3>1. c = [count |-> More(group.count, MaxPresses), window |-> 0] BY <2>2 DEF Counted
    <3>2. More(group.count, MaxPresses) \in 0..MaxPresses BY <1>1, MoreType, PowerAssumption
    <3>3. 0 \in 0..Window - 1 BY PowerAssumption
    <3>4. QED BY <2>2, <3>1, <3>2, <3>3
  <2>3. CASE action = "NONE"
    <3>1. c = group BY <2>3 DEF Counted
    <3>2. QED BY <1>1, <2>3, <3>1, TypeFacts DEF GroupSet
  <2>4. QED BY <2>1, <2>2, <2>3
<1>3. /\ g.count = c.count /\ g.count \in 0..MaxPresses
      /\ g.count = 0 => g.window = 0
      /\ g.count > 0 => g.window \in 1..Window
      /\ g = [count |-> g.count, window |-> g.window]
  BY <1>2, PowerAssumption DEF Aged
<1>4. rest \in GroupSet /\ (rest.count = 0 <=> rest.window = 0)
  <2>1. CASE Closed(g) BY <2>1, StartTypes
  <2>2. CASE ~Closed(g)
    <3>1. g.window \in 0..Window - 1 BY <1>3, <2>2, PowerAssumption DEF Closed
    <3>2. rest = g BY <2>2
    <3>3. g.count > 0 => g.window # 0 BY <1>3
    <3>4. g.count = 0 <=> g.window = 0 BY <1>3, <3>3
    <3>5. g \in GroupSet BY <1>3, <3>1 DEF GroupSet
    <3>6. QED BY <3>2, <3>4, <3>5
  <2>3. QED BY <2>1, <2>2
<1>5. g.count \in Nat BY <1>3, PowerAssumption
<1>6. QED BY <1>2, <1>3, <1>4, <1>5

\* What the history makes of the same sample: the row of presses is the group.
LEMMA SeenFacts ==
    ASSUME PowerIInv, NEW raw \in BOOLEAN,
           hist' = Seen(raw, button_update(button, raw).action)
    PROVE  LET up == button_update(button, raw)
               n == Lasts(button.cand, button.candFor, raw)
               g == Aged(Counted(up.action))
               rest == IF Closed(g) THEN NoGroup ELSE g
               double == Closed(g) /\ g.count = 2
               since == More(hist.since, Confirm)
           IN  /\ hist' \in HistSet /\ hist'.raw = n /\ hist'.down = raw
               /\ hist'.solid = Steady(button.stable, n, raw)
               /\ hist'.held = up.b.latched
               /\ hist'.burst = rest.count /\ hist'.quiet = rest.window
               /\ hist'.since = IF recovery.state = "UNAVAILABLE" THEN Confirm
                                ELSE IF double THEN 0 ELSE since
               /\ hist'.confirmed <=> double /\ since < Confirm
               /\ hist'.skipped = hist.skipped /\ hist'.passed = hist.passed
               /\ hist'.late = hist.late
<1> DEFINE up == button_update(button, raw)
           n == IF raw = hist.down THEN More(hist.raw, Debounce) ELSE 1
           over == n >= Debounce /\ ~raw /\ hist.solid
           held == hist.held \/ up.action = "SHUTDOWN"
           burst == IF up.action = "SHUTDOWN" \/ (over /\ ~held /\ overlay) THEN 0
                    ELSE IF over /\ ~held THEN More(hist.burst, MaxPresses) ELSE hist.burst
           quiet == IF burst = 0 THEN 0 ELSE IF over /\ ~held THEN 1 ELSE hist.quiet + 1
           since == More(hist.since, Confirm)
           pair == burst = 2 /\ quiet >= Window
           g == Aged(Counted(up.action))
           rest == IF Closed(g) THEN NoGroup ELSE g
           double == Closed(g) /\ g.count = 2
           solid2 == IF n < Debounce THEN hist.solid ELSE raw
           held2 == held /\ ~over
           burst2 == IF quiet >= Window THEN 0 ELSE burst
           quiet2 == IF quiet >= Window THEN 0 ELSE quiet
           since2 == IF recovery.state = "UNAVAILABLE" THEN Confirm
                     ELSE IF pair THEN 0 ELSE since
           confirmed2 == pair /\ since < Confirm
<1>1. /\ hist.raw = button.candFor /\ hist.down = button.cand /\ hist.solid = button.stable
      /\ hist.held = button.latched /\ hist.burst = group.count /\ hist.quiet = group.window
  BY DEF PowerIInv, ButtonSeen
<1>2. n = Lasts(button.cand, button.candFor, raw)
  BY <1>1 DEF Lasts
<1>3. hist' = [hist EXCEPT !.down = raw, !.raw = n, !.solid = solid2, !.held = held2,
                           !.burst = burst2, !.quiet = quiet2, !.since = since2,
                           !.confirmed = confirmed2]
  BY DEF Seen
<1>4. /\ n \in 0..Debounce /\ up.action \in {"NONE", "SHORT", "SHUTDOWN"}
      /\ up.action = "SHORT" <=> Lifts(button.stable, n, raw) /\ ~button.latched
      /\ up.action = "SHUTDOWN" => ~Lifts(button.stable, n, raw)
      /\ up.b.latched <=> ~Lifts(button.stable, n, raw)
                         /\ (button.latched \/ up.action = "SHUTDOWN")
      /\ up.b.latched \in BOOLEAN
  BY <1>2, TypeFacts, ButtonUpdate DEF ButtonSet
<1>5. /\ hist.solid \in BOOLEAN /\ hist.held \in BOOLEAN /\ hist.since \in 0..Confirm
      /\ group.count \in 0..MaxPresses /\ group.window \in 0..Window - 1
      /\ group.count = 0 <=> group.window = 0
  BY TypeFacts DEF HistSet, GroupSet
<1>6. solid2 = Steady(button.stable, n, raw) /\ solid2 \in BOOLEAN
  BY <1>1, <1>4, <1>5, PowerAssumption DEF Steady
<1>7. over <=> Lifts(button.stable, n, raw) BY <1>1 DEF Lifts
<1>8. (over /\ ~held) <=> up.action = "SHORT" BY <1>1, <1>4, <1>7
<1>9. held2 \in BOOLEAN /\ held2 = up.b.latched BY <1>1, <1>4, <1>7
<1>10. since \in 0..Confirm BY <1>5, MoreType, PowerAssumption
<1>11. burst = g.count /\ quiet = g.window
  <2>1. CASE up.action = "SHUTDOWN" \/ (up.action = "SHORT" /\ overlay)
    <3>1. Counted(up.action) = NoGroup BY <2>1 DEF Counted
    <3>2. burst = 0 /\ quiet = 0 BY <1>8, <2>1
    <3>3. QED BY <3>1, <3>2 DEF Aged, NoGroup
  <2>2. CASE up.action = "SHORT" /\ ~overlay
    <3> DEFINE m == More(group.count, MaxPresses)
    <3>1. Counted(up.action) = [count |-> m, window |-> 0] BY <2>2 DEF Counted
    <3>2. m \in Nat /\ m > 0 BY <1>5, PowerAssumption DEF More
    <3>3. burst = m BY <1>1, <1>8, <2>2
    <3>4. quiet = 1 BY <1>8, <2>2, <3>2, <3>3
    <3> HIDE DEF m
    <3>5. QED BY <3>1, <3>2, <3>3, <3>4 DEF Aged
  <2>3. CASE up.action = "NONE"
    <3>1. Counted(up.action) = group BY <2>3 DEF Counted
    <3>2. burst = group.count BY <1>1, <1>8, <2>3
    <3>3. quiet = IF group.count = 0 THEN 0 ELSE group.window + 1 BY <1>1, <1>8, <2>3, <3>2
    <3>4. group \in GroupSet BY TypeFacts
    <3> HIDE DEF burst, quiet
    <3>5. QED BY <1>5, <3>1, <3>2, <3>3, <3>4, PowerAssumption DEF Aged, GroupSet
  <2>4. QED BY <1>4, <2>1, <2>2, <2>3
<1> HIDE DEF burst, quiet, up, n, over, held
<1>12. /\ rest \in GroupSet /\ g.count \in Nat /\ (g.count = 0 => g.window = 0)
  BY <1>4, GroupFacts
<1>13. quiet >= Window <=> Closed(g)
  BY <1>11, <1>12, PowerAssumption DEF Closed
<1>14. /\ burst2 = rest.count /\ quiet2 = rest.window
       /\ pair <=> double
  BY <1>11, <1>13, StartTypes
<1>15. burst2 \in 0..MaxPresses /\ quiet2 \in 0..Window - 1
  BY <1>12, <1>14 DEF GroupSet
<1>16. /\ since2 \in 0..Confirm
       /\ since2 = IF recovery.state = "UNAVAILABLE" THEN Confirm
                   ELSE IF double THEN 0 ELSE since
  BY <1>10, <1>14, PowerAssumption
<1>17. confirmed2 \in BOOLEAN /\ (confirmed2 <=> double /\ since < Confirm)
  BY <1>14
<1> HIDE DEF solid2, held2, burst2, quiet2, since2, confirmed2, pair, double, since, g, rest
<1>18. /\ hist' \in HistSet /\ hist'.raw = n /\ hist'.down = raw /\ hist'.solid = solid2
       /\ hist'.held = held2 /\ hist'.burst = burst2 /\ hist'.quiet = quiet2
       /\ hist'.since = since2 /\ hist'.confirmed = confirmed2
       /\ hist'.skipped = hist.skipped /\ hist'.passed = hist.passed
       /\ hist'.late = hist.late
  <2>1. /\ n \in 0..Debounce /\ solid2 \in BOOLEAN /\ held2 \in BOOLEAN
        /\ burst2 \in 0..MaxPresses /\ quiet2 \in 0..Window - 1 /\ since2 \in 0..Confirm
        /\ confirmed2 \in BOOLEAN /\ hist \in HistSet
    BY <1>4, <1>6, <1>9, <1>15, <1>16, <1>17, TypeFacts
  <2> DEFINE R == 0..Debounce
             M == 0..MaxPresses
             W == 0..Window - 1
             C == 0..Confirm
  <2>2. /\ n \in R /\ burst2 \in M /\ quiet2 \in W /\ since2 \in C
        /\ HistSet = [raw : R, down : BOOLEAN, solid : BOOLEAN, held : BOOLEAN, burst : M,
                      quiet : W, since : C, confirmed : BOOLEAN, skipped : BOOLEAN,
                      passed : BOOLEAN, late : BOOLEAN]
    BY <2>1 DEF HistSet
  <2> HIDE DEF R, M, W, C
  <2>3. hist' = [raw |-> n, down |-> raw, solid |-> solid2, held |-> held2, burst |-> burst2,
                 quiet |-> quiet2, since |-> since2, confirmed |-> confirmed2,
                 skipped |-> hist.skipped, passed |-> hist.passed, late |-> hist.late]
    BY <1>3, <2>1, <2>2
  <2>4. hist.skipped \in BOOLEAN /\ hist.passed \in BOOLEAN /\ hist.late \in BOOLEAN
    BY <2>1, <2>2
  <2>5. hist' \in HistSet BY <2>1, <2>2, <2>3, <2>4
  <2>6. QED BY <2>3, <2>5
<1>19. QED
  BY <1>2, <1>6, <1>9, <1>14, <1>16, <1>17, <1>18 DEF up, g, rest, double, since

\* revlink_storage_recovery_double_press
LEMMA DoublePress ==
    ASSUME recovery \in RecoverySet, recovery.state # "FORMATTING"
    PROVE  LET r == recovery_double_press(recovery)
           IN  /\ r \in RecoverySet
               /\ r.state = "FORMATTING" => recovery.state = "AWAITING_CONFIRMATION"
               /\ r.state = "AWAITING_CONFIRMATION" =>
                     recovery.state = "AWAITING_REQUEST" /\ r.elapsed = 0
<1>1. 0 \in 0..Confirm - 1 BY PowerAssumption
<1>2. recovery.elapsed < Confirm BY PowerAssumption DEF RecoverySet
<1>3. QED BY <1>1, <1>2 DEF recovery_double_press, RecoverySet, RecoveryStates

\* A sample moves the request for a format on only with two presses in a row behind it.
LEMMA SampleKeeps ==
    ASSUME PowerIInv, NEW raw \in BOOLEAN, soft_power_sample(raw)
    PROVE  PowerIInv'
<1> DEFINE up == button_update(button, raw)
           n == Lasts(button.cand, button.candFor, raw)
           g == Aged(Counted(up.action))
           rest == IF Closed(g) THEN NoGroup ELSE g
           double == Closed(g) /\ g.count = 2
           since == More(hist.since, Confirm)
           r == IF double THEN recovery_double_press(recovery) ELSE recovery
<1>1. /\ task.pc = "sample"
      /\ button' = up.b /\ group' = rest /\ recovery' = r
      /\ hist' = Seen(raw, up.action)
      /\ task' = [Sampling EXCEPT !.pc = IF up.action = "SHUTDOWN" THEN "gate"
                                         ELSE IF r.state = "FORMATTING" THEN "format"
                                         ELSE "tick"]
      /\ UNCHANGED <<storage, medium, gate, sync, policy, asked, closing>>
  BY DEF soft_power_sample, card, syncs
<1>2. overlay' \in BOOLEAN BY TypeFacts DEF soft_power_sample
<1>3. /\ up.b \in ButtonSet /\ up.b.cand = raw /\ up.b.candFor = n
      /\ up.b.stable = Steady(button.stable, n, raw)
      /\ up.action \in {"NONE", "SHORT", "SHUTDOWN"}
  BY TypeFacts, ButtonUpdate
<1>4. /\ hist' \in HistSet /\ hist'.raw = n /\ hist'.down = raw
      /\ hist'.solid = Steady(button.stable, n, raw)
      /\ hist'.held = up.b.latched
      /\ hist'.burst = rest.count /\ hist'.quiet = rest.window
      /\ hist'.since = IF recovery.state = "UNAVAILABLE" THEN Confirm
                       ELSE IF double THEN 0 ELSE since
      /\ hist'.confirmed <=> double /\ since < Confirm
      /\ hist'.skipped = hist.skipped /\ hist'.passed = hist.passed /\ hist'.late = hist.late
  BY <1>1, SeenFacts
<1>5. /\ rest \in GroupSet /\ (rest.count = 0 <=> rest.window = 0)
      /\ up.action = "SHUTDOWN" => g.count = 0
  BY <1>3, GroupFacts
<1>6. recovery.state # "FORMATTING" BY <1>1 DEF PowerIInv, RequestSeen
<1>7. /\ recovery' \in RecoverySet
      /\ recovery'.state = "FORMATTING" =>
            double /\ recovery.state = "AWAITING_CONFIRMATION"
      /\ double /\ recovery'.state = "AWAITING_CONFIRMATION" =>
            recovery.state = "AWAITING_REQUEST" /\ recovery'.elapsed = 0
      /\ ~double => recovery' = recovery
  BY <1>1, <1>6, TypeFacts, DoublePress
<1>8. double => up.action # "SHUTDOWN" BY <1>5
<1>9. /\ task' \in TaskSet /\ task'.pc \in {"gate", "format", "tick"}
      /\ task'.pc = "format" <=> up.action # "SHUTDOWN" /\ recovery'.state = "FORMATTING"
  <2>1. task' \in TaskSet BY <1>1, StartTypes DEF TaskSet, TaskPcs
  <2>2. task'.pc = IF up.action = "SHUTDOWN" THEN "gate"
                   ELSE IF r.state = "FORMATTING" THEN "format" ELSE "tick"
    BY <1>1, StartTypes DEF TaskSet
  <2>3. QED BY <1>1, <2>1, <2>2
<1>10. recovery.state = "AWAITING_CONFIRMATION" => since = recovery.elapsed /\ since < Confirm
  <2>1. recovery.state = "AWAITING_CONFIRMATION" => hist.since + 1 = recovery.elapsed
    BY <1>1 DEF PowerIInv, RequestSeen
  <2>2. recovery.elapsed \in 0..Confirm - 1 /\ hist.since \in 0..Confirm
    BY TypeFacts DEF RecoverySet, HistSet
  <2>3. QED BY <2>1, <2>2, PowerAssumption DEF More
<1> HIDE DEF up, n, g, rest, double, since, r
<1>11. TypeOK' /\ HistTypeOK'
  BY <1>1, <1>2, <1>3, <1>4, <1>5, <1>7, <1>9, TypeFacts, TypeByParts
<1>12. ButtonSeen' BY <1>1, <1>3, <1>4 DEF ButtonSeen
<1>13. RequestSeen'
  <2>1. recovery'.state = "AWAITING_CONFIRMATION" => hist'.since + 0 = recovery'.elapsed
    <3> SUFFICES ASSUME recovery'.state = "AWAITING_CONFIRMATION"
                 PROVE  hist'.since + 0 = recovery'.elapsed
      OBVIOUS
    <3>1. recovery'.elapsed \in Nat BY <1>7, PowerAssumption DEF RecoverySet
    <3>2. CASE double
      <4>1. recovery.state = "AWAITING_REQUEST" /\ recovery'.elapsed = 0 BY <1>7, <3>2
      <4>2. hist'.since = 0 BY <1>4, <3>2, <4>1
      <4>3. QED BY <4>1, <4>2
    <3>3. CASE ~double
      <4>1. recovery' = recovery BY <1>7, <3>3
      <4>2. hist'.since = since BY <1>4, <3>3, <4>1
      <4>3. QED BY <1>10, <3>1, <4>1, <4>2
    <3>4. QED BY <3>2, <3>3
  <2>2. recovery'.state = "FORMATTING" <=> task'.pc = "format"
    BY <1>7, <1>8, <1>9
  <2>3. task'.pc # "sample" BY <1>9
  <2>4. QED BY <2>1, <2>2, <2>3 DEF RequestSeen
<1>14. FormatConfirmed' BY <1>4, <1>7, <1>9, <1>10 DEF FormatConfirmed
<1>15. GateHolds' BY <1>1, <1>4, <1>9 DEF PowerIInv, GateHolds
<1>16. CardHeld' BY <1>1, <1>4, <1>9 DEF PowerIInv, CardHeld
<1>17. QED BY <1>11, <1>12, <1>13, <1>14, <1>15, <1>16 DEF PowerIInv

\* The rest of the round.
LEMMA TickKeeps ==
    ASSUME PowerIInv, soft_power_tick
    PROVE  PowerIInv'
<1>1. /\ task.pc = "tick" /\ recovery' = recovery_tick(recovery) /\ task' = Sampling
      /\ UNCHANGED <<button, group, overlay, storage, medium, gate, sync, policy, asked,
                     closing, hist>>
  BY DEF soft_power_tick, card, syncs
<1>2. \/ recovery' = recovery
      \/ /\ recovery'.state \in {"AWAITING_CONFIRMATION", "AWAITING_REQUEST"}
         /\ recovery'.state = "AWAITING_CONFIRMATION" => recovery.state = "AWAITING_CONFIRMATION"
  BY <1>1, TypeFacts DEF recovery_tick, RecoverySet
<1>3. recovery' \in RecoverySet
  <2>1. CASE recovery.state # "AWAITING_CONFIRMATION"
    BY <1>1, <2>1, TypeFacts DEF recovery_tick
  <2>2. CASE recovery.state = "AWAITING_CONFIRMATION" /\ recovery.elapsed + 1 < Confirm
    <3>1. recovery' = [recovery EXCEPT !.elapsed = recovery.elapsed + 1]
      BY <1>1, <2>2 DEF recovery_tick
    <3>2. recovery.elapsed + 1 \in 0..Confirm - 1
      BY <2>2, TypeFacts, PowerAssumption DEF RecoverySet
    <3>3. QED BY <3>1, <3>2, TypeFacts DEF RecoverySet
  <2>3. CASE recovery.state = "AWAITING_CONFIRMATION" /\ ~(recovery.elapsed + 1 < Confirm)
    <3>1. recovery' = [state |-> "AWAITING_REQUEST", elapsed |-> 0]
      BY <1>1, <2>3 DEF recovery_tick
    <3>2. 0 \in 0..Confirm - 1 BY PowerAssumption
    <3>3. QED BY <3>1, <3>2 DEF RecoverySet, RecoveryStates
  <2>4. QED BY <2>1, <2>2, <2>3
<1>4. recovery'.state = "AWAITING_CONFIRMATION" =>
          recovery.state = "AWAITING_CONFIRMATION" /\ recovery'.elapsed = recovery.elapsed + 1
  BY <1>1, TypeFacts DEF recovery_tick, RecoverySet
<1>5. TypeOK' /\ HistTypeOK' BY <1>1, <1>3, TypeFacts, StartTypes, TypeByParts
<1>6. ButtonSeen' BY <1>1 DEF PowerIInv, ButtonSeen
<1>7. RequestSeen' /\ FormatConfirmed'
  <2>1. recovery.state # "FORMATTING" /\ recovery'.state # "FORMATTING"
    BY <1>1, <1>2 DEF PowerIInv, RequestSeen
  <2>2. hist.since \in Nat BY TypeFacts, PowerAssumption DEF HistSet
  <2>3. recovery.state = "AWAITING_CONFIRMATION" => hist.since + 0 = recovery.elapsed
    BY <1>1 DEF PowerIInv, RequestSeen
  <2>4. recovery'.state = "AWAITING_CONFIRMATION" => hist'.since + 1 = recovery'.elapsed
    BY <1>1, <1>4, <2>2, <2>3
  <2>5. task'.pc = "sample" BY <1>1, StartTypes
  <2>6. QED BY <2>1, <2>4, <2>5 DEF RequestSeen, FormatConfirmed
<1>8. GateHolds' /\ CardHeld' BY <1>1, StartTypes DEF PowerIInv, GateHolds, CardHeld
<1>9. QED BY <1>5, <1>6, <1>7, <1>8 DEF PowerIInv

LEMMA OverlayKeeps ==
    ASSUME PowerIInv, OverlayEnds
    PROVE  PowerIInv'
<1>1. /\ overlay' = FALSE
      /\ UNCHANGED <<button, group, recovery, storage, medium, task, gate, sync, policy, asked,
                     closing, hist>>
  BY DEF OverlayEnds, card, syncs
<1>2. TypeOK' /\ HistTypeOK' BY <1>1, TypeFacts, TypeByParts
<1>3. QED BY <1>1, <1>2 DEF PowerIInv, ButtonSeen, RequestSeen, GateHolds, CardHeld,
                            FormatConfirmed

(***************************************************************************)
(* Shutting down                                                           *)
(***************************************************************************)

LEMMA TaskGoes ==
    ASSUME task \in TaskSet, NEW pc \in TaskPcs,
           \/ task' = [task EXCEPT !.pc = pc] \/ task' = [task EXCEPT !.pc = pc, !.n = 0]
           \/ task' = [Sampling EXCEPT !.pc = pc]
    PROVE  task' \in TaskSet /\ task'.pc = pc
<1>1. CASE task' = [task EXCEPT !.pc = pc] BY <1>1 DEF TaskSet
<1>2. CASE task' = [task EXCEPT !.pc = pc, !.n = 0] BY <1>2 DEF TaskSet
<1>3. CASE task' = [Sampling EXCEPT !.pc = pc] BY <1>3, StartTypes DEF TaskSet
<1>4. QED BY <1>1, <1>2, <1>3

LEMMA PrepareGateKeeps ==
    ASSUME PowerIInv, prepare_gate
    PROVE  PowerIInv'
<1>1. /\ task.pc = "gate" /\ gate' = TRUE
      /\ task' = [task EXCEPT !.pc = IF gate THEN "cancel" ELSE "policy"]
      /\ UNCHANGED <<button, group, overlay, recovery, storage, medium, sync, policy, asked,
                     closing, hist>>
  BY DEF prepare_gate, power, card, syncs
<1>2. task' \in TaskSet /\ task'.pc = IF gate THEN "cancel" ELSE "policy"
  <2>1. CASE gate BY <1>1, <2>1, TypeFacts, TaskGoes DEF TaskPcs
  <2>2. CASE ~gate BY <1>1, <2>2, TypeFacts, TaskGoes DEF TaskPcs
  <2>3. QED BY <2>1, <2>2
<1>3. TypeOK' /\ HistTypeOK' BY <1>1, <1>2, TypeFacts, TypeByParts
<1>4. ButtonSeen' /\ CardHeld' BY <1>1, <1>2 DEF PowerIInv, ButtonSeen, CardHeld
<1>5. RequestSeen' /\ FormatConfirmed' BY <1>1, <1>2, RequestKeeps
<1>6. GateHolds' BY <1>1, <1>2 DEF PowerIInv, GateHolds
<1>7. QED BY <1>3, <1>4, <1>5, <1>6 DEF PowerIInv

\* The automatic sync goes off: whoever is on the way is remembered.
LEMMA PreparePolicyKeeps ==
    ASSUME PowerIInv, prepare_policy
    PROVE  PowerIInv'
<1>1. /\ task.pc = "policy" /\ policy' = FALSE
      /\ task' = [task EXCEPT !.pc = "cancel"]
      /\ hist' = [hist EXCEPT !.passed = asked # {}]
      /\ UNCHANGED <<button, group, overlay, recovery, storage, medium, gate, sync, asked,
                     closing>>
  BY DEF prepare_policy, power, card
<1>2. task' \in TaskSet /\ task'.pc = "cancel"
  BY <1>1, TypeFacts, TaskGoes DEF TaskPcs
<1>3. /\ hist' \in HistSet /\ SameGesture /\ hist'.since = hist.since
      /\ hist'.skipped = hist.skipped /\ hist'.passed = (asked # {})
  <2> DEFINE passed == asked # {}
  <2>1. passed \in BOOLEAN OBVIOUS
  <2>2. hist' = [hist EXCEPT !.passed = passed] BY <1>1
  <2> HIDE DEF passed
  <2>3. /\ hist' \in HistSet /\ SameGesture /\ hist'.since = hist.since
        /\ hist'.skipped = hist.skipped /\ hist'.passed = passed
    BY <2>1, <2>2, TypeFacts DEF HistSet, SameGesture
  <2>4. QED BY <2>3 DEF passed
<1>4. TypeOK' /\ HistTypeOK' BY <1>1, <1>2, <1>3, TypeFacts, TypeByParts
<1>5. ButtonSeen' /\ CardHeld'
  BY <1>1, <1>2, <1>3 DEF PowerIInv, ButtonSeen, CardHeld, SameGesture
<1>6. RequestSeen' /\ FormatConfirmed' BY <1>1, <1>2, <1>3, RequestKeeps
<1>7. GateHolds' BY <1>1, <1>2, <1>3 DEF PowerIInv, GateHolds
<1>8. QED BY <1>4, <1>5, <1>6, <1>7 DEF PowerIInv

\* The task goes on, or gives the shutdown up.
LEMMA ShutdownGoes ==
    ASSUME PowerIInv, task.pc \in {"cancel", "wait", "disconnect", "stop"},
           task' \in TaskSet, task'.pc \in {"wait", "disconnect", "stop", "tick", "asleep"},
           UNCHANGED <<button, group, overlay, recovery, policy, asked, closing, gate>>,
           storage' \in StorageSet, medium' \in MediumSet, CardHeld',
           hist' \in HistSet, SameGesture, hist'.since = hist.since,
           hist'.passed = hist.passed, hist'.late = hist.late,
           sync' \in SyncSnapshot,
           task'.pc \in {"disconnect", "stop", "asleep"} =>
               sync' = sync /\ (task.pc \in {"disconnect", "stop"} \/ ~is_active(sync.state))
    PROVE  PowerIInv'
<1>1. TypeOK' /\ HistTypeOK' BY TypeFacts, TypeByParts
<1>2. ButtonSeen' BY DEF PowerIInv, ButtonSeen, SameGesture
<1>3. RequestSeen' /\ FormatConfirmed' BY RequestKeeps
<1>4. GateHolds' BY DEF PowerIInv, GateHolds
<1>5. QED BY <1>1, <1>2, <1>3, <1>4 DEF PowerIInv

LEMMA PrepareCancelKeeps ==
    ASSUME PowerIInv, prepare_cancel
    PROVE  PowerIInv'
<1>1. /\ task.pc = "cancel" /\ (sync' = sync \/ sync' = Cancelling(sync))
      /\ task' = [task EXCEPT !.pc = "wait", !.n = 0] \/ task' = [Sampling EXCEPT !.pc = "tick"]
      /\ UNCHANGED <<button, group, overlay, recovery, storage, medium, policy, asked,
                     closing, gate, hist>>
  BY DEF prepare_cancel, power, card, Aborted
<1>2. task' \in TaskSet /\ task'.pc \in {"wait", "tick"}
  BY <1>1, TypeFacts, TaskGoes DEF TaskPcs
<1>3. sync' \in SyncSnapshot
  BY <1>1, TypeFacts DEF Cancelling, SyncSnapshot, SyncStates
<1>4. CardHeld' BY <1>1, <1>2 DEF PowerIInv, CardHeld
<1>5. QED BY <1>1, <1>2, <1>3, <1>4, TypeFacts, ShutdownGoes DEF SameGesture

LEMMA WaitKeeps ==
    ASSUME PowerIInv, wait_for_sync
    PROVE  PowerIInv'
<1>1. /\ task.pc = "wait"
      /\ \/ ~is_active(sync.state) /\ task' = [task EXCEPT !.pc = "disconnect", !.n = 0]
         \/ task' = [Sampling EXCEPT !.pc = "tick"]
         \/ task' = [task EXCEPT !.n = task.n + 1]
      /\ UNCHANGED <<button, group, overlay, recovery, storage, medium, gate, sync, policy,
                     asked, closing, hist>>
  BY DEF wait_for_sync, power, card, syncs, Aborted
<1>2. CASE task' = [task EXCEPT !.n = task.n + 1]
  <2>1. task' \in TaskSet /\ task'.pc = "wait" BY <1>1, <1>2, TypeFacts DEF TaskSet
  <2>2. CardHeld' BY <1>1, <2>1 DEF PowerIInv, CardHeld
  <2>3. QED BY <1>1, <2>1, <2>2, TypeFacts, ShutdownGoes DEF SameGesture
<1>3. CASE \/ ~is_active(sync.state) /\ task' = [task EXCEPT !.pc = "disconnect", !.n = 0]
           \/ task' = [Sampling EXCEPT !.pc = "tick"]
  <2>1. /\ task' \in TaskSet /\ task'.pc \in {"disconnect", "tick"}
        /\ task'.pc = "disconnect" => ~is_active(sync.state)
    BY <1>3, TypeFacts, TaskGoes DEF TaskPcs
  <2>2. CardHeld' BY <1>1, <2>1 DEF PowerIInv, CardHeld
  <2>3. QED BY <1>1, <2>1, <2>2, TypeFacts, ShutdownGoes DEF SameGesture
<1>4. QED BY <1>1, <1>2, <1>3

LEMMA DisconnectKeeps ==
    ASSUME PowerIInv, usb_link_disconnect
    PROVE  PowerIInv'
<1>1. /\ task.pc = "disconnect" /\ task' = [task EXCEPT !.pc = "stop"]
      /\ UNCHANGED <<button, group, overlay, recovery, storage, medium, gate, sync, policy,
                     asked, closing, hist>>
  BY DEF usb_link_disconnect, power, card, syncs
<1>2. task' \in TaskSet /\ task'.pc = "stop" BY <1>1, TypeFacts, TaskGoes DEF TaskPcs
<1>3. CardHeld' BY <1>1 DEF PowerIInv, CardHeld
<1>4. QED BY <1>1, <1>2, <1>3, TypeFacts, ShutdownGoes DEF SameGesture

\* The card is let go: its handle first, whatever the unmount makes of it.
LEMMA StopKeeps ==
    ASSUME PowerIInv, storage_stop
    PROVE  PowerIInv'
<1>1. /\ task.pc = "stop"
      /\ task' = [Sampling EXCEPT !.pc = "tick"] \/ task' = [Sampling EXCEPT !.pc = "asleep"]
      /\ UNCHANGED <<button, group, overlay, recovery, gate, sync, policy, asked, closing>>
      /\ storage' = [storage EXCEPT !.card = FALSE] \/ storage' = NoStorage
      /\ \/ hist' = [hist EXCEPT !.skipped = TRUE] /\ UNCHANGED medium
         \/ /\ medium' = [medium EXCEPT !.mounted = medium.mounted /\ ~storage.card]
            /\ UNCHANGED hist
  BY DEF storage_stop, power, syncs, Aborted
<1>2. task' \in TaskSet /\ task'.pc \in {"tick", "asleep"} BY <1>1, TypeFacts, TaskGoes DEF TaskPcs
<1>3. storage' \in StorageSet BY <1>1, TypeFacts, StartTypes DEF StorageSet
<1>4. medium' \in MediumSet /\ (medium' = medium \/ (medium'.mounted => medium.mounted /\ ~storage.card))
  <2> DEFINE mounted == medium.mounted /\ ~storage.card
  <2>1. mounted \in BOOLEAN OBVIOUS
  <2>2. medium' = medium \/ medium' = [medium EXCEPT !.mounted = mounted] BY <1>1
  <2> HIDE DEF mounted
  <2>3. medium' \in MediumSet /\ (medium' = medium \/ medium'.mounted = mounted)
    BY <2>1, <2>2, TypeFacts DEF MediumSet
  <2>4. QED BY <2>3 DEF mounted
<1>5. /\ hist' \in HistSet /\ SameGesture /\ hist'.since = hist.since
      /\ hist'.passed = hist.passed /\ hist'.late = hist.late
      /\ hist.skipped => hist'.skipped
  BY <1>1, TypeFacts DEF HistSet, SameGesture
<1>6. CardHeld'
  <2>1. CASE hist' = [hist EXCEPT !.skipped = TRUE]
    BY <2>1, TypeFacts DEF CardHeld, HistSet
  <2>2. CASE medium' = [medium EXCEPT !.mounted = medium.mounted /\ ~storage.card]
    <3>1. medium'.mounted => medium.mounted /\ ~storage.card
      BY <2>2, TypeFacts DEF MediumSet
    <3>2. QED BY <1>5, <3>1 DEF PowerIInv, CardHeld
  <2>3. QED BY <1>1, <2>1, <2>2
<1>7. QED BY <1>1, <1>2, <1>3, <1>4, <1>5, <1>6, TypeFacts, ShutdownGoes

(***************************************************************************)
(* Everyone else                                                           *)
(***************************************************************************)

LEMMA OthersKeep ==
    ASSUME PowerIInv, Awake,
           UNCHANGED <<button, group, overlay, recovery, storage, medium, task, gate>>,
           sync' \in SyncSnapshot, policy' \in BOOLEAN, asked' \subseteq Askers,
           closing' \in BOOLEAN, hist' \in HistSet, SameGesture, hist'.since = hist.since,
           hist'.skipped = hist.skipped, GateHolds'
    PROVE  PowerIInv'
<1>1. TypeOK' /\ HistTypeOK' BY TypeFacts, TypeByParts
<1>2. ButtonSeen' /\ CardHeld' BY DEF PowerIInv, ButtonSeen, CardHeld, SameGesture
<1>3. RequestSeen' /\ FormatConfirmed' BY RequestKeeps DEF Awake
<1>4. QED BY <1>1, <1>2, <1>3 DEF PowerIInv

LEMMA BegunFacts ==
    ASSUME PowerIInv, NEW recovering \in BOOLEAN, Begun(recovering)
    PROVE  /\ sync' \in SyncSnapshot /\ sync'.recovery = recovering
           /\ hist' \in HistSet /\ SameGesture /\ hist'.since = hist.since
           /\ hist'.skipped = hist.skipped /\ hist'.passed = hist.passed
           /\ hist'.late <=> hist.late \/ (gate /\ ~recovering)
<1>1. sync' \in SyncSnapshot /\ sync'.recovery = recovering
  BY DEF Begun, Queued, SyncSnapshot, SyncStates
<1> DEFINE late == hist.late \/ (gate /\ ~recovering)
<1>2. hist' = [hist EXCEPT !.late = late] BY DEF Begun
<1>3. late \in BOOLEAN BY TypeFacts DEF HistSet
<1> HIDE DEF late
<1>4. /\ hist' \in HistSet /\ SameGesture /\ hist'.since = hist.since
      /\ hist'.skipped = hist.skipped /\ hist'.passed = hist.passed /\ hist'.late = late
  BY <1>2, <1>3, TypeFacts DEF HistSet, SameGesture
<1>5. QED BY <1>1, <1>4 DEF late

\* A sync begun behind the gate is begun by someone who had passed it, or recovers.
LEMMA BegunKeeps ==
    ASSUME PowerIInv, Awake, NEW recovering \in BOOLEAN, Begun(recovering),
           UNCHANGED <<button, group, overlay, recovery, storage, medium, task, gate, policy>>,
           asked' \subseteq asked, closing' \in BOOLEAN,
           recovering \/ asked # {}
    PROVE  PowerIInv'
<1>1. GateHolds'
  <2>1. gate /\ task.pc # "policy" /\ ~recovering => hist'.late /\ hist'.passed
    BY BegunFacts DEF PowerIInv, GateHolds
  <2>2. gate /\ task.pc # "policy" /\ (policy' \/ asked' # {}) => hist'.passed
    BY BegunFacts DEF PowerIInv, GateHolds
  <2>3. task.pc \in {"policy", "cancel", "wait", "disconnect", "stop", "asleep"} => gate
    BY DEF PowerIInv, GateHolds
  <2>4. QED BY <2>1, <2>2, <2>3, BegunFacts DEF GateHolds
<1>2. QED BY <1>1, BegunFacts, TypeFacts, OthersKeep

LEMMA AskKeeps ==
    ASSUME PowerIInv, NEW who \in Askers, PassGate(who) \/ AskSync(who)
    PROVE  PowerIInv'
<1>1. CASE PassGate(who)
  <2>1. /\ Awake /\ (gate => policy) /\ asked' = asked \union {who}
        /\ UNCHANGED <<button, group, overlay, recovery, storage, medium, task, gate, sync,
                       policy, closing, hist>>
    BY <1>1 DEF PassGate, power, card
  <2>2. asked' \subseteq Askers BY <2>1, TypeFacts
  <2>3. GateHolds' BY <2>1 DEF PowerIInv, GateHolds
  <2>4. QED BY <2>1, <2>2, <2>3, TypeFacts, OthersKeep DEF SameGesture
<1>2. CASE AskSync(who)
  <2>1. /\ Awake /\ asked # {} /\ asked' = asked \ {who}
        /\ UNCHANGED <<button, group, overlay, recovery, storage, medium, task, gate, policy,
                       closing>>
        /\ Begun(FALSE) \/ UNCHANGED <<sync, hist>>
    BY <1>2 DEF AskSync, power, card
  <2>2. CASE Begun(FALSE)
    <3>1. asked' \subseteq asked BY <2>1
    <3>2. closing' \in BOOLEAN BY <2>1, TypeFacts
    <3>3. QED BY <2>1, <2>2, <3>1, <3>2, BegunKeeps
  <2>3. CASE UNCHANGED <<sync, hist>>
    <3>1. GateHolds' BY <2>1, <2>3 DEF PowerIInv, GateHolds
    <3>2. QED BY <2>1, <2>3, <3>1, TypeFacts, OthersKeep DEF SameGesture
  <2>4. QED BY <2>1, <2>2, <2>3
<1>3. QED BY <1>1, <1>2

\* A setting applied behind the gate was asked for before it closed.
LEMMA SettingKeeps ==
    ASSUME PowerIInv, NEW enabled \in BOOLEAN, SetAutoSync(enabled)
    PROVE  PowerIInv'
<1>1. /\ Awake /\ asked # {} /\ asked' = asked \ {"setting"} /\ policy' = enabled
      /\ UNCHANGED <<button, group, overlay, recovery, storage, medium, task, gate, sync,
                     closing, hist>>
  BY DEF SetAutoSync, power, card
<1>2. GateHolds' BY <1>1 DEF PowerIInv, GateHolds
<1>3. QED BY <1>1, <1>2, TypeFacts, OthersKeep DEF SameGesture

\* An event neither makes a sync active nor changes what it is for.
LEMMA EventKeeps ==
    ASSUME PowerIInv, NEW kind \in SyncEventKinds, SyncEventSeen(kind)
    PROVE  PowerIInv'
<1> DEFINE ev == [kind |-> kind, recovery |-> sync.recovery, dataDone |-> TRUE,
                  closeAck |-> FALSE, moved |-> FALSE]
<1>1. /\ Awake /\ is_active(sync.state) /\ sync' = SyncAfter(sync, ev)
      /\ closing' \in IF kind = "FAILED" /\ ~sync.recovery THEN BOOLEAN ELSE {FALSE}
      /\ UNCHANGED <<button, group, overlay, recovery, storage, medium, task, gate, policy,
                     asked, hist>>
  BY DEF SyncEventSeen, power, card
<1>2. ev.kind = kind /\ ev.recovery = sync.recovery OBVIOUS
<1> HIDE DEF ev
<1>3. /\ sync'.recovery = sync.recovery
      /\ sync'.state \in {kind, "RUNNING", sync.state}
      /\ sync'.state = kind => kind \in TerminalKinds \/ kind = sync.state
      /\ sync' = [state |-> sync'.state, recovery |-> sync'.recovery]
  BY <1>1, <1>2 DEF SyncAfter, TerminalKinds, SyncEventKinds
<1>4. sync' \in SyncSnapshot
  BY <1>3, TypeFacts DEF SyncSnapshot, SyncStates, TerminalKinds
<1>5. closing' \in BOOLEAN BY <1>1
<1>6. GateHolds' BY <1>1, <1>3 DEF PowerIInv, GateHolds
<1>7. QED BY <1>1, <1>4, <1>5, <1>6, TypeFacts, OthersKeep DEF SameGesture

LEMMA RecoverKeeps ==
    ASSUME PowerIInv, RecoverSession
    PROVE  PowerIInv'
<1>1. /\ Awake /\ closing' = FALSE /\ (Begun(TRUE) \/ UNCHANGED <<sync, hist>>)
      /\ UNCHANGED <<button, group, overlay, recovery, storage, medium, task, gate, policy,
                     asked>>
  BY DEF RecoverSession, power, card
<1>2. CASE Begun(TRUE) BY <1>1, <1>2, BegunKeeps
<1>3. CASE UNCHANGED <<sync, hist>>
  <2>1. GateHolds' BY <1>1, <1>3 DEF PowerIInv, GateHolds
  <2>2. QED BY <1>1, <1>3, <2>1, TypeFacts, OthersKeep DEF SameGesture
<1>4. QED BY <1>1, <1>2, <1>3

LEMMA PowerStutters ==
    ASSUME PowerIInv, UNCHANGED vars
    PROVE  PowerIInv'
<1>1. UNCHANGED <<button, group, overlay, recovery, storage, medium, task, gate, asked,
                  closing, sync, policy, hist>>
  BY DEF vars
<1>2. TypeOK' /\ HistTypeOK' BY <1>1, TypeFacts, TypeByParts
<1>3. QED BY <1>1, <1>2 DEF PowerIInv, ButtonSeen, RequestSeen, GateHolds, CardHeld,
                            FormatConfirmed

(***************************************************************************)
(* The theorems                                                            *)
(***************************************************************************)

LEMMA PowerStep ==
    ASSUME PowerIInv, [Next]_vars
    PROVE  PowerIInv'
<1>1. CASE SoftPowerTask
  BY <1>1, StartStorageKeeps, SampleKeeps, TickKeeps, FormatKeeps, PrepareGateKeeps,
     PreparePolicyKeeps, PrepareCancelKeeps, WaitKeeps, DisconnectKeeps, StopKeeps
     DEF SoftPowerTask, ShutdownSteps
<1>2. CASE Wake
  <2>1. medium.kind \in Kinds BY TypeFacts DEF MediumSet
  <2>2. QED BY <1>2, <2>1, RestartKeeps DEF Wake
<1>3. QED
  BY <1>1, <1>2, SwapKeeps, OverlayKeeps, AskKeeps, SettingKeeps, EventKeeps,
     RecoverKeeps, PowerStutters
     DEF Next

\* The button, the gate and the card, at every sample and every step of a shutdown.
THEOREM PowerInvariance == Spec => []PowerIInv
<1>1. Init => PowerIInv BY PowerInit
<1>2. PowerIInv /\ [Next]_vars => PowerIInv' BY PowerStep
<1>3. QED BY <1>1, <1>2, PTL DEF Spec

\* Two presses in a row and two more in time stand behind every format, each seen for the
\* debounce time, whatever the debounce, hold, window and confirmation times are
\* (soft_power_task, revlink_power_button_update, revlink_storage_recovery).
THEOREM FormatAlwaysConfirmed == Spec => []FormatConfirmed
<1>1. PowerIInv => FormatConfirmed BY DEF PowerIInv
<1>2. QED BY <1>1, PowerInvariance, PTL

\* Deep sleep with the filesystem mounted follows an unmount that failed
\* (revlink_sd_storage_stop, perform_shutdown).
THEOREM SleepsUnmountedAlways == Spec => []SleepsUnmounted
<1>1. PowerIInv => SleepsUnmounted BY DEF PowerIInv, CardHeld, SleepsUnmounted
<1>2. QED BY <1>1, PowerInvariance, PTL

\* Deep sleep with a sync active: one that recovers the session, or one begun by someone
\* who was on the way to the coordinator when the automatic sync went off, an attachment
\* included (revlink_runtime_prepare_shutdown, handle_device_snapshot, perform_shutdown).
THEOREM SleepsSyncedAlways == Spec => []SleepsSynced
<1>1. PowerIInv => SleepsSynced BY DEF PowerIInv, GateHolds, SleepsSynced
<1>2. QED BY <1>1, PowerInvariance, PTL

\* No step makes a fresh card of one with files.
LEMMA FilesStep ==
    ASSUME PowerIInv, Next, medium.kind = "files"
    PROVE  medium'.kind # "fresh"
<1>1. CASE start_storage
  <2>1. PICK o \in StartOutcomes(FALSE) : medium' = o.m BY <1>1 DEF start_storage
  <2>2. OutcomeFits(o) BY TypeFacts, OutcomeFacts DEF PowerIInv
  <2>3. QED BY <2>1, <2>2 DEF OutcomeFits
<1>2. CASE format_unreadable
  <2> DEFINE outcomes == IF storage = [NoStorage EXCEPT !.state = "UNREADABLE"]
                         THEN StartOutcomes(TRUE) ELSE {[s |-> storage, m |-> medium]}
  <2>1. PICK o \in outcomes : Restart(o.m.kind) \/ medium' = o.m
    BY <1>2 DEF format_unreadable
  <2>2. OutcomeFits(o)
    <3>1. CASE o \in StartOutcomes(TRUE) BY <3>1, TypeFacts, OutcomeFacts DEF PowerIInv
    <3>2. CASE o = [s |-> storage, m |-> medium]
      <4>1. o.s = storage /\ o.m = medium BY <3>2
      <4>2. QED BY <4>1, TypeFacts DEF OutcomeFits, PowerIInv, CardHeld, MediumSet, Kinds
    <3>3. QED BY <2>1, <3>1, <3>2
  <2>3. medium'.kind = o.m.kind BY <2>1 DEF Restart
  <2>4. QED BY <2>2, <2>3 DEF OutcomeFits
<1>3. CASE Wake BY <1>3 DEF Wake, Restart
<1>4. CASE \E kind \in {"absent", "blank", "files"} : SwapCard(kind)
  BY <1>4 DEF SwapCard
<1>5. CASE storage_stop
  <2>1. medium' = medium \/ medium' = [medium EXCEPT !.mounted = medium.mounted /\ ~storage.card]
    BY <1>5 DEF storage_stop
  <2>2. medium'.kind = medium.kind BY <2>1, TypeFacts DEF MediumSet
  <2>3. QED BY <2>2
<1>6. CASE \/ soft_power_tick \/ prepare_gate \/ prepare_policy \/ prepare_cancel \/ wait_for_sync
           \/ usb_link_disconnect \/ OverlayEnds \/ RecoverSession
           \/ \E raw \in BOOLEAN : soft_power_sample(raw)
           \/ \E who \in Askers : PassGate(who) \/ AskSync(who)
           \/ \E enabled \in BOOLEAN : SetAutoSync(enabled)
           \/ \E kind \in SyncEventKinds : SyncEventSeen(kind)
  <2>1. UNCHANGED medium
    BY <1>6 DEF soft_power_tick, prepare_gate, prepare_policy, prepare_cancel, wait_for_sync,
       usb_link_disconnect, OverlayEnds, RecoverSession, soft_power_sample,
       PassGate, AskSync, SetAutoSync, SyncEventSeen, card
  <2>2. QED BY <2>1
<1>7. QED BY <1>1, <1>2, <1>3, <1>4, <1>5, <1>6 DEF Next, SoftPowerTask, ShutdownSteps

\* A card with files is never formatted, at whatever point the owner changes it and
\* whatever was offered for the card before it (mount_card, storage_start_internal).
THEOREM FilesAlwaysKept == Spec => FilesKept
<1>1. PowerIInv /\ [Next]_vars => [medium.kind = "files" => medium'.kind # "fresh"]_vars
  BY FilesStep
<1>2. QED BY <1>1, PowerInvariance, PTL DEF Spec, FilesKept
=============================================================================
