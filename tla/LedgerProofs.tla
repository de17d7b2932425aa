---------------------------- MODULE LedgerProofs ----------------------------
(***************************************************************************)
(* Proofs about Ledger, for every set of files, contents and capacities.   *)
(* First what holds until the ledger is spoilt, by tasks that overlap or   *)
(* by a backup missed or lost, from LedgerIInv; then what holds however    *)
(* the tasks interleave.                                                   *)
(***************************************************************************)
EXTENDS Ledger, FiniteSetTheorems, TLAPS

USE DigestAssumption, CapacityAssumption, PathAssumption

\* A task at rest is a task.
LEMMA RestingType ==
    /\ Resting \in TaskState
    /\ Resting.pc = "idle" /\ Resting.kind = "SYNC" /\ Resting.path \in Paths
    /\ Resting.digest = NoDigest /\ Resting.listed = {} /\ Resting.attached = FALSE
    /\ Resting.versions = {} /\ Resting.rows = NoRows
<1>1. (CHOOSE p \in Paths : TRUE) \in Paths
  BY PathAssumption
<1>2. NoRows \in Manifest /\ {} \in History
  BY DEF NoRows, Manifest, Row, History
<1>3. QED
  BY <1>1, <1>2 DEF Resting, TaskState, Pcs, Kinds

LEMMA NoMemType ==
    /\ NoMem \in [selected : BOOLEAN, historyReady : BOOLEAN, manifestReady : BOOLEAN,
                  history : History, manifest : Manifest]
    /\ NoScan \in [active : BOOLEAN, seen : SUBSET Paths, overflowed : BOOLEAN]
  BY DEF NoMem, NoScan, NoRows, Manifest, Row, NoRow, Presence, History

LEMMA LedgerInitType == LedgerInit => WorkTypeOK
<1>1. NoRows \in Manifest /\ {} \in History
  BY DEF NoRows, Manifest, Row, History
<1> SUFFICES ASSUME LedgerInit PROVE WorkTypeOK
  OBVIOUS
<1>2. task \in [Tasks -> TaskState]
  BY RestingType DEF LedgerInit
<1>3. /\ mem = NoMem /\ scan = NoScan
      /\ files \in [Paths -> Digests \union {NoDigest}]
  BY DEF LedgerInit
<1>4. QED
  BY <1>1, <1>2, <1>3, NoMemType DEF LedgerInit, WorkTypeOK

\* The edits of a manifest give manifests.
LEMMA EditTypes ==
    ASSUME NEW m \in Manifest, NEW p \in Paths
    PROVE  /\ remove(m, p) \in Manifest
           /\ \A d \in Digests : upsert(m, p, d) \in Manifest
           /\ p \in Rows(m) => [m EXCEPT ![p].presence = "ABSENT"] \in Manifest
  BY DEF remove, upsert, Manifest, Row, NoRow, Presence, Rows

LEMMA ListedType ==
    ASSUME NEW m \in Manifest
    PROVE  Listed(m) \in Manifest
  BY DEF Listed, Manifest, Row, NoRow, Presence, Rows

\* What a task is besides its place in the code.
SameTask(t) ==
    /\ task'[t].kind = task[t].kind /\ task'[t].path = task[t].path
    /\ task'[t].digest = task[t].digest /\ task'[t].listed = task[t].listed
    /\ task'[t].versions = task[t].versions /\ task'[t].rows = task[t].rows

\* The other task did not move.
OnlyTask(t) == \A u \in Tasks : u # t => task'[u] = task[u]

\* The record of one task is replaced.
LEMMA PutTask ==
    ASSUME task \in [Tasks -> TaskState], NEW t \in Tasks, NEW r \in TaskState,
           task' = [task EXCEPT ![t] = r]
    PROVE  task' \in [Tasks -> TaskState] /\ task'[t] = r /\ OnlyTask(t)
  BY DEF OnlyTask

\* A task goes on in the code.
LEMMA GoesFacts ==
    ASSUME task \in [Tasks -> TaskState], NEW t \in Tasks, NEW here, NEW there \in Pcs,
           Goes(t, here, there)
    PROVE  /\ task' \in [Tasks -> TaskState] /\ OnlyTask(t) /\ SameTask(t)
           /\ task[t].pc = here /\ task'[t].pc = there
           /\ task'[t].attached = task[t].attached
<1> DEFINE r == [task[t] EXCEPT !.pc = there]
<1>1. r \in TaskState BY DEF TaskState
<1>2. task' = [task EXCEPT ![t] = r] /\ task[t].pc = here BY DEF Goes
<1>3. /\ r.pc = there /\ r.kind = task[t].kind /\ r.path = task[t].path
      /\ r.digest = task[t].digest /\ r.listed = task[t].listed
      /\ r.versions = task[t].versions /\ r.rows = task[t].rows
      /\ r.attached = task[t].attached
  BY DEF TaskState
<1> HIDE DEF r
<1>4. QED BY <1>1, <1>2, <1>3, PutTask DEF SameTask

\* A task's place and whether it must release are set.
LEMMA AttachFacts ==
    ASSUME task \in [Tasks -> TaskState], NEW t \in Tasks, NEW there \in Pcs,
           NEW a \in BOOLEAN, task' = [task EXCEPT ![t].pc = there, ![t].attached = a]
    PROVE  /\ task' \in [Tasks -> TaskState] /\ OnlyTask(t) /\ SameTask(t)
           /\ task'[t].pc = there /\ task'[t].attached = a
<1> DEFINE r == [task[t] EXCEPT !.pc = there, !.attached = a]
<1>1. r \in TaskState BY DEF TaskState
<1>2. task' = [task EXCEPT ![t] = r] OBVIOUS
<1>3. /\ r.pc = there /\ r.kind = task[t].kind /\ r.path = task[t].path
      /\ r.digest = task[t].digest /\ r.listed = task[t].listed
      /\ r.versions = task[t].versions /\ r.rows = task[t].rows
      /\ r.attached = a
  BY DEF TaskState
<1> HIDE DEF r
<1>4. QED BY <1>1, <1>2, <1>3, PutTask DEF SameTask

LEMMA GivesUpFacts ==
    ASSUME task \in [Tasks -> TaskState], NEW t \in Tasks, GivesUp(t)
    PROVE  /\ task' \in [Tasks -> TaskState] /\ OnlyTask(t) /\ SameTask(t)
           /\ task'[t].pc = "release" /\ task'[t].attached = FALSE
  BY AttachFacts DEF GivesUp, Pcs

\* A task starts.
LEMMA StartFacts ==
    ASSUME task \in [Tasks -> TaskState], NEW t \in Tasks, NEW kind \in Kinds,
           NEW p \in Paths, NEW pc \in Pcs, Start(t, kind, p, pc)
    PROVE  /\ task' \in [Tasks -> TaskState] /\ OnlyTask(t)
           /\ task'[t].pc = pc /\ task'[t].kind = kind /\ task'[t].path = p
           /\ task'[t].digest = NoDigest /\ task'[t].listed = {}
           /\ task'[t].attached = (pc = "select")
           /\ task'[t].versions = {} /\ task'[t].rows = NoRows
<1> DEFINE r == [Resting EXCEPT !.pc = pc, !.kind = kind, !.path = p, !.attached = pc = "select"]
<1>1. r \in TaskState BY RestingType DEF TaskState
<1>2. task' = [task EXCEPT ![t] = r] BY DEF Start
<1>3. /\ r.pc = pc /\ r.kind = kind /\ r.path = p /\ r.digest = NoDigest /\ r.listed = {}
      /\ r.attached = (pc = "select") /\ r.versions = {} /\ r.rows = NoRows
  BY RestingType DEF TaskState
<1> HIDE DEF r
<1>4. QED BY <1>1, <1>2, <1>3, PutTask

\* A download is over.
LEMMA BackFacts ==
    ASSUME task \in [Tasks -> TaskState], NEW there \in Pcs, SessionBack(there)
    PROVE  /\ task' \in [Tasks -> TaskState] /\ OnlyTask("transaction")
           /\ session'.pc = there /\ session'.kind = session.kind
           /\ session'.digest = NoDigest /\ session'.listed = session.listed
           /\ session'.attached = TRUE
           /\ session'.versions = {} /\ session'.rows = NoRows
<1> DEFINE r == [Resting EXCEPT !.pc = there, !.kind = session.kind,
                                !.listed = session.listed, !.attached = TRUE]
<1>0. "transaction" \in Tasks /\ session \in TaskState BY DEF Tasks, session
<1>1. r \in TaskState BY <1>0, RestingType DEF TaskState
<1>2. task' = [task EXCEPT !["transaction"] = r] BY DEF SessionBack
<1>3. /\ r.pc = there /\ r.kind = session.kind /\ r.digest = NoDigest
      /\ r.listed = session.listed
      /\ r.attached = TRUE /\ r.versions = {} /\ r.rows = NoRows
  BY RestingType DEF TaskState
<1> HIDE DEF r
<1>4. QED BY <1>0, <1>1, <1>2, <1>3, PutTask DEF session

LEMMA BodyType == \A kind \in Kinds : Body(kind) \in Pcs
  BY DEF Body, Kinds, Pcs

\* The fields of the task that moves.
LEMMA TaskFields ==
    ASSUME WorkTypeOK, NEW t \in Tasks
    PROVE  /\ task[t].pc \in Pcs /\ task[t].kind \in Kinds /\ task[t].path \in Paths
           /\ task[t].digest \in Digests \union {NoDigest} /\ task[t].listed \subseteq Paths
           /\ task[t].attached \in BOOLEAN /\ task[t].versions \in History
           /\ task[t].rows \in Manifest /\ Body(task[t].kind) \in Pcs
           /\ Body(task[t].kind) =
                IF task[t].kind = "SYNC" THEN "scan_begin"
                ELSE IF task[t].kind = "IDENTITY" THEN "release"
                ELSE IF task[t].kind = "DELETE" THEN "mark" ELSE "forget"
<1>1. /\ task[t].pc \in Pcs /\ task[t].kind \in Kinds /\ task[t].path \in Paths
      /\ task[t].digest \in Digests \union {NoDigest} /\ task[t].listed \subseteq Paths
      /\ task[t].attached \in BOOLEAN /\ task[t].versions \in History
      /\ task[t].rows \in Manifest
  BY DEF WorkTypeOK, TaskState
<1>2. QED BY <1>1, BodyType DEF Body, Kinds

\* The sizes, catalogue by catalogue.
HistoryFits(h) == IsFiniteSet(h) /\ Cardinality(h) <= HISTORY_CAPACITY
ManifestFits(m) == Cardinality(Rows(m)) <= MANIFEST_CAPACITY

LEMMA SizesByParts ==
    /\ FiniteHistories /\ WithinCapacity
         <=> /\ HistoryFits(history) /\ HistoryFits(mem.history) /\ HistoryFits(session.versions)
             /\ ManifestFits(manifest) /\ ManifestFits(mem.manifest)
             /\ ManifestFits(session.rows)
    /\ (FiniteHistories /\ WithinCapacity)'
         <=> /\ HistoryFits(history') /\ HistoryFits(mem'.history)
             /\ HistoryFits(session'.versions)
             /\ ManifestFits(manifest') /\ ManifestFits(mem'.manifest)
             /\ ManifestFits(session'.rows)
  BY DEF FiniteHistories, WithinCapacity, HistoryFits, ManifestFits, session, Rows

LEMMA EmptyFits == HistoryFits({}) /\ ManifestFits(NoRows)
<1>1. Rows(NoRows) = {} BY DEF Rows, NoRows, NoRow
<1>2. QED BY <1>1, FS_EmptySet DEF HistoryFits, ManifestFits

\* attach
LEMMA AttachKeeps ==
    ASSUME LedgerIInv, NEW t \in Tasks, attach(t)
    PROVE  LedgerIInv'
<1> USE DEF LedgerIInv
<1>1. UNCHANGED <<files, objects, history, manifest, mem, writer, scan>>
  BY DEF attach, card
<1>2. /\ task' \in [Tasks -> TaskState] /\ OnlyTask(t) /\ SameTask(t)
      /\ task[t].pc = "attach"
      /\ \/ task'[t].pc = "select" /\ task'[t].attached = TRUE
         \/ mem.selected /\ mem.manifestReady /\ task'[t].pc \in {"mark", "forget", "scan_begin", "release"}
         \/ task'[t].pc = "release" /\ task'[t].attached = FALSE
  <2>1. task \in [Tasks -> TaskState] /\ task[t].pc = "attach" BY DEF attach, WorkTypeOK
  <2>2. CASE ~mem.selected /\ task' = [task EXCEPT ![t].pc = "select", ![t].attached = TRUE]
    BY <2>1, <2>2, AttachFacts DEF Pcs
  <2>3. CASE mem.selected /\ mem.manifestReady /\ Goes(t, "attach", Body(task[t].kind))
    BY <2>1, <2>3, TaskFields, GoesFacts
  <2>4. CASE GivesUp(t)
    BY <2>1, <2>4, GivesUpFacts
  <2>5. QED BY <2>2, <2>3, <2>4 DEF attach
<1>3. task[Other(t)].pc = "idle" /\ Other(t) \in Tasks /\ Other(t) # t
  BY <1>2 DEF OneAtATime, Other, Tasks
<1>4. ~mem.selected /\ ~mem.historyReady /\ ~mem.manifestReady
  BY <1>2, <1>3 DEF MemHeld, Other, Tasks
<1>5. WorkTypeOK' BY <1>1, <1>2 DEF WorkTypeOK
<1>6. OneAtATime' /\ KindsFit'
  BY <1>2, <1>3, <1>4 DEF OneAtATime, KindsFit, OnlyTask, SameTask, Other, Tasks, SessionPcs, CommitPcs
<1>7. MemHeld' /\ MemInStep'
  BY <1>1, <1>2, <1>3, <1>4 DEF MemHeld, MemInStep, OpenPcs, SessionPcs, CommitPcs, OnlyTask, Other, Tasks
<1>8. Backed(manifest)' /\ Backed(mem.manifest)'
  BY <1>1 DEF Backed, Rows
<1>9. CommitInOrder' /\ ListingTrue'
  BY <1>1, <1>2, <1>3, <1>4 DEF CommitInOrder, ListingTrue, session, OnlyTask, SameTask, SelectPcs, SessionPcs,
                             CommitPcs, Tasks, Other
<1>10. FiniteHistories' /\ WithinCapacity'
  BY <1>1, <1>2, SizesByParts DEF session, OnlyTask, SameTask, Tasks
<1>11. QED BY <1>5, <1>6, <1>7, <1>8, <1>9, <1>10

\* A task that is not at rest has the storage to itself.
LEMMA AloneFacts ==
    ASSUME OneAtATime, NEW t \in Tasks, task[t].pc # "idle"
    PROVE  /\ Other(t) \in Tasks /\ Other(t) # t /\ task[Other(t)].pc = "idle"
           /\ \A u \in Tasks : u # t => task[u].pc = "idle"
           /\ \A u \in Tasks : u = t \/ u = Other(t)
  BY DEF OneAtATime, Other, Tasks

\* What nobody holds open is closed.
LEMMA ClosedAtRest ==
    ASSUME MemHeld, \A t \in Tasks : task[t].pc = "idle"
    PROVE  ~mem.selected /\ ~mem.historyReady /\ ~mem.manifestReady
  BY DEF MemHeld

\* A task starts while the other one rests.
LEMMA StartKeeps ==
    ASSUME ~Overlapping', LedgerIInv, NEW t \in Tasks, MayStart(t),
           NEW kind \in Kinds, NEW p \in Paths, NEW pc \in {"attach", "select"},
           Start(t, kind, p, pc), UNCHANGED <<objects, history, manifest, mem, writer, scan>>,
           files' \in [Paths -> Digests \union {NoDigest}],
           t = "portal" => kind = "FORGET",
           pc = "attach" => kind \in {"DELETE", "FORGET"},
           kind = "DELETE" => files'[p] = NoDigest
    PROVE  LedgerIInv'
<1> USE DEF LedgerIInv
<1>2. /\ task' \in [Tasks -> TaskState] /\ OnlyTask(t)
      /\ task'[t].pc = pc /\ task'[t].kind = kind /\ task'[t].path = p
      /\ task'[t].digest = NoDigest /\ task'[t].listed = {}
      /\ task'[t].attached = (pc = "select")
      /\ task'[t].versions = {} /\ task'[t].rows = NoRows
  BY StartFacts DEF WorkTypeOK, Pcs
<1>3. \A u \in Tasks : task[u].pc = "idle"
  BY <1>2 DEF MayStart, Overlapping, OnlyTask, Tasks
<1>4. ~mem.selected /\ ~mem.historyReady /\ ~mem.manifestReady
  BY <1>3, ClosedAtRest
<1>5. WorkTypeOK' BY <1>2 DEF WorkTypeOK
<1>6. OneAtATime' /\ KindsFit'
  BY <1>2, <1>3 DEF OneAtATime, KindsFit, OnlyTask, Other, Tasks, SessionPcs, CommitPcs
<1>7. MemHeld' /\ MemInStep'
  BY <1>2, <1>3, <1>4 DEF MemHeld, MemInStep, OpenPcs, SessionPcs, CommitPcs, OnlyTask, Tasks
<1>8. Backed(manifest)' /\ Backed(mem.manifest)'
  BY DEF Backed, Rows
<1>9. CommitInOrder' /\ ListingTrue'
  BY <1>2, <1>3 DEF CommitInOrder, ListingTrue, session, OnlyTask, SelectPcs, SessionPcs, CommitPcs, Tasks
<1>10. FiniteHistories' /\ WithinCapacity'
  BY <1>2, SizesByParts, EmptyFits DEF session, OnlyTask, Tasks
<1>11. QED BY <1>5, <1>6, <1>7, <1>8, <1>9, <1>10

\* The outside, the starts and the power cut.
LEMMA OutsideKeeps ==
    ASSUME ~Overlapping', LedgerIInv,
           \/ device_changes
           \/ \E kind \in {"SYNC", "IDENTITY"} : session_begins(kind)
           \/ \E p \in Paths : delete_confirmed(p) \/ portal_forgets(p)
           \/ power_cut
           \/ UNCHANGED workVars
    PROVE  LedgerIInv'
<1>1. CASE device_changes
  <2> USE <1>1 DEF LedgerIInv
  <2>1. /\ UNCHANGED <<objects, history, manifest, mem, writer, scan, task>>
        /\ files' \in [Paths -> Digests \union {NoDigest}]
        /\ session.pc = "idle"
    BY DEF device_changes, card, WorkTypeOK, session
  <2>2. WorkTypeOK' BY <2>1 DEF WorkTypeOK
  <2>3. OneAtATime' /\ KindsFit' BY <2>1 DEF OneAtATime, KindsFit
  <2>4. MemHeld' /\ MemInStep' BY <2>1 DEF MemHeld, MemInStep
  <2>5. Backed(manifest)' /\ Backed(mem.manifest)' BY <2>1 DEF Backed, Rows
  <2>6. CommitInOrder' /\ ListingTrue'
    BY <2>1 DEF CommitInOrder, ListingTrue, session, SelectPcs, SessionPcs, CommitPcs
  <2>7. FiniteHistories' /\ WithinCapacity' BY <2>1, SizesByParts DEF session
  <2>8. QED BY <2>2, <2>3, <2>4, <2>5, <2>6, <2>7
<1>2. ASSUME NEW kind \in {"SYNC", "IDENTITY"}, session_begins(kind) PROVE LedgerIInv'
  BY <1>2, StartKeeps, RestingType
     DEF session_begins, card, Tasks, Kinds, LedgerIInv, WorkTypeOK
<1>3. ASSUME NEW p \in Paths, delete_confirmed(p) PROVE LedgerIInv'
  <2>1. files' \in [Paths -> Digests \union {NoDigest}] /\ files'[p] = NoDigest
    BY <1>3 DEF delete_confirmed, LedgerIInv, WorkTypeOK
  <2>2. QED BY <1>3, <2>1, StartKeeps DEF delete_confirmed, card, Tasks, Kinds
<1>4. ASSUME NEW p \in Paths, portal_forgets(p) PROVE LedgerIInv'
  BY <1>4, StartKeeps DEF portal_forgets, card, Tasks, Kinds, LedgerIInv, WorkTypeOK
<1>5. CASE power_cut
  <2> USE <1>5 DEF LedgerIInv
  <2>1. /\ UNCHANGED <<files, objects, history, manifest>>
        /\ mem' = NoMem /\ writer' = FALSE /\ scan' = NoScan
        /\ task' \in [Tasks -> TaskState]
        /\ \A t \in Tasks : task'[t] = Resting
        /\ session' = Resting
    BY RestingType DEF power_cut, card, session, Tasks
  <2>2. WorkTypeOK' BY <2>1, NoMemType DEF WorkTypeOK
  <2>3. OneAtATime' /\ KindsFit'
    BY <2>1, RestingType DEF OneAtATime, KindsFit, Other, Tasks, SessionPcs, CommitPcs
  <2>4. MemHeld' /\ MemInStep'
    BY <2>1, RestingType DEF MemHeld, MemInStep, NoMem, OpenPcs, SessionPcs, CommitPcs
  <2>5. Backed(manifest)' /\ Backed(mem.manifest)'
    BY <2>1 DEF Backed, Rows, NoMem, NoRows, NoRow
  <2>6. CommitInOrder' /\ ListingTrue'
    BY <2>1, RestingType DEF CommitInOrder, ListingTrue, NoScan, SelectPcs, SessionPcs, CommitPcs
  <2>7. FiniteHistories' /\ WithinCapacity'
    BY <2>1, SizesByParts, EmptyFits, RestingType DEF NoMem
  <2>8. QED BY <2>2, <2>3, <2>4, <2>5, <2>6, <2>7
<1>6. CASE UNCHANGED workVars
  BY <1>6 DEF workVars, LedgerIInv, WorkTypeOK, OneAtATime, KindsFit, MemHeld, MemInStep,
              Backed, Rows, CommitInOrder, ListingTrue, FiniteHistories, WithinCapacity, session
<1>7. QED BY <1>1, <1>2, <1>3, <1>4, <1>5, <1>6

\* What the edits of a manifest do to its rows.
LEMMA RemoveRows ==
    ASSUME NEW m \in Manifest, NEW p \in Paths
    PROVE  /\ Rows(remove(m, p)) = Rows(m) \ {p}
           /\ \A q \in Rows(m) \ {p} : remove(m, p)[q] = m[q]
<1>1. \A q \in Paths : remove(m, p)[q] = IF q = p THEN NoRow ELSE m[q]
  BY DEF remove, Manifest
<1>2. QED BY <1>1 DEF Rows, NoRow

LEMMA UpsertRows ==
    ASSUME NEW m \in Manifest, NEW p \in Paths, NEW d \in Digests
    PROVE  /\ Rows(upsert(m, p, d)) = Rows(m) \union {p}
           /\ upsert(m, p, d)[p].digest = d
           /\ upsert(m, p, d)[p].presence = m[p].presence
           /\ \A q \in Paths \ {p} : upsert(m, p, d)[q] = m[q]
<1> DEFINE n == upsert(m, p, d)
           r == [m[p] EXCEPT !.digest = d]
<1>1. m[p] \in Row BY DEF Manifest
<1>2. r.digest = d /\ r.presence = m[p].presence BY <1>1 DEF Row, NoRow
<1>3. n[p] = r /\ \A q \in Paths \ {p} : n[q] = m[q]
  BY DEF upsert, Manifest
<1>4. d # NoDigest BY DigestAssumption
<1> HIDE DEF n, r
<1>5. Rows(n) = Rows(m) \union {p} BY <1>2, <1>3, <1>4 DEF Rows
<1>6. QED BY <1>2, <1>3, <1>5 DEF n

LEMMA MarkRows ==
    ASSUME NEW m \in Manifest, NEW p \in Paths
    PROVE  LET a == [m EXCEPT ![p].presence = "ABSENT"]
           IN  /\ Rows(a) = Rows(m)
               /\ \A q \in Paths : a[q].digest = m[q].digest
               /\ \A q \in Paths \ {p} : a[q] = m[q]
<1>1. \A q \in Paths : m[q] \in Row BY DEF Manifest
<1>2. \A q \in Paths : [m EXCEPT ![p].presence = "ABSENT"][q] =
                           IF q = p THEN [m[p] EXCEPT !.presence = "ABSENT"] ELSE m[q]
  BY DEF Manifest
<1>3. QED BY <1>1, <1>2 DEF Rows, Row, NoRow

LEMMA ListedRows ==
    ASSUME NEW m \in Manifest
    PROVE  /\ Rows(Listed(m)) = Rows(m)
           /\ \A q \in Paths : Listed(m)[q].digest = m[q].digest
           /\ \A q \in Rows(m) : Listed(m)[q].presence =
                                   IF q \in scan.seen THEN "ON_DEVICE" ELSE "ABSENT"
  BY DEF Listed, Rows, Row, NoRow, Manifest

\* The edits that add no row fit where the manifest did.
LEMMA RowsFit ==
    ASSUME NEW m \in Manifest, NEW n \in Manifest, Rows(n) \subseteq Rows(m), ManifestFits(m)
    PROVE  ManifestFits(n)
<1>1. IsFiniteSet(Rows(m)) BY PathAssumption, FS_Subset DEF Rows
<1>2. /\ IsFiniteSet(Rows(n)) /\ Cardinality(Rows(n)) <= Cardinality(Rows(m))
  BY <1>1, FS_Subset
<1>3. Cardinality(Rows(m)) \in Nat /\ Cardinality(Rows(n)) \in Nat
  BY <1>1, <1>2, FS_CardinalityType
<1>4. QED BY <1>2, <1>3, CapacityAssumption DEF ManifestFits

\* And one more row fits where there is room for it.
LEMMA UpsertFits ==
    ASSUME NEW m \in Manifest, NEW p \in Paths, NEW d \in Digests,
           upsert_fits(m, p), ManifestFits(m)
    PROVE  ManifestFits(upsert(m, p, d))
<1>1. Rows(upsert(m, p, d)) = Rows(m) \union {p} BY UpsertRows
<1>2. IsFiniteSet(Rows(m)) BY PathAssumption, FS_Subset DEF Rows
<1>3. CASE p \in Rows(m)
  <2>1. Rows(m) \union {p} = Rows(m) BY <1>3
  <2>2. QED BY <1>1, <2>1 DEF ManifestFits
<1>4. CASE p \notin Rows(m)
  <2>1. Cardinality(Rows(m) \union {p}) = Cardinality(Rows(m)) + 1
    BY <1>2, <1>4, FS_AddElement
  <2>2. Cardinality(Rows(m)) < MANIFEST_CAPACITY BY <1>4 DEF upsert_fits
  <2>3. Cardinality(Rows(m)) \in Nat BY <1>2, FS_CardinalityType
  <2>4. QED BY <1>1, <2>1, <2>2, <2>3, CapacityAssumption DEF ManifestFits
<1>5. QED BY <1>3, <1>4

\* One more version fits where there is room for it.
LEMMA RecordFits ==
    ASSUME NEW h, NEW v, record_fits(h, v), HistoryFits(h)
    PROVE  HistoryFits(h \union {v})
<1>1. CASE v \in h
  <2>1. h \union {v} = h BY <1>1
  <2>2. QED BY <2>1
<1>2. CASE v \notin h
  <2>1. IsFiniteSet(h \union {v}) /\ Cardinality(h \union {v}) = Cardinality(h) + 1
    BY <1>2, FS_AddElement DEF HistoryFits
  <2>2. Cardinality(h) < HISTORY_CAPACITY BY <1>2 DEF record_fits
  <2>3. Cardinality(h) \in Nat BY FS_CardinalityType DEF HistoryFits
  <2>4. QED BY <2>1, <2>2, <2>3, CapacityAssumption DEF HistoryFits
<1>3. QED BY <1>1, <1>2

\* The selection, step by step.
LEMMA SelectKeeps ==
    ASSUME LedgerIInv, NEW t \in Tasks,
           \/ select_device(t) \/ history_init(t) \/ load_history(t) \/ load_init(t)
           \/ load_manifest(t)
           \/ select_fails(t)
    PROVE  LedgerIInv'
<1> USE DEF LedgerIInv
<1> DEFINE shut == [mem EXCEPT !.selected = FALSE, !.historyReady = FALSE, !.manifestReady = FALSE]
<1>1. UNCHANGED <<files, objects, history, manifest, scan>> /\ writer' \in BOOLEAN
  BY DEF select_device, history_init, load_history, load_init, load_manifest, select_fails, card, WorkTypeOK
<1>2. task[t].pc \in SelectPcs \ {"attach"}
  BY DEF select_device, history_init, load_history, load_init, load_manifest, select_fails, Goes, SelectPcs
<1>3. Other(t) \in Tasks /\ \A u \in Tasks : u # t => task[u].pc = "idle"
  BY <1>2, AloneFacts DEF SelectPcs
<1>4. /\ task' \in [Tasks -> TaskState] /\ OnlyTask(t) /\ SameTask(t)
      /\ \/ /\ task[t].pc = "select" /\ task'[t].pc = "history_init"
            /\ task'[t].attached = task[t].attached /\ mem' = shut
         \/ /\ task[t].pc = "history_init" /\ task'[t].pc = "load_history"
            /\ task'[t].attached = task[t].attached
            /\ mem' = [mem EXCEPT !.selected = TRUE, !.history = {}, !.historyReady = FALSE]
         \/ /\ task[t].pc = "load_history" /\ task'[t].pc = "load_init"
            /\ task'[t].attached = task[t].attached
            /\ mem' = [mem EXCEPT !.history = history, !.historyReady = TRUE]
         \/ /\ task[t].pc = "load_init" /\ task'[t].pc = "load_manifest"
            /\ task'[t].attached = task[t].attached
            /\ mem' = [mem EXCEPT !.manifest = NoRows, !.manifestReady = FALSE]
         \/ /\ task[t].pc = "load_manifest" /\ task'[t].pc = Body(task[t].kind)
            /\ task'[t].attached = task[t].attached
            /\ mem' = [mem EXCEPT !.manifest = manifest, !.manifestReady = TRUE]
         \/ /\ task[t].pc \in {"history_init", "load_history", "load_init", "load_manifest"}
            /\ mem' = shut
            /\ \/ task[t].kind \in {"SYNC", "IDENTITY"} /\ task'[t].pc = "scan_end"
                  /\ task'[t].attached = task[t].attached
               \/ task'[t].pc = "release" /\ task'[t].attached = FALSE
  <2>1. task \in [Tasks -> TaskState] BY DEF WorkTypeOK
  <2> HIDE DEF LedgerIInv
  <2>2. CASE select_device(t) BY <2>1, <2>2, GoesFacts DEF select_device, Pcs
  <2>8. CASE history_init(t) BY <2>1, <2>8, GoesFacts DEF history_init, Pcs
  <2>3. CASE load_history(t) BY <2>1, <2>3, GoesFacts DEF load_history, Pcs
  <2>4. CASE load_init(t) BY <2>1, <2>4, GoesFacts DEF load_init, Pcs
  <2>5. CASE load_manifest(t)
    BY <2>1, <2>5, GoesFacts, TaskFields DEF load_manifest, LedgerIInv
  <2>6. CASE select_fails(t)
    <3>1. CASE task[t].kind \in {"SYNC", "IDENTITY"} /\ Goes(t, task[t].pc, "scan_end")
      BY <2>1, <2>6, <3>1, GoesFacts DEF select_fails, Pcs
    <3>2. CASE GivesUp(t)
      BY <2>1, <2>6, <3>2, GivesUpFacts DEF select_fails
    <3>3. QED BY <2>6, <3>1, <3>2 DEF select_fails
  <2>7. QED BY <2>2, <2>3, <2>4, <2>5, <2>6, <2>8
<1>5. task[t].attached /\ (t = "portal" => task[t].kind = "FORGET")
      /\ task[t].kind \in Kinds
      /\ Body(task[t].kind) =
           IF task[t].kind = "SYNC" THEN "scan_begin"
           ELSE IF task[t].kind = "IDENTITY" THEN "release"
           ELSE IF task[t].kind = "DELETE" THEN "mark" ELSE "forget"
  BY <1>2, TaskFields DEF MemHeld, KindsFit, SelectPcs
<1>6. /\ mem'.history \in {mem.history, history, {}}
      /\ mem'.manifest \in {mem.manifest, manifest, NoRows}
      /\ WorkTypeOK'
  <2>1. NoRows \in Manifest /\ {} \in History BY EditTypes DEF NoRows, Manifest, Row, History
  <2>2. /\ mem' \in [selected : BOOLEAN, historyReady : BOOLEAN, manifestReady : BOOLEAN,
                     history : History, manifest : Manifest]
        /\ mem'.history \in {mem.history, history, {}}
        /\ mem'.manifest \in {mem.manifest, manifest, NoRows}
    BY <1>4, <2>1 DEF WorkTypeOK
  <2>3. QED BY <1>1, <1>4, <2>2 DEF WorkTypeOK
<1>14. /\ task'[t].kind = task[t].kind /\ session'.kind = session.kind
      /\ session'.listed = session.listed /\ session'.path = session.path
      /\ \/ task'[t].pc \in {"history_init", "load_history", "load_init", "load_manifest", "release"}
         \/ task'[t].pc = "scan_begin" /\ task[t].kind = "SYNC"
         \/ task'[t].pc = "mark" /\ task[t].kind = "DELETE"
         \/ task'[t].pc = "forget" /\ task[t].kind = "FORGET"
         \/ task'[t].pc = "scan_end" /\ task[t].kind \in {"SYNC", "IDENTITY"}
  BY <1>4, <1>5 DEF SameTask, Kinds, OnlyTask, session, Tasks
<1> DEFINE Held(m, u, here, a) ==
             /\ m.selected \/ m.historyReady \/ m.manifestReady
                   => a /\ here \notin {"idle", "attach", "select", "history_init"}
             /\ here = "load_history" => m.selected /\ ~m.manifestReady
             /\ here \in {"load_init", "load_manifest"} => m.selected /\ m.historyReady
             /\ here \in OpenPcs => m.selected /\ m.historyReady /\ m.manifestReady
             /\ here \notin {"idle", "attach", "release"} => a
<1>7. OneAtATime' /\ KindsFit'
  BY <1>3, <1>5, <1>14, <1>4
     DEF OneAtATime, KindsFit, OnlyTask, Other, Tasks, SessionPcs, CommitPcs
<1>8. MemHeld'
  <2>1. Held(mem, t, task[t].pc, task[t].attached) BY <1>3 DEF MemHeld
  <2>2. mem'.selected \in BOOLEAN /\ mem'.historyReady \in BOOLEAN /\ mem'.manifestReady \in BOOLEAN
    BY <1>6 DEF WorkTypeOK
  <2>3. Held(mem', t, task'[t].pc, task'[t].attached)
    <3>1. CASE /\ mem' = shut
               /\ \/ task'[t].pc \in {"history_init", "scan_end"}
                     /\ task'[t].attached = task[t].attached
                  \/ task'[t].pc = "release"
      <4>1. ~mem'.selected /\ ~mem'.historyReady /\ ~mem'.manifestReady
        BY <3>1 DEF WorkTypeOK
      <4>2. QED BY <1>5, <3>1, <4>1 DEF OpenPcs, SessionPcs, CommitPcs
    <3>6. CASE /\ task[t].pc = "history_init" /\ task'[t].pc = "load_history"
               /\ task'[t].attached = task[t].attached
               /\ mem' = [mem EXCEPT !.selected = TRUE, !.history = {}, !.historyReady = FALSE]
      <4>1. mem'.selected /\ ~mem'.historyReady /\ ~mem'.manifestReady
        BY <2>1, <3>6 DEF WorkTypeOK
      <4>2. QED BY <1>5, <3>6, <4>1 DEF OpenPcs, SessionPcs, CommitPcs
    <3>2. CASE /\ task[t].pc = "load_history" /\ task'[t].pc = "load_init"
               /\ task'[t].attached = task[t].attached
               /\ mem' = [mem EXCEPT !.history = history, !.historyReady = TRUE]
      <4>1. mem'.selected /\ mem'.historyReady BY <2>1, <3>2 DEF WorkTypeOK
      <4>2. QED BY <1>5, <3>2, <4>1 DEF OpenPcs, SessionPcs, CommitPcs
    <3>3. CASE /\ task[t].pc = "load_init" /\ task'[t].pc = "load_manifest"
               /\ task'[t].attached = task[t].attached
               /\ mem' = [mem EXCEPT !.manifest = NoRows, !.manifestReady = FALSE]
      <4>1. mem'.selected /\ mem'.historyReady BY <2>1, <3>3 DEF WorkTypeOK
      <4>2. QED BY <1>5, <3>3, <4>1 DEF OpenPcs, SessionPcs, CommitPcs
    <3>4. CASE /\ task[t].pc = "load_manifest" /\ task'[t].pc = Body(task[t].kind)
               /\ task'[t].attached = task[t].attached
               /\ mem' = [mem EXCEPT !.manifest = manifest, !.manifestReady = TRUE]
      <4>1. mem'.selected /\ mem'.historyReady /\ mem'.manifestReady
        BY <2>1, <3>4 DEF WorkTypeOK
      <4>2. task'[t].pc \notin {"idle", "attach", "select", "history_init", "load_history"} BY <1>5, <3>4
      <4>3. QED BY <1>5, <3>4, <4>1, <4>2
    <3>5. QED BY <1>4, <3>1, <3>2, <3>3, <3>4, <3>6
  <2>4. \A u \in Tasks : u # t => task'[u].pc = "idle" BY <1>3, <1>4 DEF OnlyTask
  <2>5. QED BY <2>3, <2>4 DEF MemHeld, OpenPcs, SessionPcs, CommitPcs
<1>9. MemInStep'
  <2>1. \A u \in Tasks : u # t => task'[u].pc = "idle" BY <1>3, <1>4 DEF OnlyTask
  <2>2. task'[t].pc # "forget_save" BY <1>4, <1>5
  <2>3. mem'.historyReady => mem'.history = history
    BY <1>4, <1>3 DEF MemInStep, WorkTypeOK
  <2>4. mem'.manifestReady /\ task'[t].pc # "idle" => mem'.manifest = manifest
    <3>1. task[t].pc \in {"history_init", "load_history"} => ~mem.manifestReady
      BY <1>3 DEF MemHeld
    <3>2. \/ ~mem'.manifestReady
          \/ task[t].pc \in {"history_init", "load_history"} /\ mem'.manifestReady = mem.manifestReady
          \/ mem'.manifest = manifest
      BY <1>4 DEF WorkTypeOK
    <3>3. QED BY <1>1, <3>1, <3>2
  <2>5. QED
    BY <1>1, <2>1, <2>2, <2>3, <2>4 DEF MemInStep, OpenPcs, SessionPcs, CommitPcs
<1>10. Backed(manifest)' /\ Backed(mem.manifest)'
  BY <1>1, <1>6 DEF Backed, Rows, NoRows, NoRow
<1>11. CommitInOrder' /\ ListingTrue'
  <2>1. CASE t = "transaction"
    BY <1>1, <1>2, <1>14, <2>1
       DEF CommitInOrder, ListingTrue, session, SelectPcs, SessionPcs, CommitPcs
  <2>2. CASE t # "transaction"
    <3>1. session' = session BY <1>4, <2>2 DEF OnlyTask, session, Tasks
    <3>2. session.pc = "idle" BY <1>3, <2>2 DEF session, Tasks
    <3>3. QED
      BY <1>1, <3>1, <3>2 DEF CommitInOrder, ListingTrue, SelectPcs, SessionPcs, CommitPcs
  <2>3. QED BY <2>1, <2>2
<1>12. FiniteHistories' /\ WithinCapacity'
  BY <1>1, <1>4, <1>6, SizesByParts, EmptyFits DEF session, OnlyTask, SameTask, Tasks
<1>13. QED BY <1>6, <1>7, <1>8, <1>9, <1>10, <1>11, <1>12

\* The release.
LEMMA ReleaseKeeps ==
    ASSUME LedgerIInv, NEW t \in Tasks, release_device(t)
    PROVE  LedgerIInv'
<1> USE DEF LedgerIInv
<1>1. UNCHANGED <<files, objects, history, manifest, scan>> /\ task[t].pc = "release"
  BY DEF release_device, card
<1>2. Other(t) \in Tasks /\ \A u \in Tasks : u # t => task[u].pc = "idle"
  BY <1>1, AloneFacts
<1>3. /\ task' \in [Tasks -> TaskState] /\ OnlyTask(t)
      /\ \/ task'[t].pc = "idle"
         \/ /\ task[t].kind = "DELETE" /\ task'[t].pc = "attach" /\ task'[t].kind = "FORGET"
      /\ task'[t].digest = NoDigest /\ task'[t].listed = {}
      /\ task'[t].versions = {} /\ task'[t].rows = NoRows
  <2>1. task \in [Tasks -> TaskState] BY DEF WorkTypeOK
  <2>2. CASE task' = [task EXCEPT ![t] = Resting]
    BY <2>1, <2>2, PutTask, RestingType
  <2>3. CASE task[t].kind = "DELETE" /\ Start(t, "FORGET", task[t].path, "attach")
    <3>1. task[t].path \in Paths BY <2>1, TaskFields
    <3>2. "FORGET" \in Kinds /\ "attach" \in Pcs BY DEF Kinds, Pcs
    <3>3. QED BY <2>1, <2>3, <3>1, <3>2, StartFacts
  <2>4. QED BY <2>2, <2>3 DEF release_device
<1>4. /\ mem' \in {mem, NoMem} /\ writer' \in BOOLEAN
      /\ ~mem'.selected /\ ~mem'.historyReady /\ ~mem'.manifestReady
  <2>1. CASE task[t].attached 
    <3>1. mem' = NoMem /\ writer' = FALSE BY <2>1 DEF release_device
    <3>2. ~NoMem.selected /\ ~NoMem.historyReady /\ ~NoMem.manifestReady BY DEF NoMem
    <3>3. QED BY <3>1, <3>2
  <2>2. CASE ~task[t].attached
    <3>1. ~mem.selected /\ ~mem.historyReady /\ ~mem.manifestReady
      BY <1>2, <2>2 DEF MemHeld
    <3>2. QED BY <2>2, <3>1 DEF release_device, WorkTypeOK
  <2>3. QED BY <2>1, <2>2
<1>5. WorkTypeOK' BY <1>1, <1>3, <1>4, NoMemType DEF WorkTypeOK
<1>6. OneAtATime' /\ KindsFit'
  BY <1>1, <1>2, <1>3
     DEF OneAtATime, KindsFit, OnlyTask, Other, Tasks, SessionPcs, CommitPcs
<1>7. MemHeld' /\ MemInStep'
  BY <1>2, <1>3, <1>4 DEF MemHeld, MemInStep, OpenPcs, SessionPcs, CommitPcs, OnlyTask
<1>8. Backed(manifest)' /\ Backed(mem.manifest)'
  BY <1>1, <1>4 DEF Backed, Rows, NoMem, NoRows, NoRow
<1>9. CommitInOrder' /\ ListingTrue'
  BY <1>1, <1>2, <1>3
     DEF CommitInOrder, ListingTrue, session, OnlyTask, SelectPcs, SessionPcs, CommitPcs, Tasks
<1>10. FiniteHistories' /\ WithinCapacity'
  <2>1. mem'.history \in {mem.history, {}} /\ mem'.manifest \in {mem.manifest, NoRows}
    BY <1>4 DEF NoMem
  <2>2. session'.versions \in {session.versions, {}} /\ session'.rows \in {session.rows, NoRows}
    BY <1>3 DEF session, OnlyTask, Tasks
  <2>3. QED BY <1>1, <2>1, <2>2, SizesByParts, EmptyFits
<1>11. QED BY <1>5, <1>6, <1>7, <1>8, <1>9, <1>10

\* The transaction task holds no download while a task marks or forgets.
LEMMA EditsKeepSession ==
    ASSUME LedgerIInv, NEW t \in Tasks,
           task[t].pc \in {"mark", "forget", "forget_save", "forget_unlink"},
           task' \in [Tasks -> TaskState], OnlyTask(t),
           task'[t].pc \in {"forget_save", "forget_unlink", "release"},
           task'[t].pc # "release" => task[t].kind = "FORGET",
           task'[t].kind = task[t].kind, task'[t].path = task[t].path,
           task'[t].listed = task[t].listed, task'[t].versions = task[t].versions,
           task'[t].rows = task[t].rows, task'[t].attached = task[t].attached,
           UNCHANGED <<files, history, writer, scan>>
    PROVE  /\ OneAtATime' /\ KindsFit' /\ CommitInOrder' /\ ListingTrue'
           /\ session'.versions = session.versions /\ session'.rows = session.rows
           /\ task[t].attached /\ \A u \in Tasks : u # t => task[u].pc = "idle"
<1> USE DEF LedgerIInv
<1>1. Other(t) \in Tasks /\ \A u \in Tasks : u # t => task[u].pc = "idle"
  BY AloneFacts
<1>2. OneAtATime' BY <1>1 DEF OneAtATime, OnlyTask, Other, Tasks
<1>3. KindsFit' BY <1>1 DEF KindsFit, OnlyTask, Tasks, SessionPcs, CommitPcs
<1>4. session'.versions = session.versions /\ session'.rows = session.rows
  BY DEF session, OnlyTask, Tasks
<1>5. CommitInOrder' /\ ListingTrue'
  <2>1. CASE t = "transaction"
    BY <2>1 DEF CommitInOrder, ListingTrue, session, SelectPcs, SessionPcs, CommitPcs
  <2>2. CASE t # "transaction"
    <3>1. session' = session BY <2>2 DEF OnlyTask, session, Tasks
    <3>2. session.pc = "idle" BY <1>1, <2>2 DEF session, Tasks
    <3>3. QED
      BY <3>1, <3>2 DEF CommitInOrder, ListingTrue, SelectPcs, SessionPcs, CommitPcs
  <2>3. QED BY <2>1, <2>2
<1>6. task[t].attached BY DEF MemHeld
<1>7. QED BY <1>1, <1>2, <1>3, <1>4, <1>5, <1>6

\* The mark of a file that was deleted.
LEMMA MarkKeeps ==
    ASSUME LedgerIInv, NEW t \in Tasks, NEW ok \in BOOLEAN, mark_absent(t, ok)
    PROVE  LedgerIInv'
<1> USE DEF LedgerIInv
<1> DEFINE p == task[t].path
           n == [mem.manifest EXCEPT ![p].presence = "ABSENT"]
<1>1. /\ task \in [Tasks -> TaskState] /\ mem.manifest \in Manifest /\ p \in Paths
      /\ UNCHANGED <<files, objects, history, writer, scan>>
      /\ task[t].pc = "mark" /\ Goes(t, "mark", "release")
  BY TaskFields DEF mark_absent, Goes, WorkTypeOK
<1>2. /\ task' \in [Tasks -> TaskState] /\ OnlyTask(t) /\ SameTask(t)
      /\ task'[t].pc = "release" /\ task'[t].attached = task[t].attached
  BY <1>1, GoesFacts DEF Pcs
<1>3. /\ OneAtATime' /\ KindsFit' /\ CommitInOrder' /\ ListingTrue'
      /\ session'.versions = session.versions /\ session'.rows = session.rows
      /\ task[t].attached /\ \A u \in Tasks : u # t => task[u].pc = "idle"
  BY <1>1, <1>2, EditsKeepSession DEF SameTask
<1>4. /\ mem' \in {mem, [mem EXCEPT !.manifest = n]}
      /\ p \in Rows(mem.manifest) \/ mem' = mem
      /\ manifest' \in {manifest, mem'.manifest}
  BY DEF mark_absent
<1>5. /\ mem'.manifest \in {mem.manifest, n} /\ mem'.history = mem.history
      /\ mem'.selected = mem.selected /\ mem'.historyReady = mem.historyReady
      /\ mem'.manifestReady = mem.manifestReady
      /\ manifest' \in {manifest, mem.manifest, n}
      /\ p \notin Rows(mem.manifest) => mem' = mem
  BY <1>4 DEF WorkTypeOK
<1>6. /\ Rows(n) = Rows(mem.manifest)
      /\ \A q \in Paths : n[q].digest = mem.manifest[q].digest
  BY <1>1, MarkRows
<1>7. WorkTypeOK'
  <2>1. p \in Rows(mem.manifest) => n \in Manifest BY <1>1, EditTypes
  <2>2. mem' \in [selected : BOOLEAN, historyReady : BOOLEAN, manifestReady : BOOLEAN,
                  history : History, manifest : Manifest]
    <3>1. CASE p \in Rows(mem.manifest) BY <1>4, <2>1, <3>1 DEF WorkTypeOK
    <3>2. CASE p \notin Rows(mem.manifest) BY <1>5, <3>2 DEF WorkTypeOK
    <3>3. QED BY <3>1, <3>2
  <2>3. mem'.manifest \in Manifest BY <2>2
  <2>4. QED BY <1>1, <1>2, <1>4, <2>2, <2>3 DEF WorkTypeOK
<1>8. MemHeld' /\ MemInStep'
  BY <1>1, <1>2, <1>3, <1>5
     DEF MemHeld, MemInStep, OpenPcs, SessionPcs, CommitPcs, OnlyTask
<1>9. Backed(manifest)' /\ Backed(mem.manifest)'
  <2>1. \A m \in {mem.manifest, n, manifest} :
           \A q \in Rows(m) : m[q].digest \in objects /\ <<q, m[q].digest>> \in history
    BY <1>6 DEF Backed, Rows
  <2>2. QED BY <1>1, <1>5, <2>1 DEF Backed
<1>10. FiniteHistories' /\ WithinCapacity'
  <2>1. ManifestFits(n) <=> ManifestFits(mem.manifest) BY <1>6 DEF ManifestFits
  <2>2. QED BY <1>1, <1>3, <1>5, <2>1, SizesByParts
<1>11. QED BY <1>3, <1>7, <1>8, <1>9, <1>10

\* The row of a forgotten file goes from memory.
LEMMA RemoveKeeps ==
    ASSUME LedgerIInv, NEW t \in Tasks, forget_remove(t)
    PROVE  LedgerIInv'
<1> USE DEF LedgerIInv
<1> DEFINE p == task[t].path
           n == remove(mem.manifest, p)
           found == p \in Rows(mem.manifest)
<1>1. /\ task \in [Tasks -> TaskState] /\ mem.manifest \in Manifest /\ p \in Paths
      /\ UNCHANGED <<files, objects, history, manifest, writer, scan>>
      /\ task[t].pc = "forget"
  BY TaskFields DEF forget_remove, card, WorkTypeOK
<1>2. /\ task' \in [Tasks -> TaskState] /\ OnlyTask(t)
      /\ task'[t].pc = (IF found THEN "forget_save" ELSE "release")
      /\ task'[t].attached = task[t].attached
      /\ task'[t].kind = task[t].kind /\ task'[t].path = p
      /\ task'[t].listed = task[t].listed /\ task'[t].versions = task[t].versions
      /\ task'[t].rows = task[t].rows /\ task[t].kind = "FORGET"
      /\ task'[t].digest = mem.manifest[p].digest
  <2> DEFINE here == IF found THEN "forget_save" ELSE "release"
             r == [task[t] EXCEPT !.pc = here, !.digest = mem.manifest[p].digest]
  <2>1. here \in Pcs /\ mem.manifest[p].digest \in Digests \union {NoDigest}
    BY <1>1 DEF Pcs, Manifest, Row, NoRow
  <2>2. task' = [task EXCEPT ![t].pc = here, ![t].digest = mem.manifest[p].digest]
    BY DEF forget_remove
  <2> HIDE DEF here
  <2>3. task' = [task EXCEPT ![t] = r] BY <2>2
  <2>4. r \in TaskState BY <1>1, <2>1 DEF TaskState
  <2>5. /\ r.pc = here /\ r.kind = task[t].kind /\ r.path = task[t].path
        /\ r.listed = task[t].listed /\ r.versions = task[t].versions
        /\ r.rows = task[t].rows /\ r.attached = task[t].attached
        /\ r.digest = mem.manifest[p].digest
    BY <1>1 DEF TaskState
  <2>6. task[t].kind = "FORGET" BY <1>1 DEF KindsFit
  <2> HIDE DEF r
  <2>7. QED BY <1>1, <2>3, <2>4, <2>5, <2>6, PutTask DEF here
<1>3. /\ OneAtATime' /\ KindsFit' /\ CommitInOrder' /\ ListingTrue'
      /\ session'.versions = session.versions /\ session'.rows = session.rows
      /\ task[t].attached /\ \A u \in Tasks : u # t => task[u].pc = "idle"
  BY <1>1, <1>2, EditsKeepSession
<1>4. mem' = IF found THEN [mem EXCEPT !.manifest = n] ELSE mem
  BY DEF forget_remove
<1>5. /\ mem'.manifest = (IF found THEN n ELSE mem.manifest) /\ mem'.history = mem.history
      /\ mem'.selected = mem.selected /\ mem'.historyReady = mem.historyReady
      /\ mem'.manifestReady = mem.manifestReady
  BY <1>4 DEF WorkTypeOK
<1>6. /\ Rows(n) = Rows(mem.manifest) \ {p}
      /\ \A q \in Rows(n) : n[q] = mem.manifest[q]
      /\ n \in Manifest
  <2>1. n \in Manifest BY <1>1, EditTypes
  <2>2. /\ Rows(n) = Rows(mem.manifest) \ {p}
        /\ \A q \in Rows(mem.manifest) \ {p} : n[q] = mem.manifest[q]
    BY <1>1, RemoveRows
  <2> HIDE DEF n, p
  <2>3. QED BY <2>1, <2>2
<1>7. WorkTypeOK'
  <2>1. mem' \in [selected : BOOLEAN, historyReady : BOOLEAN, manifestReady : BOOLEAN,
                  history : History, manifest : Manifest]
    BY <1>4, <1>6 DEF WorkTypeOK
  <2>2. QED BY <1>1, <1>2, <2>1 DEF WorkTypeOK
<1>8. MemHeld'
  BY <1>1, <1>2, <1>3, <1>5 DEF MemHeld, OpenPcs, SessionPcs, CommitPcs, OnlyTask
<1>9. MemInStep'
  <2>1. mem.manifest = manifest
    BY <1>1 DEF MemHeld, MemInStep, OpenPcs
  <2>2. QED
    BY <1>1, <1>2, <1>3, <1>5, <2>1 DEF MemInStep, OpenPcs, SessionPcs, CommitPcs, OnlyTask
<1>10. Backed(manifest)' /\ Backed(mem.manifest)'
  <2>1. \A m \in {mem.manifest, n, manifest} :
           \A q \in Rows(m) : m[q].digest \in objects /\ <<q, m[q].digest>> \in history
    BY <1>6 DEF Backed
  <2>2. QED BY <1>1, <1>5, <2>1 DEF Backed
<1>11. FiniteHistories' /\ WithinCapacity'
  <2>1. ManifestFits(mem.manifest) BY SizesByParts
  <2>2. ManifestFits(n) BY <1>1, <1>6, <2>1, RowsFit
  <2>3. QED BY <1>1, <1>3, <1>5, <2>1, <2>2, SizesByParts
<1>12. QED BY <1>3, <1>7, <1>8, <1>9, <1>10, <1>11

\* The catalogue is saved without the row.
LEMMA ForgetSaveKeeps ==
    ASSUME LedgerIInv, NEW t \in Tasks, NEW ok \in BOOLEAN, forget_save(t, ok)
    PROVE  LedgerIInv'
<1> USE DEF LedgerIInv
<1>1. /\ task \in [Tasks -> TaskState]
      /\ UNCHANGED <<files, objects, history, mem, writer, scan>>
      /\ task[t].pc = "forget_save" /\ task[t].kind = "FORGET"
      /\ manifest' \in {manifest, mem.manifest}
      /\ ok => manifest' = mem.manifest
      /\ Goes(t, "forget_save", IF ok THEN "forget_unlink" ELSE "release")
  BY DEF forget_save, Goes, WorkTypeOK, KindsFit
<1>2. /\ task' \in [Tasks -> TaskState] /\ OnlyTask(t) /\ SameTask(t)
      /\ task'[t].pc = (IF ok THEN "forget_unlink" ELSE "release")
      /\ task'[t].attached = task[t].attached
  BY <1>1, GoesFacts DEF Pcs
<1>3. /\ OneAtATime' /\ KindsFit' /\ CommitInOrder' /\ ListingTrue'
      /\ session'.versions = session.versions /\ session'.rows = session.rows
      /\ task[t].attached /\ \A u \in Tasks : u # t => task[u].pc = "idle"
  BY <1>1, <1>2, EditsKeepSession DEF SameTask
<1>4. WorkTypeOK' BY <1>1, <1>2 DEF WorkTypeOK
<1>5. MemHeld' /\ MemInStep'
  BY <1>1, <1>2, <1>3 DEF MemHeld, MemInStep, OpenPcs, SessionPcs, CommitPcs, OnlyTask
<1>6. Backed(manifest)' /\ Backed(mem.manifest)' BY <1>1 DEF Backed
<1>7. FiniteHistories' /\ WithinCapacity' BY <1>1, <1>3, SizesByParts
<1>8. QED BY <1>3, <1>4, <1>5, <1>6, <1>7

\* The payload of a forgotten file goes, when no row names it any more.
LEMMA UnlinkKeeps ==
    ASSUME LedgerIInv, NEW t \in Tasks, NEW ok \in BOOLEAN, forget_unlink(t, ok)
    PROVE  LedgerIInv'
<1> USE DEF LedgerIInv
<1>1. /\ task \in [Tasks -> TaskState]
      /\ UNCHANGED <<files, history, manifest, mem, writer, scan>>
      /\ task[t].pc = "forget_unlink" /\ Goes(t, "forget_unlink", "release")
      /\ objects' \subseteq objects
  BY DEF forget_unlink, Goes, WorkTypeOK
<1>2. /\ task' \in [Tasks -> TaskState] /\ OnlyTask(t) /\ SameTask(t)
      /\ task'[t].pc = "release" /\ task'[t].attached = task[t].attached
  BY <1>1, GoesFacts DEF Pcs
<1>3. /\ OneAtATime' /\ KindsFit' /\ CommitInOrder' /\ ListingTrue'
      /\ session'.versions = session.versions /\ session'.rows = session.rows
      /\ task[t].attached /\ \A u \in Tasks : u # t => task[u].pc = "idle"
  BY <1>1, <1>2, EditsKeepSession DEF SameTask
<1>4. WorkTypeOK' BY <1>1, <1>2 DEF WorkTypeOK
<1>5. MemHeld' /\ MemInStep'
  BY <1>1, <1>2, <1>3 DEF MemHeld, MemInStep, OpenPcs, SessionPcs, CommitPcs, OnlyTask
<1>6. Backed(manifest)' /\ Backed(mem.manifest)'
  <2>1. mem.manifest = manifest BY <1>1 DEF MemHeld, MemInStep, OpenPcs
  <2>2. \A q \in Paths : manifest[q].digest \in objects /\ manifest[q].digest \notin objects'
                            => FALSE
    BY <2>1 DEF forget_unlink, digest_users
  <2>3. QED BY <1>1, <2>1, <2>2 DEF Backed, Rows
<1>7. FiniteHistories' /\ WithinCapacity' BY <1>1, <1>3, SizesByParts
<1>8. QED BY <1>3, <1>4, <1>5, <1>6, <1>7

LEMMA StorageKeeps ==
    ASSUME LedgerIInv, NEW t \in Tasks, Storage(t)
    PROVE  LedgerIInv'
  BY AttachKeeps, SelectKeeps, ReleaseKeeps, MarkKeeps, RemoveKeeps, ForgetSaveKeeps, UnlinkKeeps
     DEF Storage

\* What every step of a session keeps.
LEMMA SessionFrame ==
    ASSUME LedgerIInv, session.pc \in SessionPcs,
           task' \in [Tasks -> TaskState], OnlyTask("transaction"),
           session'.kind = session.kind, session'.attached \in {session.attached, TRUE},
           session'.pc \in (SessionPcs \ {"scan_begin"}) \union {"release"},
           mem'.selected = mem.selected, mem'.historyReady = mem.historyReady,
           mem'.manifestReady = mem.manifestReady,
           session'.pc \in OpenPcs => session.pc \in OpenPcs
    PROVE  OneAtATime' /\ KindsFit' /\ MemHeld'
<1> USE DEF LedgerIInv, session
<1>1. /\ "transaction" \in Tasks /\ "portal" \in Tasks
      /\ \A t \in Tasks : t = "transaction" \/ t = "portal"
      /\ Other("transaction") = "portal" /\ Other("portal") = "transaction"
  BY DEF Tasks, Other
<1>2. task["transaction"].pc \in SessionPcs \/ FALSE OBVIOUS
<1>3. task["transaction"].pc \notin {"idle", "attach", "release", "select", "history_init",
                                      "load_history", "load_init", "load_manifest"}
  BY <1>2 DEF SessionPcs, CommitPcs
<1>4. task["portal"].pc = "idle" BY <1>1, <1>3 DEF OneAtATime
<1>5. task'["portal"] = task["portal"] BY <1>1 DEF OnlyTask
<1>6. task["transaction"].attached /\ task'["transaction"].attached
  BY <1>1, <1>3 DEF MemHeld
<1>7. task'["transaction"].pc \notin {"idle", "attach", "select", "history_init",
                                      "load_history", "load_init", "load_manifest", "mark", "forget",
                                      "forget_save", "forget_unlink"}
  BY DEF SessionPcs, CommitPcs
<1>8. task["transaction"].kind \in {"SYNC", "IDENTITY"} BY <1>1, <1>2 DEF KindsFit
<1>9. OneAtATime' BY <1>1, <1>4, <1>5 DEF OneAtATime
<1>10. KindsFit'
  <2>1. \A t \in Tasks : t = "transaction" => task'[t].kind \in {"SYNC", "IDENTITY"} BY <1>8
  <2>2. \A t \in Tasks : t = "portal" => task'[t].pc = "idle" BY <1>4, <1>5
  <2>3. QED BY <1>1, <1>7, <2>1, <2>2 DEF KindsFit, SessionPcs, CommitPcs
<1>11. MemHeld'
  <2>1. task'["transaction"].pc \in OpenPcs
           => mem'.selected /\ mem'.historyReady /\ mem'.manifestReady
    BY <1>1 DEF MemHeld
  <2>2. "idle" \notin OpenPcs BY DEF OpenPcs, SessionPcs, CommitPcs
  <2>3. QED BY <1>1, <1>4, <1>5, <1>6, <1>7, <2>1, <2>2 DEF MemHeld
<1>12. QED BY <1>9, <1>10, <1>11

\* And most of them the listing.
LEMMA ListingFrame ==
    ASSUME LedgerIInv, session.pc \in SessionPcs \ {"scan_begin"},
           session'.pc \in SessionPcs \ {"scan_begin"},
           session'.kind = session.kind, session'.listed = session.listed,
           UNCHANGED <<files, scan>>
    PROVE  ListingTrue'
<1>1. session.kind \in {"SYNC", "IDENTITY"}
  BY DEF LedgerIInv, KindsFit, session, Tasks
<1>2. session'.pc \notin SelectPcs \union {"scan_begin"}
  BY DEF SelectPcs, SessionPcs, CommitPcs
<1>3. QED BY <1>1, <1>2 DEF LedgerIInv, ListingTrue

\* Memory is in step while a session that may go on does.
LEMMA SessionInStep ==
    ASSUME LedgerIInv, session.pc \in SessionPcs, OnlyTask("transaction"),
           session'.pc \in SessionPcs \union {"release"},
           mem'.historyReady => mem'.history = history',
           mem'.manifestReady /\ session'.pc # "release" => mem'.manifest = manifest'
    PROVE  MemInStep'
<1>1. session.pc # "idle" BY DEF SessionPcs, CommitPcs
<1>2. task["portal"].pc = "idle" /\ task'["portal"] = task["portal"]
  BY <1>1 DEF LedgerIInv, OneAtATime, Other, session, OnlyTask, Tasks
<1>3. \A t \in Tasks : t = "transaction" \/ t = "portal" BY DEF Tasks
<1>4. session'.pc # "forget_save" /\ "idle" \notin OpenPcs /\ "release" \notin OpenPcs
  BY DEF OpenPcs, SessionPcs, CommitPcs
<1>5. QED BY <1>2, <1>3, <1>4 DEF MemInStep, session

\* What a session that is not at its end finds.
LEMMA SessionFacts ==
    ASSUME LedgerIInv, session.pc \in SessionPcs
    PROVE  /\ task \in [Tasks -> TaskState] /\ "transaction" \in Tasks
           /\ session \in TaskState /\ session.kind \in {"SYNC", "IDENTITY"}
           /\ session.path \in Paths /\ session.listed \subseteq Paths
           /\ session.digest \in Digests \union {NoDigest}
           /\ session.versions \in History /\ session.rows \in Manifest
           /\ mem.history \in History /\ mem.manifest \in Manifest
           /\ session.attached
           /\ mem.historyReady => mem.history = history
           /\ mem.manifestReady => mem.manifest = manifest
           /\ session.pc # "scan_end"
                 => /\ mem.selected /\ mem.historyReady /\ mem.manifestReady
                    /\ session.pc \in OpenPcs
           /\ session.pc \in CommitPcs => session.digest \in Digests
<1>1. task \in [Tasks -> TaskState] /\ "transaction" \in Tasks
  BY DEF LedgerIInv, WorkTypeOK, Tasks
<1>2. /\ session \in TaskState /\ session.path \in Paths /\ session.listed \subseteq Paths
      /\ session.digest \in Digests \union {NoDigest}
      /\ session.versions \in History /\ session.rows \in Manifest
      /\ mem.history \in History /\ mem.manifest \in Manifest
  BY <1>1, TaskFields DEF LedgerIInv, session, WorkTypeOK
<1>3. session.pc \notin {"idle", "attach", "release", "forget_save"}
  BY DEF SessionPcs, CommitPcs
<1>4. session.pc \in OpenPcs \union {"scan_end"} /\ (session.pc # "scan_end" => session.pc \in OpenPcs)
  BY DEF OpenPcs
<1>5. session.attached /\ session.kind \in {"SYNC", "IDENTITY"}
  BY <1>1, <1>3 DEF LedgerIInv, MemHeld, KindsFit, session
<1>6. /\ mem.historyReady => mem.history = history
      /\ mem.manifestReady => mem.manifest = manifest
  BY <1>1, <1>3, <1>4 DEF LedgerIInv, MemInStep, session
<1>7. session.pc # "scan_end"
         => mem.selected /\ mem.historyReady /\ mem.manifestReady /\ session.pc \in OpenPcs
  BY <1>1, <1>4 DEF LedgerIInv, MemHeld, session
<1>8. session.pc \in CommitPcs => session.digest \in Digests
  BY <1>2 DEF LedgerIInv, CommitInOrder
<1>9. QED BY <1>1, <1>2, <1>5, <1>6, <1>7, <1>8

\* The listing: its pass is opened, a file is listed, the batch ends.
LEMMA ListKeeps ==
    ASSUME LedgerIInv,
           \/ device_scan_begin
           \/ \E p \in Paths, fits, matches, full \in BOOLEAN : list_path(p, fits, matches, full)
           \/ list_ends
    PROVE  LedgerIInv'
<1>1. CASE device_scan_begin
  <2>1. /\ session.pc = "scan_begin" /\ session.pc \in SessionPcs
        /\ UNCHANGED <<files, objects, history, manifest, mem, writer>>
        /\ scan' \in {NoScan, [NoScan EXCEPT !.active = TRUE]}
    BY <1>1 DEF device_scan_begin, SessionGoes, Goes, session, card, SessionPcs
  <2>2. /\ task' \in [Tasks -> TaskState] /\ OnlyTask("transaction") /\ SameTask("transaction")
        /\ session'.pc = "list" /\ session'.attached = session.attached
    BY <1>1, <2>1, SessionFacts, GoesFacts DEF device_scan_begin, SessionGoes, session, Pcs
  <2>3. OneAtATime' /\ KindsFit' /\ MemHeld'
    BY <2>1, <2>2, SessionFrame, SessionFacts DEF SameTask, session, SessionPcs
  <2>4. MemInStep' BY <2>1, <2>2, SessionInStep, SessionFacts DEF SessionPcs
  <2>5. scan' \in [active : BOOLEAN, seen : SUBSET Paths, overflowed : BOOLEAN]
    <3>1. NoScan \in [active : BOOLEAN, seen : SUBSET Paths, overflowed : BOOLEAN]
      BY NoMemType
    <3>2. [NoScan EXCEPT !.active = TRUE]
             \in [active : BOOLEAN, seen : SUBSET Paths, overflowed : BOOLEAN]
      BY <3>1
    <3>3. QED BY <2>1, <3>1, <3>2
  <2>6. WorkTypeOK' BY <2>1, <2>2, <2>5 DEF LedgerIInv, WorkTypeOK
  <2>7. Backed(manifest)' /\ Backed(mem.manifest)' BY <2>1 DEF LedgerIInv, Backed
  <2>8. CommitInOrder' BY <2>2 DEF CommitInOrder, CommitPcs
  <2>9. ListingTrue'
    <3>1. session.listed = {} BY <2>1 DEF LedgerIInv, ListingTrue
    <3>2. session'.listed = {} /\ session'.kind \in {"SYNC", "IDENTITY"}
      BY <2>1, <2>2, <3>1, SessionFacts DEF SameTask, session
    <3>3. QED BY <2>2, <3>2 DEF ListingTrue, SelectPcs, SessionPcs
  <2>10. FiniteHistories' /\ WithinCapacity'
    BY <2>1, <2>2, SizesByParts DEF LedgerIInv, SameTask, session
  <2>11. QED BY <2>3, <2>4, <2>6, <2>7, <2>8, <2>9, <2>10 DEF LedgerIInv
<1>2. ASSUME NEW p \in Paths, NEW fits \in BOOLEAN, NEW matches \in BOOLEAN,
             NEW full \in BOOLEAN, list_path(p, fits, matches, full)
      PROVE  LedgerIInv'
  <2> DEFINE d == IF writer' THEN files[p] ELSE session.digest
             begin == files[p] # NoDigest /\ ~is_current(p, matches) /\ ~full
             there == IF writer' THEN "object" ELSE IF begin THEN "scan_end" ELSE "list"
             r == [session EXCEPT !.listed = session.listed \union {p},
                                  !.path = IF writer' THEN p ELSE session.path,
                                  !.digest = IF writer' THEN files[p] ELSE session.digest,
                                  !.pc = there]
  <2>1. /\ session.pc = "list" /\ session.pc \in SessionPcs
        /\ UNCHANGED <<files, objects, history, manifest, mem>>
        /\ writer' \in BOOLEAN /\ (writer' => files[p] # NoDigest)
    BY <1>2 DEF list_path, Session, card, SessionPcs
  <2>2. /\ \/ there = "object" /\ writer'
           \/ there \in {"scan_end", "list"} /\ ~writer'
        /\ task' = [task EXCEPT !["transaction"] = r]
    <3>1. task' = [task EXCEPT !["transaction"] =
                     [session EXCEPT !.listed = session.listed \union {p},
                                     !.path = IF writer' THEN p ELSE session.path,
                                     !.digest = IF writer' THEN files[p] ELSE session.digest,
                                     !.pc = there]]
      BY <1>2 DEF list_path
    <3>2. \/ there = "object" /\ writer'
          \/ there \in {"scan_end", "list"} /\ ~writer'
      BY <2>1
    <3> HIDE DEF there, d, begin
    <3>3. QED BY <3>1, <3>2 DEF session
  <2>3. d \in Digests \union {NoDigest} /\ (writer' => d \in Digests) /\ there \in Pcs
    BY <2>1, <2>2, SessionFacts DEF LedgerIInv, WorkTypeOK, Pcs
  <2>4. r \in TaskState
    BY <2>1, <2>3, SessionFacts DEF TaskState
  <2>5. /\ r.pc = there /\ r.digest = d /\ r.listed = session.listed \union {p}
        /\ r.kind = session.kind /\ r.versions = session.versions /\ r.rows = session.rows
        /\ r.attached = session.attached
    BY <2>1, SessionFacts DEF TaskState
  <2> HIDE DEF r, there, d, begin
  <2>6. /\ task' \in [Tasks -> TaskState] /\ OnlyTask("transaction") /\ session' = r
    BY <2>1, <2>2, <2>4, SessionFacts, PutTask DEF session
  <2>7. OneAtATime' /\ KindsFit' /\ MemHeld'
    BY <2>1, <2>2, <2>5, <2>6, SessionFrame, SessionFacts DEF SessionPcs, CommitPcs, OpenPcs
  <2>8. MemInStep'
    BY <2>1, <2>2, <2>5, <2>6, SessionInStep, SessionFacts DEF SessionPcs, CommitPcs
  <2>9. /\ scan' \in [active : BOOLEAN, seen : SUBSET Paths, overflowed : BOOLEAN]
        /\ scan'.active = scan.active
        /\ scan.active /\ ~scan'.overflowed
              => /\ ~scan.overflowed /\ scan.seen \subseteq scan'.seen
                 /\ files[p] # NoDigest => p \in scan'.seen
    <3>1. scan' = IF files[p] = NoDigest \/ ~scan.active THEN scan
                  ELSE IF fits THEN [scan EXCEPT !.seen = @ \union {p}]
                  ELSE [scan EXCEPT !.overflowed = TRUE]
      BY <1>2 DEF list_path
    <3>2. scan \in [active : BOOLEAN, seen : SUBSET Paths, overflowed : BOOLEAN]
      BY DEF LedgerIInv, WorkTypeOK
    <3>3. CASE files[p] = NoDigest \/ ~scan.active
      BY <3>1, <3>2, <3>3
    <3>4. CASE scan' = [scan EXCEPT !.seen = @ \union {p}] 
      <4>1. scan'.seen = scan.seen \union {p} /\ scan'.active = scan.active
            /\ scan'.overflowed = scan.overflowed
        BY <3>2, <3>4
      <4>0. scan.seen \union {p} \in SUBSET Paths BY <3>2
      <4>2. scan' \in [active : BOOLEAN, seen : SUBSET Paths, overflowed : BOOLEAN]
        BY <4>0, <3>2, <3>4
      <4>3. QED BY <4>1, <4>2
    <3>5. CASE scan' = [scan EXCEPT !.overflowed = TRUE] BY <3>2, <3>5
    <3>6. QED BY <3>1, <3>3, <3>4, <3>5
  <2>10. WorkTypeOK' BY <2>1, <2>6, <2>9 DEF LedgerIInv, WorkTypeOK
  <2>11. Backed(manifest)' /\ Backed(mem.manifest)' BY <2>1 DEF LedgerIInv, Backed
  <2>12. CommitInOrder'
    BY <2>2, <2>3, <2>5, <2>6 DEF CommitInOrder, CommitPcs
  <2>13. ListingTrue'
    BY <2>1, <2>2, <2>5, <2>6, <2>9, SessionFacts
       DEF LedgerIInv, ListingTrue, SelectPcs, SessionPcs, CommitPcs
  <2>14. FiniteHistories' /\ WithinCapacity'
    BY <2>1, <2>5, <2>6, SizesByParts DEF LedgerIInv
  <2>15. QED BY <2>7, <2>8, <2>10, <2>11, <2>12, <2>13, <2>14 DEF LedgerIInv
<1>3. CASE list_ends
  <2>1. /\ session.pc = "list" /\ session.pc \in SessionPcs
        /\ UNCHANGED <<files, objects, history, manifest, mem, writer, scan>>
    BY <1>3 DEF list_ends, SessionGoes, Goes, session, card, SessionPcs
  <2>2. /\ task' \in [Tasks -> TaskState] /\ OnlyTask("transaction") /\ SameTask("transaction")
        /\ session'.pc = "scan_end" /\ session'.attached = session.attached
    BY <1>3, <2>1, SessionFacts, GoesFacts DEF list_ends, SessionGoes, session, Pcs
  <2>3. /\ session'.kind = session.kind /\ session'.listed = session.listed
        /\ session'.versions = session.versions /\ session'.rows = session.rows
    BY <2>2 DEF SameTask, session
  <2>4. OneAtATime' /\ KindsFit' /\ MemHeld'
    BY <2>1, <2>2, <2>3, SessionFrame, SessionFacts DEF SessionPcs
  <2>5. MemInStep' BY <2>1, <2>2, SessionInStep, SessionFacts DEF SessionPcs
  <2>6. WorkTypeOK' BY <2>1, <2>2 DEF LedgerIInv, WorkTypeOK
  <2>7. Backed(manifest)' /\ Backed(mem.manifest)' BY <2>1 DEF LedgerIInv, Backed
  <2>8. CommitInOrder' BY <2>2 DEF CommitInOrder, CommitPcs
  <2>9. ListingTrue' BY <2>1, <2>2, <2>3, ListingFrame DEF SessionPcs
  <2>10. FiniteHistories' /\ WithinCapacity' BY <2>1, <2>3, SizesByParts DEF LedgerIInv
  <2>11. QED BY <2>4, <2>5, <2>6, <2>7, <2>8, <2>9, <2>10 DEF LedgerIInv
<1>4. QED BY <1>1, <1>2, <1>3

\* A download that is given up, or was recorded, leaves the commit.
LEMMA BackKeeps ==
    ASSUME LedgerIInv, session.pc \in CommitPcs,
           NEW there \in {"scan_end", "list"}, SessionBack(there),
           UNCHANGED <<files, history, scan>>, writer' = FALSE,
           objects \subseteq objects', objects' \subseteq Digests,
           mem' \in [selected : BOOLEAN, historyReady : BOOLEAN, manifestReady : BOOLEAN,
                     history : History, manifest : Manifest],
           mem'.selected = mem.selected, mem'.historyReady = mem.historyReady,
           mem'.manifestReady = mem.manifestReady, mem'.history = mem.history,
           mem'.manifest = manifest', manifest' \in {manifest, session.rows},
           manifest' = manifest \/ Backed(session.rows)
    PROVE  LedgerIInv'
<1>1. session.pc \in SessionPcs /\ session.pc # "scan_end" /\ session.pc # "scan_begin"
  BY DEF SessionPcs, CommitPcs
<1>2. /\ task' \in [Tasks -> TaskState] /\ OnlyTask("transaction")
      /\ session'.pc = there /\ session'.kind = session.kind
      /\ session'.digest = NoDigest /\ session'.listed = session.listed
      /\ session'.attached = TRUE /\ session'.versions = {} /\ session'.rows = NoRows
  BY <1>1, SessionFacts, BackFacts DEF Pcs
<1>3. mem.manifest = manifest /\ session.rows \in Manifest /\ session.pc \in OpenPcs
      /\ mem.history = history
  BY <1>1, SessionFacts
<1>4. OneAtATime' /\ KindsFit' /\ MemHeld'
  BY <1>1, <1>2, <1>3, SessionFrame DEF SessionPcs
<1>5. MemInStep' BY <1>1, <1>2, <1>3, SessionInStep DEF SessionPcs
<1>6. WorkTypeOK'
  BY <1>2, <1>3 DEF LedgerIInv, WorkTypeOK
<1>7. Backed(manifest)' /\ Backed(mem.manifest)'
  BY <1>3 DEF LedgerIInv, Backed
<1>8. CommitInOrder' BY <1>2 DEF CommitInOrder, CommitPcs
<1>9. ListingTrue' BY <1>1, <1>2, ListingFrame DEF SessionPcs
<1>10. FiniteHistories' /\ WithinCapacity'
  BY <1>2, <1>3, SizesByParts, EmptyFits DEF LedgerIInv
<1>11. QED BY <1>4, <1>5, <1>6, <1>7, <1>8, <1>9, <1>10 DEF LedgerIInv

\* The download goes on to its next step, with the manifests as they were.
LEMMA CommitGoesKeeps ==
    ASSUME LedgerIInv, session.pc \in CommitPcs,
           task' \in [Tasks -> TaskState], OnlyTask("transaction"),
           session'.pc \in CommitPcs, session'.kind = session.kind,
           session'.listed = session.listed, session'.attached = session.attached,
           HistoryFits(session'.versions), ManifestFits(session'.rows),
           UNCHANGED <<files, manifest, scan>>, writer' \in BOOLEAN,
           objects \subseteq objects', objects' \subseteq Digests,
           history \subseteq history', HistoryFits(history'),
           mem' \in [selected : BOOLEAN, historyReady : BOOLEAN, manifestReady : BOOLEAN,
                     history : History, manifest : Manifest],
           mem'.selected = mem.selected, mem'.historyReady = mem.historyReady,
           mem'.manifestReady = mem.manifestReady, mem'.history = history',
           mem'.manifest = mem.manifest, CommitInOrder'
    PROVE  LedgerIInv'
<1>1. /\ session.pc \in SessionPcs /\ session.pc # "scan_end" /\ session.pc # "scan_begin"
      /\ session'.pc \in SessionPcs \ {"scan_begin"}
  BY DEF SessionPcs, CommitPcs
<1>2. mem.manifest = manifest /\ session.pc \in OpenPcs
  BY <1>1, SessionFacts
<1>3. OneAtATime' /\ KindsFit' /\ MemHeld' BY <1>1, <1>2, SessionFrame
<1>4. MemInStep' BY <1>1, <1>2, SessionInStep
<1>5. WorkTypeOK' BY DEF LedgerIInv, WorkTypeOK
<1>6. Backed(manifest)' /\ Backed(mem.manifest)' BY <1>2 DEF LedgerIInv, Backed
<1>7. ListingTrue' BY <1>1, ListingFrame
<1>8. FiniteHistories' /\ WithinCapacity' BY <1>2, SizesByParts DEF LedgerIInv
<1>9. QED BY <1>3, <1>4, <1>5, <1>6, <1>7, <1>8 DEF LedgerIInv

\* The commit, step by step.
LEMMA CommitKeeps ==
    ASSUME LedgerIInv,
           \/ \E ok \in BOOLEAN : commit_object(ok)
           \/ commit_history \/ \E ok \in BOOLEAN : commit_history_save(ok)
           \/ commit_manifest \/ \E ok \in BOOLEAN : commit_manifest_save(ok)
    PROVE  LedgerIInv'
<1> DEFINE v == <<session.path, session.digest>>
<1>1. session.pc \in CommitPcs /\ session.pc \in SessionPcs /\ session.pc # "scan_end"
  BY DEF commit_object, commit_history, commit_history_save, commit_manifest,
         commit_manifest_save, Session, CommitPcs, SessionPcs
<1>2. /\ task \in [Tasks -> TaskState] /\ "transaction" \in Tasks /\ session \in TaskState
      /\ session.path \in Paths /\ session.digest \in Digests
      /\ session.versions \in History /\ session.rows \in Manifest
      /\ mem.historyReady /\ mem.manifestReady
      /\ mem.history = history /\ mem.manifest = manifest
      /\ objects \subseteq Digests /\ history \in History /\ manifest \in Manifest
      /\ mem \in [selected : BOOLEAN, historyReady : BOOLEAN, manifestReady : BOOLEAN,
                  history : History, manifest : Manifest]
      /\ writer \in BOOLEAN
  BY <1>1, SessionFacts DEF LedgerIInv, WorkTypeOK
<1>3. /\ HistoryFits(history) /\ HistoryFits(session.versions)
      /\ ManifestFits(manifest) /\ ManifestFits(session.rows)
  BY SizesByParts DEF LedgerIInv
<1>4. ASSUME NEW ok \in BOOLEAN, commit_object(ok) PROVE LedgerIInv'
  <2>1. /\ session.pc = "object" /\ UNCHANGED <<files, history, manifest, mem, scan>>
        /\ objects \subseteq objects' /\ objects' \subseteq Digests
        /\ writer' = ok
    BY <1>2, <1>4 DEF commit_object, Session
  <2>2. CASE ok
    <3>1. session.digest \in objects' /\ SessionGoes("object", "history")
      BY <1>4, <2>2 DEF commit_object
    <3>2. /\ task' \in [Tasks -> TaskState] /\ OnlyTask("transaction")
          /\ SameTask("transaction") /\ session'.pc = "history"
          /\ session'.attached = session.attached
      BY <1>2, <3>1, GoesFacts DEF SessionGoes, session, Pcs
    <3>3. CommitInOrder' BY <1>2, <3>1, <3>2, DigestAssumption DEF CommitInOrder, SameTask, session
    <3>4. QED
      BY <1>1, <1>2, <1>3, <2>1, <3>2, <3>3, CommitGoesKeeps DEF SameTask, session, CommitPcs
  <2>3. CASE ~ok
    <3>1. SessionBack("scan_end") BY <1>4, <2>3 DEF commit_object
    <3>2. QED BY <1>1, <1>2, <2>1, <2>3, <3>1, BackKeeps
  <2>4. QED BY <2>2, <2>3
<1>5. CASE commit_history
  <2>1. /\ session.pc = "history" /\ UNCHANGED <<files, objects, history, manifest, mem, scan>>
    BY <1>5 DEF commit_history, Session, card
  <2>2. CASE writer /\ record_fits(mem.history, v)
    <3> DEFINE r == [session EXCEPT !.pc = "history_save",
                                    !.versions = mem.history \union {v}]
    <3>1. task' = [task EXCEPT !["transaction"].pc = "history_save",
                                !["transaction"].versions = mem.history \union {v}]
          /\ UNCHANGED writer
      BY <1>5, <2>2 DEF commit_history
    <3>2. task' = [task EXCEPT !["transaction"] = r] BY <3>1 DEF session
    <3>3. mem.history \union {v} \in History BY <1>2 DEF History
    <3>4. r \in TaskState BY <1>2, <3>3 DEF TaskState, Pcs
    <3>5. /\ r.pc = "history_save" /\ r.kind = session.kind /\ r.path = session.path
          /\ r.digest = session.digest /\ r.listed = session.listed
          /\ r.attached = session.attached /\ r.versions = mem.history \union {v}
          /\ r.rows = session.rows
      BY <1>2 DEF TaskState
    <3>6. HistoryFits(mem.history \union {v}) BY <1>2, <1>3, <2>2, RecordFits
    <3> HIDE DEF r
    <3>7. task' \in [Tasks -> TaskState] /\ OnlyTask("transaction") /\ session' = r
      BY <1>2, <3>2, <3>4, PutTask DEF session
    <3>8. session.digest \in objects BY <2>1 DEF LedgerIInv, CommitInOrder, CommitPcs
    <3>9. CommitInOrder'
      BY <1>2, <2>1, <3>5, <3>7, <3>8, DigestAssumption DEF CommitInOrder
    <3>10. QED
      BY <1>1, <1>2, <1>3, <2>1, <3>1, <3>5, <3>6, <3>7, <3>9, CommitGoesKeeps DEF CommitPcs
  <2>3. CASE ~(writer /\ record_fits(mem.history, v))
    <3>1. SessionBack("scan_end") /\ writer' = FALSE BY <1>5, <2>3 DEF commit_history
    <3>2. QED BY <1>1, <1>2, <2>1, <3>1, BackKeeps
  <2>4. QED BY <2>2, <2>3
<1>6. ASSUME NEW ok \in BOOLEAN, commit_history_save(ok) PROVE LedgerIInv'
  <2>1. /\ session.pc = "history_save" /\ UNCHANGED <<files, objects, manifest, scan>>
        /\ session.versions = history \union {v} /\ session.digest \in objects
    BY <1>6 DEF commit_history_save, Session, LedgerIInv, CommitInOrder, CommitPcs
  <2>2. CASE ok
    <3>1. /\ SessionGoes("history_save", "manifest") /\ history' = session.versions
          /\ mem' = [mem EXCEPT !.history = session.versions] /\ UNCHANGED writer
      BY <1>6, <2>2 DEF commit_history_save
    <3>2. /\ task' \in [Tasks -> TaskState] /\ OnlyTask("transaction")
          /\ SameTask("transaction") /\ session'.pc = "manifest"
          /\ session'.attached = session.attached
      BY <1>2, <3>1, GoesFacts DEF SessionGoes, session, Pcs
    <3>3. /\ mem' \in [selected : BOOLEAN, historyReady : BOOLEAN, manifestReady : BOOLEAN,
                       history : History, manifest : Manifest]
          /\ mem'.selected = mem.selected /\ mem'.historyReady = mem.historyReady
          /\ mem'.manifestReady = mem.manifestReady /\ mem'.history = history'
          /\ mem'.manifest = mem.manifest
      BY <1>2, <3>1
    <3>4. CommitInOrder'
      BY <1>2, <2>1, <3>1, <3>2, DigestAssumption DEF CommitInOrder, SameTask, session
    <3>5. QED
      BY <1>1, <1>2, <1>3, <2>1, <3>1, <3>2, <3>3, <3>4, CommitGoesKeeps
         DEF SameTask, session, CommitPcs
  <2>3. CASE ~ok
    <3>1. SessionBack("scan_end") /\ writer' = FALSE /\ UNCHANGED <<history, mem>>
      BY <1>6, <2>3 DEF commit_history_save
    <3>2. QED BY <1>1, <1>2, <2>1, <3>1, BackKeeps
  <2>4. QED BY <2>2, <2>3
<1>7. CASE commit_manifest
  <2>1. /\ session.pc = "manifest" /\ UNCHANGED <<files, objects, history, manifest, mem, scan>>
        /\ session.digest \in objects /\ v \in history
    BY <1>7 DEF commit_manifest, Session, card, LedgerIInv, CommitInOrder, CommitPcs
  <2>2. CASE writer /\ upsert_fits(mem.manifest, session.path)
    <3> DEFINE n == upsert(mem.manifest, session.path, session.digest)
               r == [session EXCEPT !.pc = "manifest_save", !.rows = n]
    <3>1. task' = [task EXCEPT !["transaction"].pc = "manifest_save",
                                !["transaction"].rows = n]
          /\ UNCHANGED writer
      BY <1>7, <2>2 DEF commit_manifest
    <3>2. task' = [task EXCEPT !["transaction"] = r] BY <3>1 DEF session
    <3>3. n \in Manifest BY <1>2, EditTypes
    <3>4. ManifestFits(n) BY <1>2, <1>3, <2>2, UpsertFits
    <3>5. n = upsert(manifest, session.path, session.digest) BY <1>2
    <3> HIDE DEF n
    <3>6. r \in TaskState BY <1>2, <3>3 DEF TaskState, Pcs
    <3>7. /\ r.pc = "manifest_save" /\ r.kind = session.kind /\ r.path = session.path
          /\ r.digest = session.digest /\ r.listed = session.listed
          /\ r.attached = session.attached /\ r.versions = session.versions /\ r.rows = n
      BY <1>2 DEF TaskState
    <3> HIDE DEF r
    <3>8. task' \in [Tasks -> TaskState] /\ OnlyTask("transaction") /\ session' = r
      BY <1>2, <3>2, <3>6, PutTask DEF session
    <3>9. CommitInOrder'
      BY <1>2, <2>1, <3>5, <3>7, <3>8, DigestAssumption DEF CommitInOrder
    <3>10. QED
      BY <1>1, <1>2, <1>3, <2>1, <3>1, <3>4, <3>7, <3>8, <3>9, CommitGoesKeeps DEF CommitPcs
  <2>3. CASE ~(writer /\ upsert_fits(mem.manifest, session.path))
    <3>1. SessionBack("scan_end") /\ writer' = FALSE BY <1>7, <2>3 DEF commit_manifest
    <3>2. QED BY <1>1, <1>2, <2>1, <3>1, BackKeeps
  <2>4. QED BY <2>2, <2>3
<1>8. ASSUME NEW ok \in BOOLEAN, commit_manifest_save(ok) PROVE LedgerIInv'
  <2>1. /\ session.pc = "manifest_save" /\ UNCHANGED <<files, objects, history, scan>>
        /\ session.digest \in objects /\ v \in history /\ writer' = FALSE
        /\ session.rows = upsert(manifest, session.path, session.digest)
        /\ SessionBack(IF ok THEN "list" ELSE "scan_end")
    BY <1>8 DEF commit_manifest_save, Session, LedgerIInv, CommitInOrder, CommitPcs
  <2>2. Backed(session.rows)
    <3>1. /\ Rows(session.rows) = Rows(manifest) \union {session.path}
          /\ session.rows[session.path].digest = session.digest
          /\ \A q \in Paths \ {session.path} : session.rows[q] = manifest[q]
      BY <1>2, <2>1, UpsertRows
    <3>2. QED BY <2>1, <3>1 DEF LedgerIInv, Backed, Rows
  <2>3. CASE ok
    <3>1. manifest' = session.rows /\ mem' = [mem EXCEPT !.manifest = session.rows]
      BY <1>8, <2>3 DEF commit_manifest_save
    <3>2. /\ mem' \in [selected : BOOLEAN, historyReady : BOOLEAN, manifestReady : BOOLEAN,
                       history : History, manifest : Manifest]
          /\ mem'.selected = mem.selected /\ mem'.historyReady = mem.historyReady
          /\ mem'.manifestReady = mem.manifestReady /\ mem'.history = mem.history
          /\ mem'.manifest = manifest'
      BY <1>2, <3>1
    <3>3. QED BY <1>1, <1>2, <2>1, <2>2, <2>3, <3>1, <3>2, BackKeeps
  <2>4. CASE ~ok
    <3>1. UNCHANGED <<manifest, mem>> BY <1>8, <2>4 DEF commit_manifest_save
    <3>2. QED BY <1>1, <1>2, <2>1, <2>4, <3>1, BackKeeps
  <2>5. QED BY <2>3, <2>4
<1>9. QED BY <1>4, <1>5, <1>6, <1>7, <1>8

\* The end of the pass.
LEMMA ScanEndKeeps ==
    ASSUME LedgerIInv, NEW complete \in BOOLEAN, NEW ok \in BOOLEAN,
           device_scan_end(complete, ok)
    PROVE  LedgerIInv'
<1> DEFINE n == Listed(mem.manifest)
<1>1. /\ session.pc = "scan_end" /\ session.pc \in SessionPcs /\ SessionBack("release")
      /\ UNCHANGED <<files, objects, history, writer>> /\ scan' = NoScan
      /\ mem' \in {mem, [mem EXCEPT !.manifest = n]} /\ manifest' \in {manifest, n}
  BY DEF device_scan_end, Session, SessionPcs
<1>2. /\ task \in [Tasks -> TaskState] /\ mem.manifest \in Manifest
      /\ mem.historyReady => mem.history = history
  BY <1>1, SessionFacts
<1>3. /\ task' \in [Tasks -> TaskState] /\ OnlyTask("transaction")
      /\ session'.pc = "release" /\ session'.kind = session.kind
      /\ session'.attached = TRUE /\ session'.versions = {} /\ session'.rows = NoRows
  BY <1>1, <1>2, BackFacts DEF Pcs
<1>4. n \in Manifest /\ Rows(n) = Rows(mem.manifest)
      /\ \A q \in Paths : n[q].digest = mem.manifest[q].digest
  BY <1>2, ListedType, ListedRows
<1> HIDE DEF n
<1>5. /\ mem' \in [selected : BOOLEAN, historyReady : BOOLEAN, manifestReady : BOOLEAN,
                   history : History, manifest : Manifest]
      /\ mem'.selected = mem.selected /\ mem'.historyReady = mem.historyReady
      /\ mem'.manifestReady = mem.manifestReady /\ mem'.history = mem.history
      /\ mem'.manifest \in {mem.manifest, n}
  BY <1>1, <1>4 DEF LedgerIInv, WorkTypeOK
<1>6. OneAtATime' /\ KindsFit' /\ MemHeld'
  <2>1. session'.pc \notin OpenPcs BY <1>3 DEF OpenPcs, SessionPcs, CommitPcs
  <2>2. QED BY <1>1, <1>3, <1>5, <2>1, SessionFrame
<1>7. MemInStep' BY <1>1, <1>2, <1>3, <1>5, SessionInStep
<1>8. WorkTypeOK' BY <1>1, <1>3, <1>4, <1>5, NoMemType DEF LedgerIInv, WorkTypeOK
<1>9. Backed(manifest)' /\ Backed(mem.manifest)'
  <2>1. Backed(n) /\ Backed(mem.manifest) /\ Backed(manifest)
    BY <1>4 DEF LedgerIInv, Backed, Rows
  <2>2. QED BY <1>1, <1>5, <2>1 DEF Backed
<1>10. CommitInOrder' BY <1>3 DEF CommitInOrder, CommitPcs
<1>11. ListingTrue'
  <2>1. session.kind \in {"SYNC", "IDENTITY"} BY <1>1, SessionFacts
  <2>2. QED BY <1>1, <1>3, <2>1 DEF ListingTrue, NoScan, SelectPcs
<1>12. FiniteHistories' /\ WithinCapacity'
  <2>1. ManifestFits(n) <=> ManifestFits(mem.manifest) BY <1>4 DEF ManifestFits
  <2>2. QED BY <1>1, <1>3, <1>5, <2>1, SizesByParts, EmptyFits DEF LedgerIInv
<1>13. QED BY <1>6, <1>7, <1>8, <1>9, <1>10, <1>11, <1>12 DEF LedgerIInv

LEMMA SessionKeeps ==
    ASSUME LedgerIInv, SyncSession
    PROVE  LedgerIInv'
  BY ListKeeps, CommitKeeps, ScanEndKeeps DEF SyncSession

LEMMA LedgerInitInv == LedgerInit => LedgerIInv
<1> SUFFICES ASSUME LedgerInit PROVE LedgerIInv OBVIOUS
<1>1. /\ objects = {} /\ history = {} /\ manifest = NoRows /\ mem = NoMem
      /\ writer = FALSE /\ scan = NoScan /\ session = Resting
      /\ \A t \in Tasks : task[t] = Resting
  BY DEF LedgerInit, session, Tasks
<1>2. WorkTypeOK BY LedgerInitType
<1>3. OneAtATime /\ KindsFit
  BY <1>1, RestingType DEF OneAtATime, KindsFit, Other, Tasks, SessionPcs, CommitPcs
<1>4. MemHeld /\ MemInStep
  BY <1>1, RestingType DEF MemHeld, MemInStep, NoMem, OpenPcs, SessionPcs, CommitPcs
<1>5. Backed(manifest) /\ Backed(mem.manifest)
  BY <1>1 DEF Backed, Rows, NoMem, NoRows, NoRow
<1>6. CommitInOrder /\ ListingTrue
  BY <1>1, RestingType DEF CommitInOrder, ListingTrue, NoScan, SelectPcs, SessionPcs, CommitPcs
<1>7. FiniteHistories /\ WithinCapacity
  BY <1>1, SizesByParts, EmptyFits, RestingType DEF NoMem
<1>8. QED BY <1>2, <1>3, <1>4, <1>5, <1>6, <1>7 DEF LedgerIInv

LEMMA LedgerStepInv ==
    ASSUME ~Overlapping', LedgerIInv, LedgerStep \/ UNCHANGED workVars
    PROVE  LedgerIInv'
<1>1. CASE SyncSession BY <1>1, SessionKeeps
<1>2. ASSUME NEW t \in Tasks, Storage(t) PROVE LedgerIInv' BY <1>2, StorageKeeps
<1>3. QED BY <1>1, <1>2, OutsideKeeps DEF LedgerStep

\* A step that leaves the ledger unspoilt started from an unspoilt one, was not into
\* an overlap and met no gap.
LEMMA CleanStep ==
    ASSUME spoilt \in BOOLEAN, LedgerNext, ~spoilt'
    PROVE  ~spoilt /\ LedgerStep /\ ~Overlapping'
<1>1. CASE LedgerStep /\ spoilt' = (spoilt \/ Overlapping') BY <1>1
<1>2. QED BY <1>1 DEF LedgerNext

UnspoiltIInv == spoilt \in BOOLEAN /\ (spoilt \/ LedgerIInv)

\* Until the tasks overlap or a backup is missed or lost the ledger is consistent: the
\* conjuncts of LedgerIInv hold in every state (revlink_sd_storage.c).
THEOREM LedgerInvariance == LedgerSpec => []UnspoiltIInv
<1>1. LedgerInit => UnspoiltIInv BY LedgerInitInv DEF UnspoiltIInv, LedgerInit
<1>2. ASSUME UnspoiltIInv, [LedgerNext]_ledgerVars PROVE UnspoiltIInv'
  <2>1. CASE UNCHANGED ledgerVars
    <3>1. UNCHANGED workVars /\ spoilt' = spoilt BY <2>1 DEF ledgerVars
    <3>2. CASE spoilt BY <1>2, <3>1, <3>2 DEF UnspoiltIInv
    <3>3. CASE ~spoilt
      <4>1. LedgerIInv BY <1>2, <3>3 DEF UnspoiltIInv
      <4>2. ~Overlapping'
        BY <3>1, <4>1, AloneFacts DEF workVars, LedgerIInv, OneAtATime, Overlapping, Tasks, Other
      <4>3. QED BY <1>2, <3>1, <4>1, <4>2, LedgerStepInv DEF UnspoiltIInv
    <3>4. QED BY <3>2, <3>3
  <2>2. CASE LedgerNext
    <3>1. spoilt' \in BOOLEAN BY <1>2, <2>2 DEF LedgerNext, UnspoiltIInv
    <3>2. CASE ~spoilt'
      <4>1. ~spoilt /\ LedgerStep /\ ~Overlapping' BY <1>2, <2>2, <3>2, CleanStep DEF UnspoiltIInv
      <4>2. QED BY <1>2, <3>1, <4>1, LedgerStepInv DEF UnspoiltIInv
    <3>3. QED BY <3>1, <3>2 DEF UnspoiltIInv
  <2>3. QED BY <1>2, <2>1, <2>2
<1>3. QED BY <1>1, <1>2, PTL DEF LedgerSpec

\* Whatever save fails and wherever the power is cut, every row of the manifest has its
\* object on the card and its version in the history, until the tasks overlap or a
\* backup is missed or lost (revlink_sd_download_commit, forget_cached_locked).
THEOREM LedgerRowsBacked == LedgerSpec => []RowsBacked
<1>1. UnspoiltIInv => RowsBacked BY DEF UnspoiltIInv, LedgerIInv, Backed, RowsBacked
<1>2. QED BY <1>1, LedgerInvariance, PTL

\* A version is backed when it is recorded and never dropped, and an object leaves only
\* for an owner who forgets its last file, until the tasks overlap or a backup is missed
\* or lost (revlink_sd_download_commit, forget_cached_locked).
THEOREM LedgerVersionsKept == LedgerSpec => VersionsKept
<1> DEFINE Kept ==
      /\ history \subseteq history'
      /\ \A v \in history' \ history : v[2] \in objects'
      /\ \A d \in objects \ objects' :
            /\ \E t \in Tasks : task[t].kind = "FORGET" /\ task[t].digest = d
            /\ \A p \in Paths : manifest[p].digest # d
<1>1. ASSUME LedgerIInv, LedgerStep PROVE Kept
  <2> USE <1>1
  <2>1. CASE \E ok \in BOOLEAN : commit_history_save(ok)
    <3>1. PICK ok \in BOOLEAN : commit_history_save(ok) BY <2>1
    <3>2. /\ UNCHANGED objects /\ session.digest \in objects
          /\ history' \in {history, session.versions}
          /\ session.versions = history \union {<<session.path, session.digest>>}
      BY <3>1 DEF commit_history_save, Session, SessionGoes, Goes, session, LedgerIInv,
                  CommitInOrder, CommitPcs
    <3>3. QED BY <3>2
  <2>2. CASE \E t \in Tasks, ok \in BOOLEAN : forget_unlink(t, ok)
    <3>1. PICK t \in Tasks, ok \in BOOLEAN : forget_unlink(t, ok) BY <2>2
    <3>2. /\ UNCHANGED <<history, manifest>> /\ task[t].pc = "forget_unlink"
          /\ objects' = objects
             \/ /\ objects' = objects \ {task[t].digest}
                /\ digest_users(mem.manifest, task[t].digest) = {}
      BY <3>1 DEF forget_unlink, Goes
    <3>3. task[t].kind = "FORGET" BY <3>2 DEF LedgerIInv, KindsFit
    <3>4. mem.manifest = manifest BY <3>2 DEF LedgerIInv, MemHeld, MemInStep, OpenPcs
    <3>5. QED BY <3>2, <3>3, <3>4 DEF digest_users
  <2>3. CASE \E ok \in BOOLEAN : commit_object(ok)
    BY <2>3 DEF commit_object
  <2>4. CASE UNCHANGED <<objects, history>> BY <2>4
  <2>5. ASSUME NEW t \in Tasks, Storage(t)
        PROVE  \/ UNCHANGED <<objects, history>>
               \/ \E ok \in BOOLEAN : forget_unlink(t, ok)
    BY <2>5 DEF Storage, attach, select_device, history_init, load_history, load_init, load_manifest,
                select_fails, forget_remove, mark_absent, forget_save, release_device, card
  <2>6. ASSUME SyncSession
        PROVE  \/ UNCHANGED <<objects, history>>
               \/ \E ok \in BOOLEAN : commit_object(ok) \/ commit_history_save(ok)
    BY <2>6 DEF SyncSession, device_scan_begin, list_path, list_ends, commit_history,
                commit_manifest, commit_manifest_save, device_scan_end, card
  <2>7. QED
    BY <2>1, <2>2, <2>3, <2>4, <2>5, <2>6
       DEF LedgerStep, device_changes, session_begins, delete_confirmed, portal_forgets,
           power_cut, card
<1>2. UnspoiltIInv /\ [LedgerNext]_ledgerVars => [~spoilt' => Kept]_ledgerVars
  BY <1>1, CleanStep DEF UnspoiltIInv
<1>3. QED BY <1>2, LedgerInvariance, PTL DEF LedgerSpec, VersionsKept

\* How the manifest on the card can change.
LEMMA ManifestSteps ==
    ASSUME LedgerIInv, LedgerStep
    PROVE  \/ UNCHANGED manifest
           \/ /\ manifest' = Listed(manifest)
              /\ \A p \in Paths : files[p] # NoDigest => p \in scan.seen
           \/ \E p \in Paths : /\ manifest' = [manifest EXCEPT ![p].presence = "ABSENT"]
                               /\ files[p] = NoDigest
           \/ \E t \in Tasks : /\ task[t].kind = "FORGET"
                               /\ manifest' = remove(manifest, task[t].path)
           \/ \E p \in Paths, d \in Digests : manifest' = upsert(manifest, p, d)
<1>1. ASSUME NEW complete \in BOOLEAN, NEW ok \in BOOLEAN, device_scan_end(complete, ok)
      PROVE  \/ UNCHANGED manifest
             \/ /\ manifest' = Listed(manifest)
                /\ \A p \in Paths : files[p] # NoDigest => p \in scan.seen
  <2>1. CASE ~scan_complete(complete) BY <1>1, <2>1 DEF device_scan_end
  <2>2. CASE scan_complete(complete)
    <3>1. /\ session.listed = Paths /\ mem.manifestReady /\ scan.active /\ ~scan.overflowed
          /\ manifest' \in {manifest, Listed(mem.manifest)} /\ session.pc \in SessionPcs
      BY <1>1, <2>2 DEF device_scan_end, scan_complete, Session, SessionPcs
    <3>2. mem.manifest = manifest BY <3>1, SessionFacts
    <3>3. \A p \in Paths : files[p] # NoDigest => p \in scan.seen
      BY <3>1 DEF LedgerIInv, ListingTrue
    <3>4. QED BY <3>1, <3>2, <3>3
  <2>3. QED BY <2>1, <2>2
<1>2. ASSUME NEW t \in Tasks, NEW ok \in BOOLEAN, mark_absent(t, ok)
      PROVE  \/ UNCHANGED manifest
             \/ \E p \in Paths : /\ manifest' = [manifest EXCEPT ![p].presence = "ABSENT"]
                                 /\ files[p] = NoDigest
  <2> DEFINE p == task[t].path
             n == [mem.manifest EXCEPT ![p].presence = "ABSENT"]
  <2>1. task[t].pc = "mark" /\ task[t].kind = "DELETE" /\ t = "transaction"
    BY <1>2 DEF mark_absent, Goes, LedgerIInv, KindsFit, Tasks
  <2>2. files[p] = NoDigest BY <2>1 DEF LedgerIInv, ListingTrue, session
  <2>3. mem.manifest = manifest /\ p \in Paths
    BY <2>1, TaskFields DEF LedgerIInv, MemHeld, MemInStep, OpenPcs
  <2>4. mem' \in {mem, [mem EXCEPT !.manifest = n]} /\ manifest' \in {manifest, mem'.manifest}
    BY <1>2 DEF mark_absent
  <2>5. manifest' \in {manifest, n} BY <2>3, <2>4 DEF LedgerIInv, WorkTypeOK
  <2>6. QED BY <2>2, <2>3, <2>5
<1>3. ASSUME NEW t \in Tasks, NEW ok \in BOOLEAN, forget_save(t, ok)
      PROVE  \/ UNCHANGED manifest
             \/ task[t].kind = "FORGET" /\ manifest' = remove(manifest, task[t].path)
  <2>1. task[t].pc = "forget_save" /\ manifest' \in {manifest, mem.manifest}
    BY <1>3 DEF forget_save, Goes
  <2>2. QED BY <2>1 DEF LedgerIInv, MemInStep, KindsFit
<1>4. ASSUME NEW ok \in BOOLEAN, commit_manifest_save(ok)
      PROVE  \/ UNCHANGED manifest
             \/ \E p \in Paths, d \in Digests : manifest' = upsert(manifest, p, d)
  <2>1. /\ session.pc \in SessionPcs /\ session.pc \in CommitPcs
        /\ manifest' \in {manifest, session.rows}
        /\ session.rows = upsert(manifest, session.path, session.digest)
    BY <1>4 DEF commit_manifest_save, Session, SessionPcs, CommitPcs, LedgerIInv, CommitInOrder
  <2>2. session.path \in Paths /\ session.digest \in Digests BY <2>1, SessionFacts
  <2>3. QED BY <2>1, <2>2
<1>5. ASSUME NEW t \in Tasks, Storage(t)
      PROVE  \/ UNCHANGED manifest
             \/ \E ok \in BOOLEAN : forget_save(t, ok) \/ mark_absent(t, ok)
  BY <1>5 DEF Storage, attach, select_device, history_init, load_history, load_init, load_manifest,
              select_fails, forget_remove, forget_unlink, release_device, card
<1>6. ASSUME SyncSession
      PROVE  \/ UNCHANGED manifest
             \/ \E ok \in BOOLEAN : commit_manifest_save(ok)
             \/ \E complete, ok \in BOOLEAN : device_scan_end(complete, ok)
  BY <1>6 DEF SyncSession, device_scan_begin, list_path, list_ends, commit_object,
              commit_history, commit_history_save, commit_manifest, card
<1>7. QED
  BY <1>1, <1>2, <1>3, <1>4, <1>5, <1>6
     DEF LedgerStep, device_changes, session_begins, delete_confirmed, portal_forgets,
         power_cut, card

\* A row is marked absent only for a file the AccessPort really lacks, until the tasks
\* overlap or a backup is missed or lost (revlink_sd_device_scan_end, mark_absent_locked).
THEOREM LedgerAbsentIsTrue == LedgerSpec => AbsentIsTrue
<1> DEFINE True ==
      \A p \in Rows(manifest') :
          manifest'[p].presence = "ABSENT" /\ manifest[p].presence # "ABSENT"
             => files[p] = NoDigest
<1>1. ASSUME LedgerIInv, LedgerStep PROVE True
  <2>1. manifest \in Manifest /\ \A t \in Tasks : task[t].path \in Paths
    BY <1>1, TaskFields DEF LedgerIInv, WorkTypeOK
  <2>2. CASE UNCHANGED manifest BY <2>2
  <2>3. CASE /\ manifest' = Listed(manifest)
             /\ \A p \in Paths : files[p] # NoDigest => p \in scan.seen
    BY <2>1, <2>3, ListedRows DEF Rows
  <2>4. ASSUME NEW p \in Paths, manifest' = [manifest EXCEPT ![p].presence = "ABSENT"],
               files[p] = NoDigest
        PROVE  True
    BY <2>1, <2>4, MarkRows DEF Rows
  <2>5. ASSUME NEW t \in Tasks, manifest' = remove(manifest, task[t].path) PROVE True
    BY <2>1, <2>5, RemoveRows
  <2>6. ASSUME NEW p \in Paths, NEW d \in Digests, manifest' = upsert(manifest, p, d)
        PROVE  True
    BY <2>1, <2>6, UpsertRows DEF Rows
  <2>7. QED BY <1>1, <2>2, <2>3, <2>4, <2>5, <2>6, ManifestSteps
<1>2. UnspoiltIInv /\ [LedgerNext]_ledgerVars => [~spoilt' => True]_ledgerVars
  BY <1>1, CleanStep DEF UnspoiltIInv
<1>3. QED BY <1>2, LedgerInvariance, PTL DEF LedgerSpec, AbsentIsTrue

\* Until the tasks overlap or a backup is missed or lost, a row leaves the manifest only
\* for an owner who forgets that file (forget_cached_locked); no failed load or save shortens it.
THEOREM LedgerRowsStay == LedgerSpec => RowsStay
<1> DEFINE Stay ==
      \A p \in Rows(manifest) :
          p \notin Rows(manifest')
             => \E t \in Tasks : task[t].kind = "FORGET" /\ task[t].path = p
<1>1. ASSUME LedgerIInv, LedgerStep PROVE Stay
  <2>1. manifest \in Manifest /\ \A t \in Tasks : task[t].path \in Paths
    BY <1>1, TaskFields DEF LedgerIInv, WorkTypeOK
  <2>2. CASE UNCHANGED manifest BY <2>2
  <2>3. CASE manifest' = Listed(manifest) BY <2>1, <2>3, ListedRows
  <2>4. ASSUME NEW p \in Paths, manifest' = [manifest EXCEPT ![p].presence = "ABSENT"]
        PROVE  Stay
    BY <2>1, <2>4, MarkRows
  <2>5. ASSUME NEW t \in Tasks, task[t].kind = "FORGET",
               manifest' = remove(manifest, task[t].path)
        PROVE  Stay
    BY <2>1, <2>5, RemoveRows
  <2>6. ASSUME NEW p \in Paths, NEW d \in Digests, manifest' = upsert(manifest, p, d)
        PROVE  Stay
    BY <2>1, <2>6, UpsertRows
  <2>7. QED BY <1>1, <2>2, <2>3, <2>4, <2>5, <2>6, ManifestSteps
<1>2. UnspoiltIInv /\ [LedgerNext]_ledgerVars => [~spoilt' => Stay]_ledgerVars
  BY <1>1, CleanStep DEF UnspoiltIInv
<1>3. QED BY <1>2, LedgerInvariance, PTL DEF LedgerSpec, RowsStay

(***************************************************************************)
(* What does not depend on the tasks' taking turns                         *)
(***************************************************************************)

Memories == [selected : BOOLEAN, historyReady : BOOLEAN, manifestReady : BOOLEAN,
             history : History, manifest : Manifest]

\* A download under way is of a file that was there.
Carries == session.pc \in CommitPcs => session.digest # NoDigest

CapacityIInv == WorkTypeOK /\ Carries /\ FiniteHistories /\ WithinCapacity

\* The catalogues, in memory, on the card and in the tasks, are the old ones, empty ones,
\* or fit.
LEMMA CapacityByParts ==
    ASSUME CapacityIInv,
           files' \in [Paths -> Digests \union {NoDigest}], objects' \subseteq Digests,
           history' \in History, manifest' \in Manifest, mem' \in Memories,
           writer' \in BOOLEAN,
           scan' \in [active : BOOLEAN, seen : SUBSET Paths, overflowed : BOOLEAN],
           task' \in [Tasks -> TaskState], Carries',
           HistoryFits(history'), HistoryFits(mem'.history), HistoryFits(session'.versions),
           ManifestFits(manifest'), ManifestFits(mem'.manifest), ManifestFits(session'.rows)
    PROVE  CapacityIInv'
  BY SizesByParts DEF CapacityIInv, WorkTypeOK, Memories

LEMMA CapacityFacts ==
    ASSUME CapacityIInv
    PROVE  /\ files \in [Paths -> Digests \union {NoDigest}] /\ objects \subseteq Digests
           /\ history \in History /\ manifest \in Manifest /\ mem \in Memories
           /\ mem.history \in History /\ mem.manifest \in Manifest
           /\ writer \in BOOLEAN
           /\ scan \in [active : BOOLEAN, seen : SUBSET Paths, overflowed : BOOLEAN]
           /\ task \in [Tasks -> TaskState] /\ Carries /\ "transaction" \in Tasks
           /\ session \in TaskState /\ session.path \in Paths
           /\ session.digest \in Digests \union {NoDigest} /\ session.listed \subseteq Paths
           /\ session.versions \in History /\ session.rows \in Manifest
           /\ session.pc \in CommitPcs => session.digest \in Digests
           /\ HistoryFits(history) /\ HistoryFits(mem.history) /\ HistoryFits(session.versions)
           /\ ManifestFits(manifest) /\ ManifestFits(mem.manifest) /\ ManifestFits(session.rows)
<1>1. "transaction" \in Tasks BY DEF Tasks
<1>2. /\ session \in TaskState /\ session.path \in Paths
      /\ session.digest \in Digests \union {NoDigest} /\ session.listed \subseteq Paths
      /\ session.versions \in History /\ session.rows \in Manifest
  BY <1>1, TaskFields DEF CapacityIInv, WorkTypeOK, session
<1>3. mem \in Memories /\ mem.history \in History /\ mem.manifest \in Manifest
  BY DEF CapacityIInv, WorkTypeOK, Memories
<1>4. QED BY <1>1, <1>2, <1>3, SizesByParts DEF CapacityIInv, WorkTypeOK, Carries

\* One task moves, not into a download, and keeps or drops its catalogues.
LEMMA MoveKeepsCapacity ==
    ASSUME CapacityIInv, NEW t \in Tasks,
           task' \in [Tasks -> TaskState], OnlyTask(t), task'[t].pc \notin CommitPcs,
           task'[t].versions \in {task[t].versions, {}},
           task'[t].rows \in {task[t].rows, NoRows},
           files' \in [Paths -> Digests \union {NoDigest}], objects' \subseteq objects,
           history' = history, manifest' \in Manifest, mem' \in Memories,
           writer' \in BOOLEAN, scan' = scan,
           HistoryFits(mem'.history), ManifestFits(manifest'), ManifestFits(mem'.manifest)
    PROVE  CapacityIInv'
<1>1. /\ Carries'
      /\ session'.versions \in {session.versions, {}} /\ session'.rows \in {session.rows, NoRows}
  <2>1. CASE t = "transaction" BY <2>1 DEF Carries, session
  <2>2. CASE t # "transaction"
    <3>1. session' = session BY <2>2 DEF OnlyTask, session, Tasks
    <3>2. QED BY <3>1 DEF CapacityIInv, Carries
  <2>3. QED BY <2>1, <2>2
<1>2. HistoryFits(session'.versions) /\ ManifestFits(session'.rows)
  BY <1>1, CapacityFacts, EmptyFits
<1>3. QED BY <1>1, <1>2, CapacityFacts, CapacityByParts

LEMMA StartKeepsCapacity ==
    ASSUME CapacityIInv, NEW t \in Tasks, NEW kind \in Kinds, NEW p \in Paths,
           NEW pc \in {"attach", "select"}, Start(t, kind, p, pc),
           UNCHANGED <<objects, history, manifest, mem, writer, scan>>,
           files' \in [Paths -> Digests \union {NoDigest}]
    PROVE  CapacityIInv'
<1>1. /\ task' \in [Tasks -> TaskState] /\ OnlyTask(t) /\ task'[t].pc = pc
      /\ task'[t].versions = {} /\ task'[t].rows = NoRows
  BY CapacityFacts, StartFacts DEF Pcs
<1>2. task'[t].pc \notin CommitPcs BY <1>1 DEF CommitPcs
<1>3. QED BY <1>1, <1>2, CapacityFacts, MoveKeepsCapacity

LEMMA OutsideKeepsCapacity ==
    ASSUME CapacityIInv,
           \/ device_changes
           \/ \E kind \in {"SYNC", "IDENTITY"} : session_begins(kind)
           \/ \E p \in Paths : delete_confirmed(p) \/ portal_forgets(p)
           \/ power_cut
           \/ UNCHANGED workVars
    PROVE  CapacityIInv'
<1>1. CASE device_changes
  <2>1. /\ UNCHANGED <<objects, history, manifest, mem, writer, scan, task>>
        /\ files' \in [Paths -> Digests \union {NoDigest}]
    BY <1>1, CapacityFacts DEF device_changes, card
  <2>2. session' = session /\ (Carries' <=> Carries) BY <2>1 DEF session, Carries
  <2>3. QED BY <2>1, <2>2, CapacityFacts, CapacityByParts
<1>2. ASSUME NEW kind \in {"SYNC", "IDENTITY"}, session_begins(kind) PROVE CapacityIInv'
  BY <1>2, CapacityFacts, StartKeepsCapacity, RestingType
     DEF session_begins, card, Tasks, Kinds
<1>3. ASSUME NEW p \in Paths, delete_confirmed(p) PROVE CapacityIInv'
  <2>1. files' \in [Paths -> Digests \union {NoDigest}]
    BY <1>3, CapacityFacts DEF delete_confirmed
  <2>2. QED BY <1>3, <2>1, StartKeepsCapacity DEF delete_confirmed, card, Tasks, Kinds
<1>4. ASSUME NEW p \in Paths, portal_forgets(p) PROVE CapacityIInv'
  BY <1>4, CapacityFacts, StartKeepsCapacity DEF portal_forgets, card, Tasks, Kinds
<1>5. CASE power_cut
  <2>1. /\ UNCHANGED <<files, objects, history, manifest>>
        /\ mem' = NoMem /\ writer' = FALSE /\ scan' = NoScan
        /\ task' \in [Tasks -> TaskState] /\ session' = Resting
    BY <1>5, RestingType DEF power_cut, card, session, Tasks
  <2>2. NoMem.history = {} /\ NoMem.manifest = NoRows BY DEF NoMem
  <2>3. Carries' BY <2>1, RestingType DEF Carries, CommitPcs
  <2>4. QED
    BY <2>1, <2>2, <2>3, CapacityFacts, CapacityByParts, NoMemType, EmptyFits, RestingType
       DEF Memories
<1>6. CASE UNCHANGED workVars
  <2>1. session' = session /\ (Carries' <=> Carries) BY <1>6 DEF workVars, session, Carries
  <2>2. QED BY <1>6, <2>1, CapacityFacts, CapacityByParts DEF workVars
<1>7. QED BY <1>1, <1>2, <1>3, <1>4, <1>5, <1>6

LEMMA StorageKeepsCapacity ==
    ASSUME CapacityIInv, NEW t \in Tasks, Storage(t)
    PROVE  CapacityIInv'
<1> DEFINE p == task[t].path
<1>1. /\ task \in [Tasks -> TaskState] /\ task[t].kind \in Kinds /\ p \in Paths
      /\ Body(task[t].kind) \in Pcs \ CommitPcs
  <2>1. WorkTypeOK BY DEF CapacityIInv
  <2>2. QED BY <2>1, CapacityFacts, TaskFields DEF CommitPcs
<1>2. \A here, there :
         there \in Pcs \ CommitPcs /\ Goes(t, here, there)
            => /\ task' \in [Tasks -> TaskState] /\ OnlyTask(t) /\ task'[t].pc \notin CommitPcs
               /\ task'[t].versions \in {task[t].versions, {}}
               /\ task'[t].rows \in {task[t].rows, NoRows}
  BY <1>1, GoesFacts DEF SameTask
<1>3. GivesUp(t) =>
         /\ task' \in [Tasks -> TaskState] /\ OnlyTask(t) /\ task'[t].pc \notin CommitPcs
         /\ task'[t].versions \in {task[t].versions, {}}
         /\ task'[t].rows \in {task[t].rows, NoRows}
  BY <1>1, GivesUpFacts DEF SameTask, CommitPcs
<1>4. {"select", "history_init", "load_history", "load_init", "load_manifest", "scan_end", "release",
       "forget_save", "forget_unlink"} \subseteq Pcs \ CommitPcs
  BY DEF Pcs, CommitPcs
<1>5. /\ NoRows \in Manifest /\ {} \in History
      /\ HistoryFits({}) /\ ManifestFits(NoRows)
  BY EmptyFits DEF NoRows, Manifest, Row, History
<1>6. CASE attach(t)
  <2>1. /\ task' \in [Tasks -> TaskState] /\ OnlyTask(t) /\ task'[t].pc \notin CommitPcs
        /\ task'[t].versions \in {task[t].versions, {}}
        /\ task'[t].rows \in {task[t].rows, NoRows}
    <3>1. CASE task' = [task EXCEPT ![t].pc = "select", ![t].attached = TRUE]
      BY <1>1, <3>1, AttachFacts DEF Pcs, CommitPcs, SameTask
    <3>2. QED BY <1>1, <1>2, <1>3, <1>6, <3>1 DEF attach
  <2>2. QED BY <1>6, <2>1, CapacityFacts, MoveKeepsCapacity DEF attach, card
<1>7. CASE select_device(t)
  <2>1. mem' \in Memories /\ mem'.history = mem.history /\ mem'.manifest = mem.manifest
    BY <1>7, CapacityFacts DEF select_device, Memories
  <2>2. QED
    BY <1>2, <1>4, <1>7, <2>1, CapacityFacts, MoveKeepsCapacity DEF select_device, card
<1>18. CASE history_init(t)
  <2>1. mem' \in Memories /\ mem'.history = {} /\ mem'.manifest = mem.manifest
    BY <1>5, <1>18, CapacityFacts DEF history_init, Memories
  <2>2. QED
    BY <1>2, <1>4, <1>5, <1>18, <2>1, CapacityFacts, MoveKeepsCapacity DEF history_init, card
<1>8. CASE load_history(t)
  <2>1. mem' \in Memories /\ mem'.history = history /\ mem'.manifest = mem.manifest
    BY <1>8, CapacityFacts DEF load_history, Memories
  <2>2. QED BY <1>2, <1>4, <1>8, <2>1, CapacityFacts, MoveKeepsCapacity DEF load_history, card
<1>9. CASE load_init(t)
  <2>1. mem' \in Memories /\ mem'.history = mem.history /\ mem'.manifest = NoRows
    BY <1>5, <1>9, CapacityFacts DEF load_init, Memories
  <2>2. QED
    BY <1>2, <1>4, <1>5, <1>9, <2>1, CapacityFacts, MoveKeepsCapacity DEF load_init, card
<1>10. CASE load_manifest(t)
  <2>1. mem' \in Memories /\ mem'.history = mem.history /\ mem'.manifest = manifest
    BY <1>10, CapacityFacts DEF load_manifest, Memories
  <2>2. QED
    BY <1>1, <1>2, <1>10, <2>1, CapacityFacts, MoveKeepsCapacity DEF load_manifest, card
<1>11. CASE select_fails(t)
  <2>1. mem' \in Memories /\ mem'.history = mem.history /\ mem'.manifest = mem.manifest
    BY <1>11, CapacityFacts DEF select_fails, Memories
  <2>2. QED
    BY <1>2, <1>3, <1>4, <1>11, <2>1, CapacityFacts, MoveKeepsCapacity DEF select_fails, card
<1>12. CASE forget_remove(t)
  <2> DEFINE n == remove(mem.manifest, p)
             there == IF p \in Rows(mem.manifest) THEN "forget_save" ELSE "release"
             r == [task[t] EXCEPT !.pc = there, !.digest = mem.manifest[p].digest]
  <2>1. mem.manifest \in Manifest /\ ManifestFits(mem.manifest) /\ HistoryFits(mem.history)
    BY CapacityFacts
  <2>2. n \in Manifest /\ ManifestFits(n)
    <3>1. n \in Manifest BY <1>1, <2>1, EditTypes
    <3>2. Rows(n) \subseteq Rows(mem.manifest) BY <1>1, <2>1, RemoveRows
    <3> HIDE DEF n
    <3>3. QED BY <2>1, <3>1, <3>2, RowsFit
  <2>3. task' = [task EXCEPT ![t].pc = there, ![t].digest = mem.manifest[p].digest]
        /\ UNCHANGED <<files, card, writer, scan>>
        /\ mem' \in {mem, [mem EXCEPT !.manifest = n]}
    BY <1>12 DEF forget_remove
  <2>4. there \in Pcs \ CommitPcs /\ mem.manifest[p].digest \in Digests \union {NoDigest}
    BY <1>1, <1>4, <2>1 DEF Manifest, Row, NoRow
  <2> HIDE DEF n, there
  <2>5. task' = [task EXCEPT ![t] = r] BY <2>3
  <2>6. /\ r \in TaskState /\ r.pc = there /\ r.versions = task[t].versions
        /\ r.rows = task[t].rows
    BY <1>1, <2>4 DEF TaskState
  <2> HIDE DEF r
  <2>7. task' \in [Tasks -> TaskState] /\ OnlyTask(t) /\ task'[t] = r
    BY <1>1, <2>5, <2>6, PutTask
  <2>8. mem' \in Memories /\ mem'.history = mem.history /\ mem'.manifest \in {mem.manifest, n}
    BY <2>2, <2>3, CapacityFacts DEF Memories
  <2>9. QED
    BY <2>1, <2>2, <2>3, <2>4, <2>6, <2>7, <2>8, CapacityFacts, MoveKeepsCapacity DEF card
<1>13. ASSUME NEW ok \in BOOLEAN, mark_absent(t, ok) PROVE CapacityIInv'
  <2> DEFINE n == [mem.manifest EXCEPT ![p].presence = "ABSENT"]
  <2>1. mem.manifest \in Manifest /\ ManifestFits(mem.manifest) /\ HistoryFits(mem.history)
    BY CapacityFacts
  <2>2. p \in Rows(mem.manifest) => n \in Manifest /\ ManifestFits(n)
    <3>1. p \in Rows(mem.manifest) => n \in Manifest BY <1>1, <2>1, EditTypes
    <3>2. Rows(n) = Rows(mem.manifest) BY <1>1, <2>1, MarkRows
    <3>3. QED BY <2>1, <3>1, <3>2 DEF ManifestFits
  <2>3. /\ \/ mem' = [mem EXCEPT !.manifest = n] /\ p \in Rows(mem.manifest)
              /\ manifest' \in {manifest, mem'.manifest}
           \/ mem' = mem /\ manifest' = manifest
        /\ UNCHANGED <<files, objects, history, writer, scan>> /\ Goes(t, "mark", "release")
    BY <1>13 DEF mark_absent
  <2> HIDE DEF n
  <2>4. /\ mem' \in Memories /\ mem'.history = mem.history
        /\ mem'.manifest \in Manifest /\ ManifestFits(mem'.manifest)
        /\ manifest' \in Manifest /\ ManifestFits(manifest')
    BY <2>1, <2>2, <2>3, CapacityFacts DEF Memories
  <2>5. QED BY <1>2, <1>4, <2>1, <2>3, <2>4, CapacityFacts, MoveKeepsCapacity
<1>14. ASSUME NEW ok \in BOOLEAN, forget_save(t, ok) PROVE CapacityIInv'
  <2>1. /\ UNCHANGED <<files, objects, history, mem, writer, scan>>
        /\ manifest' \in {manifest, mem.manifest}
        /\ \/ Goes(t, "forget_save", "forget_unlink") \/ Goes(t, "forget_save", "release")
    BY <1>14 DEF forget_save
  <2>2. QED BY <1>2, <1>4, <2>1, CapacityFacts, MoveKeepsCapacity
<1>15. ASSUME NEW ok \in BOOLEAN, forget_unlink(t, ok) PROVE CapacityIInv'
  BY <1>2, <1>4, <1>15, CapacityFacts, MoveKeepsCapacity DEF forget_unlink
<1>16. CASE release_device(t)
  <2>1. /\ task' \in [Tasks -> TaskState] /\ OnlyTask(t) /\ task'[t].pc \notin CommitPcs
        /\ task'[t].versions = {} /\ task'[t].rows = NoRows
    <3>1. CASE task' = [task EXCEPT ![t] = Resting]
      BY <1>1, <3>1, PutTask, RestingType DEF CommitPcs
    <3>2. CASE Start(t, "FORGET", task[t].path, "attach")
      BY <1>1, <3>2, StartFacts DEF Kinds, Pcs, CommitPcs
    <3>3. QED BY <1>16, <3>1, <3>2 DEF release_device
  <2>2. mem' \in {mem, NoMem} /\ writer' \in BOOLEAN /\ UNCHANGED <<files, card, scan>>
    BY <1>16, CapacityFacts DEF release_device
  <2>3. NoMem \in Memories /\ NoMem.history = {} /\ NoMem.manifest = NoRows
    BY NoMemType DEF Memories, NoMem
  <2>4. QED BY <1>5, <2>1, <2>2, <2>3, CapacityFacts, MoveKeepsCapacity DEF card
<1>17. QED
  BY <1>6, <1>7, <1>8, <1>9, <1>10, <1>11, <1>12, <1>13, <1>14, <1>15, <1>16, <1>18
     DEF Storage

LEMMA SessionKeepsCapacity ==
    ASSUME CapacityIInv, SyncSession
    PROVE  CapacityIInv'
<1> DEFINE v == <<session.path, session.digest>>
<1>0. /\ \A here, there : there \in Pcs /\ SessionGoes(here, there)
            => /\ session.pc = here /\ task' \in [Tasks -> TaskState] /\ OnlyTask("transaction")
               /\ session'.pc = there /\ session'.digest = session.digest
               /\ session'.versions = session.versions /\ session'.rows = session.rows
      /\ \A there \in Pcs : SessionBack(there)
            => /\ task' \in [Tasks -> TaskState] /\ OnlyTask("transaction")
               /\ session'.pc = there /\ session'.versions = {} /\ session'.rows = NoRows
  <2>1. task \in [Tasks -> TaskState] BY CapacityFacts
  <2>2. ASSUME NEW here, NEW there, there \in Pcs, SessionGoes(here, there)
        PROVE  /\ session.pc = here /\ task' \in [Tasks -> TaskState] /\ OnlyTask("transaction")
               /\ session'.pc = there /\ session'.digest = session.digest
               /\ session'.versions = session.versions /\ session'.rows = session.rows
    BY <2>1, <2>2, GoesFacts DEF SessionGoes, SameTask, session, Tasks
  <2>3. ASSUME NEW there \in Pcs, SessionBack(there)
        PROVE  /\ task' \in [Tasks -> TaskState] /\ OnlyTask("transaction")
               /\ session'.pc = there /\ session'.versions = {} /\ session'.rows = NoRows
    BY <2>1, <2>3, BackFacts DEF session
  <2>4. QED BY <2>2, <2>3
<1>1. CASE device_scan_begin
  <2>1. /\ session'.pc = "list" /\ task' \in [Tasks -> TaskState]
        /\ session'.versions = session.versions /\ session'.rows = session.rows
    BY <1>0, <1>1 DEF device_scan_begin, Pcs
  <2>2. scan' \in [active : BOOLEAN, seen : SUBSET Paths, overflowed : BOOLEAN]
    <3>1. NoScan \in [active : BOOLEAN, seen : SUBSET Paths, overflowed : BOOLEAN]
      BY NoMemType
    <3>2. [NoScan EXCEPT !.active = TRUE]
             \in [active : BOOLEAN, seen : SUBSET Paths, overflowed : BOOLEAN]
      BY <3>1
    <3>3. QED BY <1>1, <3>1, <3>2 DEF device_scan_begin
  <2>3. Carries' BY <2>1 DEF Carries, CommitPcs
  <2>4. QED
    BY <1>1, <2>1, <2>2, <2>3, CapacityFacts, CapacityByParts DEF device_scan_begin, card
<1>2. ASSUME NEW p \in Paths, NEW fits \in BOOLEAN, NEW matches \in BOOLEAN,
             NEW full \in BOOLEAN, list_path(p, fits, matches, full)
      PROVE  CapacityIInv'
  <2> DEFINE d == IF writer' THEN files[p] ELSE session.digest
             begin == files[p] # NoDigest /\ ~is_current(p, matches) /\ ~full
             there == IF writer' THEN "object" ELSE IF begin THEN "scan_end" ELSE "list"
             r == [session EXCEPT !.listed = session.listed \union {p},
                                  !.path = IF writer' THEN p ELSE session.path,
                                  !.digest = d,
                                  !.pc = there]
  <2>1. /\ UNCHANGED <<files, objects, history, manifest, mem>>
        /\ writer' \in BOOLEAN /\ (writer' => files[p] # NoDigest)
    BY <1>2 DEF list_path, card
  <2>2. there \in Pcs /\ (there \in CommitPcs => writer') BY DEF Pcs, CommitPcs
  <2>3. d \in Digests \union {NoDigest} /\ (writer' => d # NoDigest)
    BY <2>1, CapacityFacts
  <2>4. task' = [task EXCEPT !["transaction"] =
                   [session EXCEPT !.listed = session.listed \union {p},
                                   !.path = IF writer' THEN p ELSE session.path,
                                   !.digest = d,
                                   !.pc = there]]
    BY <1>2 DEF list_path
  <2>5. scan' = IF files[p] = NoDigest \/ ~scan.active THEN scan
                ELSE IF fits THEN [scan EXCEPT !.seen = @ \union {p}]
                ELSE [scan EXCEPT !.overflowed = TRUE]
    BY <1>2 DEF list_path
  <2> HIDE DEF there, d, begin
  <2>6. r \in TaskState BY <2>2, <2>3, CapacityFacts DEF TaskState
  <2>7. /\ r.pc = there /\ r.digest = d /\ r.versions = session.versions
        /\ r.rows = session.rows
    BY CapacityFacts DEF TaskState
  <2>8. task' = [task EXCEPT !["transaction"] = r] BY <2>4
  <2> HIDE DEF r
  <2>9. task' \in [Tasks -> TaskState] /\ session' = r
    BY <2>6, <2>8, CapacityFacts, PutTask DEF session
  <2>10. Carries' BY <2>2, <2>3, <2>7, <2>9 DEF Carries
  <2>11. scan' \in [active : BOOLEAN, seen : SUBSET Paths, overflowed : BOOLEAN]
    <3>1. scan \in [active : BOOLEAN, seen : SUBSET Paths, overflowed : BOOLEAN]
      BY CapacityFacts
    <3>2. scan.seen \union {p} \in SUBSET Paths BY <3>1
    <3>3. CASE scan' = [scan EXCEPT !.seen = @ \union {p}] BY <3>1, <3>2, <3>3
    <3>4. CASE scan' = [scan EXCEPT !.overflowed = TRUE] BY <3>1, <3>4
    <3>5. QED BY <2>5, <3>1, <3>3, <3>4
  <2>12. QED BY <2>1, <2>7, <2>9, <2>10, <2>11, CapacityFacts, CapacityByParts
<1>3. CASE list_ends
  <2>1. /\ session'.pc = "scan_end" /\ task' \in [Tasks -> TaskState]
        /\ session'.versions = session.versions /\ session'.rows = session.rows
    BY <1>0, <1>3 DEF list_ends, Pcs
  <2>2. Carries' BY <2>1 DEF Carries, CommitPcs
  <2>3. QED BY <1>3, <2>1, <2>2, CapacityFacts, CapacityByParts DEF list_ends, card
<1>4. ASSUME NEW there \in {"scan_end", "list", "release"}, SessionBack(there)
      PROVE  /\ task' \in [Tasks -> TaskState] /\ Carries'
             /\ HistoryFits(session'.versions) /\ ManifestFits(session'.rows)
  <2>1. there \in Pcs /\ there \notin CommitPcs BY DEF Pcs, CommitPcs
  <2>2. QED BY <1>0, <1>4, <2>1, EmptyFits DEF Carries
<1>5. ASSUME NEW ok \in BOOLEAN, commit_object(ok) PROVE CapacityIInv'
  <2>1. /\ session.pc = "object" /\ session.digest \in Digests
    BY <1>5, CapacityFacts DEF commit_object, Session, CommitPcs
  <2>2. objects' \subseteq Digests /\ writer' \in BOOLEAN
        /\ UNCHANGED <<files, history, manifest, mem, scan>>
    BY <1>5, <2>1, CapacityFacts DEF commit_object
  <2>3. /\ task' \in [Tasks -> TaskState] /\ Carries'
        /\ HistoryFits(session'.versions) /\ ManifestFits(session'.rows)
    <3>1. CASE SessionGoes("object", "history")
      BY <1>0, <2>1, <3>1, CapacityFacts, DigestAssumption DEF Pcs, Carries, CommitPcs
    <3>2. QED BY <1>4, <1>5, <3>1 DEF commit_object
  <2>4. QED BY <2>2, <2>3, CapacityFacts, CapacityByParts
<1>6. CASE commit_history
  <2>1. /\ session.pc = "history" /\ session.digest \in Digests
        /\ writer' \in BOOLEAN /\ UNCHANGED <<files, card, mem, scan>>
    BY <1>6, CapacityFacts DEF commit_history, Session, CommitPcs
  <2>2. /\ task' \in [Tasks -> TaskState] /\ Carries'
        /\ HistoryFits(session'.versions) /\ ManifestFits(session'.rows)
    <3>1. CASE writer /\ record_fits(mem.history, v)
      <4> DEFINE h == mem.history \union {v}
                 r == [session EXCEPT !.pc = "history_save", !.versions = h]
      <4>1. task' = [task EXCEPT !["transaction"].pc = "history_save",
                                  !["transaction"].versions = h]
        BY <1>6, <3>1 DEF commit_history
      <4>2. h \in History BY <2>1, CapacityFacts DEF History
      <4>3. HistoryFits(h) BY <3>1, CapacityFacts, RecordFits
      <4> HIDE DEF h
      <4>4. task' = [task EXCEPT !["transaction"] = r] BY <4>1 DEF session
      <4>5. /\ r \in TaskState /\ r.versions = h /\ r.rows = session.rows
            /\ r.digest = session.digest
        BY <4>2, CapacityFacts DEF TaskState, Pcs
      <4> HIDE DEF r
      <4>6. task' \in [Tasks -> TaskState] /\ session' = r
        BY <4>4, <4>5, CapacityFacts, PutTask DEF session
      <4>7. Carries' BY <2>1, <4>5, <4>6, DigestAssumption DEF Carries
      <4>8. QED BY <4>3, <4>5, <4>6, <4>7, CapacityFacts
    <3>2. QED BY <1>4, <1>6, <3>1 DEF commit_history
  <2>3. QED BY <2>1, <2>2, CapacityFacts, CapacityByParts DEF card
<1>7. ASSUME NEW ok \in BOOLEAN, commit_history_save(ok) PROVE CapacityIInv'
  <2>1. /\ session.pc = "history_save" /\ session.digest \in Digests
        /\ writer' \in BOOLEAN /\ UNCHANGED <<files, objects, manifest, scan>>
    BY <1>7, CapacityFacts DEF commit_history_save, Session, CommitPcs
  <2>2. /\ task' \in [Tasks -> TaskState] /\ Carries'
        /\ HistoryFits(session'.versions) /\ ManifestFits(session'.rows)
    <3>1. CASE SessionGoes("history_save", "manifest")
      BY <1>0, <2>1, <3>1, CapacityFacts, DigestAssumption DEF Pcs, Carries, CommitPcs
    <3>2. QED BY <1>4, <1>7, <3>1 DEF commit_history_save
  <2>3. /\ mem' \in Memories /\ history' \in History /\ HistoryFits(history')
        /\ HistoryFits(mem'.history) /\ mem'.manifest = mem.manifest
    <3>1. \/ history' = session.versions /\ mem' = [mem EXCEPT !.history = session.versions]
          \/ UNCHANGED <<history, mem>>
      BY <1>7 DEF commit_history_save
    <3>2. QED BY <3>1, CapacityFacts DEF Memories
  <2>4. QED BY <2>1, <2>2, <2>3, CapacityFacts, CapacityByParts
<1>8. CASE commit_manifest
  <2>1. /\ session.pc = "manifest" /\ session.digest \in Digests
        /\ writer' \in BOOLEAN /\ UNCHANGED <<files, card, mem, scan>>
    BY <1>8, CapacityFacts DEF commit_manifest, Session, CommitPcs
  <2>2. /\ task' \in [Tasks -> TaskState] /\ Carries'
        /\ HistoryFits(session'.versions) /\ ManifestFits(session'.rows)
    <3>1. CASE writer /\ upsert_fits(mem.manifest, session.path)
      <4> DEFINE n == upsert(mem.manifest, session.path, session.digest)
                 r == [session EXCEPT !.pc = "manifest_save", !.rows = n]
      <4>1. task' = [task EXCEPT !["transaction"].pc = "manifest_save",
                                  !["transaction"].rows = n]
        BY <1>8, <3>1 DEF commit_manifest
      <4>2. n \in Manifest BY <2>1, CapacityFacts, EditTypes
      <4>3. ManifestFits(n) BY <2>1, <3>1, CapacityFacts, UpsertFits
      <4> HIDE DEF n
      <4>4. task' = [task EXCEPT !["transaction"] = r] BY <4>1 DEF session
      <4>5. /\ r \in TaskState /\ r.versions = session.versions /\ r.rows = n
            /\ r.digest = session.digest
        BY <4>2, CapacityFacts DEF TaskState, Pcs
      <4> HIDE DEF r
      <4>6. task' \in [Tasks -> TaskState] /\ session' = r
        BY <4>4, <4>5, CapacityFacts, PutTask DEF session
      <4>7. Carries' BY <2>1, <4>5, <4>6, DigestAssumption DEF Carries
      <4>8. QED BY <4>3, <4>5, <4>6, <4>7, CapacityFacts
    <3>2. QED BY <1>4, <1>8, <3>1 DEF commit_manifest
  <2>3. QED BY <2>1, <2>2, CapacityFacts, CapacityByParts DEF card
<1>9. ASSUME NEW ok \in BOOLEAN, commit_manifest_save(ok) PROVE CapacityIInv'
  <2>1. writer' \in BOOLEAN /\ UNCHANGED <<files, objects, history, scan>>
    BY <1>9 DEF commit_manifest_save
  <2>2. /\ task' \in [Tasks -> TaskState] /\ Carries'
        /\ HistoryFits(session'.versions) /\ ManifestFits(session'.rows)
    BY <1>4, <1>9 DEF commit_manifest_save
  <2>3. /\ mem' \in Memories /\ manifest' \in Manifest /\ ManifestFits(manifest')
        /\ ManifestFits(mem'.manifest) /\ mem'.history = mem.history
    <3>1. \/ manifest' = session.rows /\ mem' = [mem EXCEPT !.manifest = session.rows]
          \/ UNCHANGED <<manifest, mem>>
      BY <1>9 DEF commit_manifest_save
    <3>2. QED BY <3>1, CapacityFacts DEF Memories
  <2>4. QED BY <2>1, <2>2, <2>3, CapacityFacts, CapacityByParts
<1>10. ASSUME NEW complete \in BOOLEAN, NEW ok \in BOOLEAN, device_scan_end(complete, ok)
       PROVE  CapacityIInv'
  <2> DEFINE n == Listed(mem.manifest)
  <2>1. /\ UNCHANGED <<files, objects, history, writer>> /\ scan' = NoScan
        /\ mem' \in {mem, [mem EXCEPT !.manifest = n]} /\ manifest' \in {manifest, n}
    BY <1>10 DEF device_scan_end
  <2>2. n \in Manifest /\ ManifestFits(n)
    BY CapacityFacts, ListedType, ListedRows DEF ManifestFits
  <2> HIDE DEF n
  <2>3. /\ task' \in [Tasks -> TaskState] /\ Carries'
        /\ HistoryFits(session'.versions) /\ ManifestFits(session'.rows)
    BY <1>4, <1>10 DEF device_scan_end
  <2>4. mem' \in Memories /\ mem'.history = mem.history /\ ManifestFits(mem'.manifest)
    BY <2>1, <2>2, CapacityFacts DEF Memories
  <2>5. QED BY <2>1, <2>2, <2>3, <2>4, CapacityFacts, CapacityByParts, NoMemType
<1>11. QED
  BY <1>1, <1>2, <1>3, <1>5, <1>6, <1>7, <1>8, <1>9, <1>10 DEF SyncSession

\* A catalogue that is missed or lost is a shorter one.
LEMMA GapKeepsCapacity ==
    ASSUME CapacityIInv, BackupGap
    PROVE  CapacityIInv'
<1>1. PICK t \in Tasks : load_misses_backup(t) \/ save_unlinks_backup(t) BY DEF BackupGap
<1>2. /\ NoRows \in Manifest /\ {} \in History
      /\ HistoryFits({}) /\ ManifestFits(NoRows)
  BY EmptyFits DEF NoRows, Manifest, Row, History
<1>3. CASE load_misses_backup(t)
  <2>1. /\ task \in [Tasks -> TaskState] /\ Body(task[t].kind) \in Pcs \ CommitPcs
        /\ "load_init" \in Pcs \ CommitPcs
    <3>1. WorkTypeOK BY DEF CapacityIInv
    <3>2. QED BY <3>1, CapacityFacts, TaskFields DEF CommitPcs, Pcs
  <2>2. PICK there \in Pcs \ CommitPcs : \E here : Goes(t, here, there)
    BY <1>3, <2>1 DEF load_misses_backup
  <2>3. /\ task' \in [Tasks -> TaskState] /\ OnlyTask(t) /\ task'[t].pc \notin CommitPcs
        /\ task'[t].versions \in {task[t].versions, {}}
        /\ task'[t].rows \in {task[t].rows, NoRows}
    BY <2>1, <2>2, GoesFacts DEF SameTask
  <2>4. /\ mem' \in Memories /\ mem'.history \in {mem.history, {}}
        /\ mem'.manifest \in {mem.manifest, NoRows}
        /\ UNCHANGED <<files, card, writer, scan>>
    BY <1>2, <1>3, CapacityFacts DEF load_misses_backup, Memories
  <2>5. QED BY <1>2, <2>3, <2>4, CapacityFacts, MoveKeepsCapacity DEF card
<1>4. CASE save_unlinks_backup(t)
  <2>1. /\ UNCHANGED <<files, objects, mem, writer, scan, task>>
        /\ history' \in {history, {}} /\ manifest' \in {manifest, NoRows}
    BY <1>4 DEF save_unlinks_backup
  <2>2. session' = session /\ (Carries' <=> Carries) BY <2>1 DEF session, Carries
  <2>3. QED BY <1>2, <2>1, <2>2, CapacityFacts, CapacityByParts
<1>5. QED BY <1>1, <1>3, <1>4

\* However the transaction task and the portal interleave, no catalogue outgrows its array
\* (revlink_sync_history_record_at, revlink_sync_manifest_upsert_at): no turn-taking is
\* assumed.
THEOREM LedgerWithinCapacity == LedgerSpec => [](LedgerTypeOK /\ WithinCapacity)
<1> DEFINE Inv == CapacityIInv /\ spoilt \in BOOLEAN
<1>1. LedgerInit => Inv
  <2> SUFFICES ASSUME LedgerInit PROVE CapacityIInv BY DEF LedgerInit
  <2>1. LedgerIInv BY LedgerInitInv
  <2>2. session = Resting BY DEF LedgerInit, session, Tasks
  <2>3. QED BY <2>1, <2>2, RestingType DEF LedgerIInv, CapacityIInv, Carries, CommitPcs
<1>2. Inv /\ [LedgerNext]_ledgerVars => Inv'
  <2> SUFFICES ASSUME Inv, [LedgerNext]_ledgerVars PROVE Inv' OBVIOUS
  <2>1. spoilt' \in BOOLEAN BY DEF LedgerNext, ledgerVars
  <2>2. CASE LedgerStep \/ UNCHANGED workVars
    <3>1. CASE SyncSession BY <2>1, <3>1, SessionKeepsCapacity
    <3>2. ASSUME NEW t \in Tasks, Storage(t) PROVE CapacityIInv'
      BY <3>2, StorageKeepsCapacity
    <3>3. QED BY <2>1, <2>2, <3>1, <3>2, OutsideKeepsCapacity DEF LedgerStep
  <2>3. CASE BackupGap BY <2>1, <2>3, GapKeepsCapacity
  <2>4. QED BY <2>2, <2>3 DEF LedgerNext, ledgerVars
<1>3. Inv => LedgerTypeOK /\ WithinCapacity BY DEF CapacityIInv, LedgerTypeOK
<1> HIDE DEF Inv
<1>4. QED BY <1>1, <1>2, <1>3, PTL DEF LedgerSpec
=============================================================================
