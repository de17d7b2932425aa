------------------------------- MODULE Ledger -------------------------------
(***************************************************************************)
(* The microSD ledger of one AccessPort                                    *)
(* (esp32p4/main/revlink_sd_storage.c with revlink_sync_manifest.c and     *)
(* revlink_sync_history.c): objects named by their digest, the version     *)
(* history and the current manifest, and the two tasks that work on them.  *)
(* The transaction task syncs, identifies and deletes; the portal forgets  *)
(* cached files.  Both use the same copies in memory, without a lock, and  *)
(* nothing keeps them from doing so at the same time.                      *)
(*                                                                         *)
(* A catalogue on the card is the durable value of DurableFile, which      *)
(* CatalogueFile shows its three files to be: a save writes it or fails,   *)
(* and the gap of that promise is here too (BackupGap).  An object is      *)
(* there complete or not at all, because a download is renamed into place  *)
(* after its size was checked.  Each file is a collection, listed by       *)
(* itself.  Left out: the kinds of files, which choose the directory of an *)
(* object, the times and sizes, the annotations, the projection the portal *)
(* displays, and cards with several datasets.                              *)
(***************************************************************************)
EXTENDS Integers, FiniteSets

CONSTANTS
    Paths,               \* files an AccessPort can have
    Digests,             \* contents
    NoDigest,            \* no file
    HISTORY_CAPACITY,    \* REVLINK_SYNC_HISTORY_CAPACITY
    MANIFEST_CAPACITY    \* REVLINK_SYNC_MANIFEST_CAPACITY

ASSUME DigestAssumption == NoDigest \notin Digests
ASSUME CapacityAssumption == HISTORY_CAPACITY \in Nat /\ MANIFEST_CAPACITY \in Nat
ASSUME PathAssumption == IsFiniteSet(Paths) /\ Paths # {}

VARIABLES
    files,       \* external: what is on the AccessPort
    objects,     \* card: the objects
    history,     \* card: the version history
    manifest,    \* card: the current manifest
    mem,         \* memory: storage_device.selected, both catalogues, ready flags
    writer,      \* memory: download_writer is in use
    scan,        \* memory: the listing pass
    task,        \* the transaction task and the portal
    spoilt       \* history: the tasks have overlapped, or a backup was missed or lost

workVars == <<files, objects, history, manifest, mem, writer, scan, task>>
ledgerVars == <<workVars, spoilt>>

card == <<objects, history, manifest>>

Presence == {"UNKNOWN", "ON_DEVICE", "ABSENT"}
NoRow == [digest |-> NoDigest, presence |-> "UNKNOWN"]
Row == [digest : Digests, presence : Presence] \union {NoRow}
Manifest == [Paths -> Row]
NoRows == [p \in Paths |-> NoRow]
History == SUBSET (Paths \X Digests)

Tasks == {"transaction", "portal"}
Kinds == {"SYNC", "IDENTITY", "DELETE", "FORGET"}
Pcs == {"idle", "attach", "select", "history_init", "load_history", "load_init",
        "load_manifest", "scan_begin", "list", "object", "history", "history_save", "manifest",
        "manifest_save", "scan_end", "mark", "forget", "forget_save", "forget_unlink",
        "release"}

CommitPcs == {"object", "history", "history_save", "manifest", "manifest_save"}
SessionPcs == {"scan_begin", "list", "scan_end"} \union CommitPcs
SelectPcs == {"attach", "select", "history_init", "load_history", "load_init", "load_manifest"}
OpenPcs == (SessionPcs \ {"scan_end"}) \union {"mark", "forget", "forget_save", "forget_unlink"}

TaskState == [pc : Pcs, kind : Kinds, path : Paths, digest : Digests \union {NoDigest},
              listed : SUBSET Paths, attached : BOOLEAN,
              versions : History, rows : Manifest]

Resting == [pc |-> "idle", kind |-> "SYNC", path |-> CHOOSE p \in Paths : TRUE,
            digest |-> NoDigest, listed |-> {}, attached |-> FALSE,
            versions |-> {}, rows |-> NoRows]

WorkTypeOK ==
    /\ files \in [Paths -> Digests \union {NoDigest}]
    /\ objects \subseteq Digests
    /\ history \in History
    /\ manifest \in Manifest
    /\ mem \in [selected : BOOLEAN, historyReady : BOOLEAN, manifestReady : BOOLEAN,
                history : History, manifest : Manifest]
    /\ writer \in BOOLEAN
    /\ scan \in [active : BOOLEAN, seen : SUBSET Paths, overflowed : BOOLEAN]
    /\ task \in [Tasks -> TaskState]

LedgerTypeOK == WorkTypeOK /\ spoilt \in BOOLEAN

NoMem == [selected |-> FALSE, historyReady |-> FALSE, manifestReady |-> FALSE,
          history |-> {}, manifest |-> NoRows]
NoScan == [active |-> FALSE, seen |-> {}, overflowed |-> FALSE]

LedgerInit ==
    /\ files \in [Paths -> Digests \union {NoDigest}]
    /\ objects = {} /\ history = {} /\ manifest = NoRows
    /\ mem = NoMem /\ writer = FALSE /\ scan = NoScan
    /\ task = [t \in Tasks |-> Resting]
    /\ spoilt = FALSE

(***************************************************************************)
(* Manifest and history                                                    *)
(***************************************************************************)
Rows(m) == {p \in Paths : m[p].digest # NoDigest}

\* revlink_sync_manifest_upsert_at: the presence is carried over, and unknown at
\* first.
upsert(m, p, d) == [m EXCEPT ![p].digest = d]

upsert_fits(m, p) == p \in Rows(m) \/ Cardinality(Rows(m)) < MANIFEST_CAPACITY

\* revlink_sync_manifest_remove
remove(m, p) == [m EXCEPT ![p] = NoRow]

\* A plausible slip: the users are counted without the row just removed from the
\* card, but with no regard to the others.
digest_users_none(m, d) == {}

\* revlink_sync_manifest_digest_users
digest_users(m, d) == {p \in Paths : m[p].digest = d}

\* A plausible slip: the slot after the last is taken.
record_fits_over(h, v) == v \in h \/ Cardinality(h) <= HISTORY_CAPACITY

\* revlink_sync_history_record_at: a version is recorded once.
record_fits(h, v) == v \in h \/ Cardinality(h) < HISTORY_CAPACITY

(***************************************************************************)
(* Tasks                                                                   *)
(***************************************************************************)
Goes(t, here, there) == task[t].pc = here /\ task' = [task EXCEPT ![t].pc = there]

Other(t) == IF t = "portal" THEN "transaction" ELSE "portal"

\* Nothing in the storage adapter keeps the tasks apart.
MayStart(t) == task[t].pc = "idle"

Overlapping == \A t \in Tasks : task[t].pc # "idle"

Start(t, kind, p, pc) ==
    task' = [task EXCEPT ![t] = [Resting EXCEPT !.pc = pc, !.kind = kind, !.path = p,
                                                !.attached = pc = "select"]]

\* External: the AccessPort is used, or another one is attached.
device_changes ==
    /\ task["transaction"].pc = "idle"
    /\ \E p \in Paths, d \in Digests \union {NoDigest} : files' = [files EXCEPT ![p] = d]
    /\ UNCHANGED <<card, mem, writer, scan, task>>

\* A sync or an identity session selects its namespace.
session_begins(kind) ==
    /\ MayStart("transaction")
    /\ Start("transaction", kind, Resting.path, "select")
    /\ UNCHANGED <<files, card, mem, writer, scan>>

\* A file was removed from the AccessPort: observe_delete.
delete_confirmed(p) ==
    /\ MayStart("transaction")
    /\ files[p] # NoDigest
    /\ files' = [files EXCEPT ![p] = NoDigest]
    /\ Start("transaction", "DELETE", p, "attach")
    /\ UNCHANGED <<card, mem, writer, scan>>

\* The portal looks at the sync state once, and then forgets.
portal_forgets(p) ==
    /\ MayStart("portal")
    /\ ~(task["transaction"].pc # "idle" /\ task["transaction"].kind = "SYNC")
    /\ Start("portal", "FORGET", p, "attach")
    /\ UNCHANGED <<files, card, mem, writer, scan>>

\* attach_displayed_dataset
Body(kind) ==
    CASE kind = "SYNC" -> "scan_begin"
      [] kind = "IDENTITY" -> "release"
      [] kind = "DELETE" -> "mark"
      [] kind = "FORGET" -> "forget"

\* An edit of the catalogue that cannot be made answers an error.
GivesUp(t) == task' = [task EXCEPT ![t].pc = "release", ![t].attached = FALSE]

attach(t) ==
    /\ task[t].pc = "attach"
    /\ \/ ~mem.selected /\ task' = [task EXCEPT ![t].pc = "select", ![t].attached = TRUE]
       \/ mem.selected /\ mem.manifestReady /\ Goes(t, "attach", Body(task[t].kind))
       \/ ~(mem.selected /\ mem.manifestReady) /\ GivesUp(t)
    /\ UNCHANGED <<files, card, mem, writer, scan>>

(***************************************************************************)
(* revlink_sd_select_device                                                *)
(***************************************************************************)
select_device(t) ==
    /\ Goes(t, "select", "history_init")
    /\ mem' = [mem EXCEPT !.selected = FALSE, !.historyReady = FALSE, !.manifestReady = FALSE]
    /\ writer' = FALSE
    /\ UNCHANGED <<files, card, scan>>

\* A load empties the copy in memory first.
history_init(t) ==
    /\ Goes(t, "history_init", "load_history")
    /\ mem' = [mem EXCEPT !.selected = TRUE, !.history = {}, !.historyReady = FALSE]
    /\ UNCHANGED <<files, card, writer, scan>>

load_history(t) ==
    /\ Goes(t, "load_history", "load_init")
    /\ mem' = [mem EXCEPT !.history = history, !.historyReady = TRUE]
    /\ UNCHANGED <<files, card, writer, scan>>

load_init(t) ==
    /\ Goes(t, "load_init", "load_manifest")
    /\ mem' = [mem EXCEPT !.manifest = NoRows, !.manifestReady = FALSE]
    /\ UNCHANGED <<files, card, writer, scan>>

load_manifest(t) ==
    /\ Goes(t, "load_manifest", Body(task[t].kind))
    /\ mem' = [mem EXCEPT !.manifest = manifest, !.manifestReady = TRUE]
    /\ UNCHANGED <<files, card, writer, scan>>

\* A plausible slip: a manifest that could not be read is taken for an empty one.
select_fails_ready(t) ==
    /\ Goes(t, "load_manifest", Body(task[t].kind))
    /\ mem' = [mem EXCEPT !.manifestReady = TRUE]
    /\ UNCHANGED <<files, card, writer, scan>>

\* A step of the selection fails.  A session goes on to its cleanup, which
\* releases in any case.
select_fails(t) ==
    /\ task[t].pc \in {"history_init", "load_history", "load_init", "load_manifest"}
    /\ mem' = [mem EXCEPT !.selected = FALSE, !.historyReady = FALSE, !.manifestReady = FALSE]
    /\ IF task[t].kind \in {"SYNC", "IDENTITY"} THEN Goes(t, task[t].pc, "scan_end")
                                               ELSE GivesUp(t)
    /\ UNCHANGED <<files, card, writer, scan>>

\* revlink_sd_release_device.  After a confirmed delete the owner may have asked
\* for the cached copy to go too.
release_device(t) ==
    /\ task[t].pc = "release"
    /\ IF task[t].attached
       THEN mem' = NoMem /\ writer' = FALSE
       ELSE UNCHANGED <<mem, writer>>
    /\ \/ task' = [task EXCEPT ![t] = Resting]
       \/ task[t].kind = "DELETE" /\ Start(t, "FORGET", task[t].path, "attach")
    /\ UNCHANGED <<files, card, scan>>

(***************************************************************************)
(* The sync session: listing and download                                  *)
(***************************************************************************)
session == task["transaction"]
Session(here) == session.pc = here
SessionGoes(here, there) == Goes("transaction", here, there)

\* A download is over and its copies are freed.
SessionBack(there) ==
    task' = [task EXCEPT !["transaction"] =
               [Resting EXCEPT !.pc = there, !.kind = session.kind, !.listed = session.listed,
                               !.attached = TRUE]]

\* Without memory for the paths the pass is not opened.
device_scan_begin ==
    /\ SessionGoes("scan_begin", "list")
    /\ scan' \in {NoScan, [NoScan EXCEPT !.active = TRUE]}
    /\ UNCHANGED <<files, card, mem, writer>>

\* revlink_sd_download_is_current: the time and size of the row match and its
\* object is there.
is_current(p, matches) ==
    /\ mem.manifestReady
    /\ p \in Rows(mem.manifest) /\ matches
    /\ mem.manifest[p].digest \in objects

\* A file is listed and, if it is there, observed; unless it is current or the
\* batch is full its download begins.
list_path(p, fits, matches, full) ==
    /\ Session("list") /\ p \notin session.listed
    /\ LET found == files[p] # NoDigest
           begin == found /\ ~is_current(p, matches) /\ ~full
           open == mem.selected /\ mem.historyReady /\ mem.manifestReady
       IN /\ scan' = IF ~found \/ ~scan.active THEN scan
                     ELSE IF fits THEN [scan EXCEPT !.seen = @ \union {p}]
                     ELSE [scan EXCEPT !.overflowed = TRUE]
          /\ writer' = (begin /\ open)
          /\ task' = [task EXCEPT !["transaction"] =
                        [session EXCEPT
                            !.listed = session.listed \union {p},
                            !.path = IF writer' THEN p ELSE session.path,
                            !.digest = IF writer' THEN files[p] ELSE session.digest,
                            !.pc = IF writer' THEN "object"
                                   ELSE IF begin THEN "scan_end" ELSE "list"]]
    /\ UNCHANGED <<files, card, mem>>

list_ends ==
    /\ SessionGoes("list", "scan_end")
    /\ UNCHANGED <<files, card, mem, writer, scan>>

(***************************************************************************)
(* revlink_sd_download_commit: object, history, manifest                   *)
(***************************************************************************)

\* A plausible slip: an object that could not be put in place is recorded.
commit_object_unchecked(ok) ==
    /\ SessionGoes("object", "history")
    /\ objects' = IF ok THEN objects \union {session.digest} ELSE objects
    /\ UNCHANGED <<files, history, manifest, mem, writer, scan>>

\* The transfer, its size check and the rename into place; an object that is
\* already there is kept.
commit_object(ok) ==
    /\ Session("object")
    /\ ok => writer
    /\ objects' = IF ok THEN objects \union {session.digest} ELSE objects
    /\ IF ok THEN SessionGoes("object", "history") ELSE SessionBack("scan_end")
    /\ writer' = ok
    /\ UNCHANGED <<files, history, manifest, mem, scan>>

\* The candidate history; a download aborted by the other task has no path.
commit_history ==
    /\ Session("history")
    /\ LET version == <<session.path, session.digest>>
       IN IF writer /\ record_fits(mem.history, version)
          THEN /\ task' = [task EXCEPT !["transaction"].pc = "history_save",
                                        !["transaction"].versions = mem.history \union {version}]
               /\ UNCHANGED writer
          ELSE SessionBack("scan_end") /\ writer' = FALSE
    /\ UNCHANGED <<files, card, mem, scan>>

commit_history_save(ok) ==
    /\ Session("history_save")
    /\ ok => mem.historyReady
    /\ IF ok
       THEN /\ SessionGoes("history_save", "manifest")
            /\ history' = session.versions
            /\ mem' = [mem EXCEPT !.history = session.versions]
            /\ UNCHANGED writer
       ELSE SessionBack("scan_end") /\ writer' = FALSE /\ UNCHANGED <<history, mem>>
    /\ UNCHANGED <<files, objects, manifest, scan>>

commit_manifest ==
    /\ Session("manifest")
    /\ IF writer /\ upsert_fits(mem.manifest, session.path)
       THEN /\ task' = [task EXCEPT !["transaction"].pc = "manifest_save",
                                     !["transaction"].rows =
                                        upsert(mem.manifest, session.path, session.digest)]
            /\ UNCHANGED writer
       ELSE SessionBack("scan_end") /\ writer' = FALSE
    /\ UNCHANGED <<files, card, mem, scan>>

commit_manifest_save(ok) ==
    /\ Session("manifest_save")
    /\ ok => mem.manifestReady
    /\ SessionBack(IF ok THEN "list" ELSE "scan_end")
    /\ IF ok
       THEN manifest' = session.rows /\ mem' = [mem EXCEPT !.manifest = session.rows]
       ELSE UNCHANGED <<manifest, mem>>
    /\ writer' = FALSE
    /\ UNCHANGED <<files, objects, history, scan>>

(***************************************************************************)
(* revlink_sd_device_scan_end                                              *)
(***************************************************************************)

\* A plausible slip: whatever was listed is taken for the whole device.
scan_complete_always(complete) == scan.active

\* Only a pass over every place whose paths all fitted says who is absent.
scan_complete(complete) == complete /\ scan.active /\ ~scan.overflowed /\ mem.manifestReady

Listed(m) ==
    [p \in Paths |-> IF p \notin Rows(m) THEN m[p]
                     ELSE [m[p] EXCEPT !.presence = IF p \in scan.seen THEN "ON_DEVICE"
                                                                       ELSE "ABSENT"]]

\* complete: every listing was read and nothing was cancelled.
device_scan_end(complete, ok) ==
    /\ complete => session.listed = Paths
    /\ Session("scan_end") /\ SessionBack("release")
    /\ IF scan_complete(complete)
       THEN /\ mem' = [mem EXCEPT !.manifest = Listed(mem.manifest)]
            /\ manifest' = IF ok THEN Listed(mem.manifest) ELSE manifest
       ELSE UNCHANGED <<mem, manifest>>
    /\ scan' = NoScan
    /\ UNCHANGED <<files, objects, history, writer>>

(***************************************************************************)
(* Edits of the manifest: mark_absent_locked and forget_cached_locked      *)
(***************************************************************************)
mark_absent(t, ok) ==
    /\ Goes(t, "mark", "release")
    /\ IF task[t].path \in Rows(mem.manifest)
       THEN /\ mem' = [mem EXCEPT !.manifest[task[t].path].presence = "ABSENT"]
            /\ manifest' = IF ok /\ mem.manifestReady THEN mem'.manifest ELSE manifest
       ELSE UNCHANGED <<mem, manifest>>
    /\ UNCHANGED <<files, objects, history, writer, scan>>

forget_remove(t) ==
    /\ task[t].pc = "forget"
    /\ LET p == task[t].path
           found == p \in Rows(mem.manifest)
       IN /\ mem' = IF found THEN [mem EXCEPT !.manifest = remove(@, p)] ELSE mem
          /\ task' = [task EXCEPT ![t].pc = IF found THEN "forget_save" ELSE "release",
                                  ![t].digest = mem.manifest[p].digest]
    /\ UNCHANGED <<files, card, writer, scan>>

\* The catalogue is saved before the payload is unlinked.
forget_save(t, ok) ==
    /\ ok => mem.manifestReady
    /\ Goes(t, "forget_save", IF ok THEN "forget_unlink" ELSE "release")
    /\ manifest' = IF ok THEN mem.manifest ELSE manifest
    /\ UNCHANGED <<files, objects, history, mem, writer, scan>>

\* The payload goes with its last row; the unlink may fail.
forget_unlink(t, ok) ==
    /\ Goes(t, "forget_unlink", "release")
    /\ objects' = IF ok /\ digest_users(mem.manifest, task[t].digest) = {}
                  THEN objects \ {task[t].digest} ELSE objects
    /\ UNCHANGED <<files, history, manifest, mem, writer, scan>>

(***************************************************************************)
(* Specification                                                           *)
(***************************************************************************)

\* A power cut or a reset: memory is lost, the card is not.
power_cut ==
    /\ mem' = NoMem /\ writer' = FALSE /\ scan' = NoScan
    /\ task' = [t \in Tasks |-> Resting]
    /\ UNCHANGED <<files, card>>

Storage(t) ==
    \/ attach(t)
    \/ select_device(t) \/ history_init(t) \/ load_history(t) \/ load_init(t) \/ load_manifest(t)
    \/ select_fails(t)
    \/ forget_remove(t)
    \/ \E ok \in BOOLEAN : mark_absent(t, ok) \/ forget_save(t, ok) \/ forget_unlink(t, ok)
    \/ release_device(t)

SyncSession ==
    \/ device_scan_begin
    \/ \E p \in Paths, fits, matches, full \in BOOLEAN : list_path(p, fits, matches, full)
    \/ list_ends
    \/ \E ok \in BOOLEAN : commit_object(ok)
    \/ commit_history \/ \E ok \in BOOLEAN : commit_history_save(ok)
    \/ commit_manifest \/ \E ok \in BOOLEAN : commit_manifest_save(ok)
    \/ \E complete, ok \in BOOLEAN : device_scan_end(complete, ok)

(***************************************************************************)
(* The gap in the promise of a catalogue: one that an earlier save left in *)
(* its backup only may be taken for an empty one by a load, and is gone    *)
(* once a save has unlinked the backup, until that save publishes.  Which  *)
(* catalogue is in that place is CatalogueFile's matter; here any may be.  *)
(***************************************************************************)
load_misses_backup(t) ==
    /\ \/ /\ Goes(t, "load_history", "load_init")
          /\ mem' = [mem EXCEPT !.history = {}, !.historyReady = TRUE]
       \/ /\ Goes(t, "load_manifest", Body(task[t].kind))
          /\ mem' = [mem EXCEPT !.manifest = NoRows, !.manifestReady = TRUE]
    /\ UNCHANGED <<files, card, writer, scan>>

save_unlinks_backup(t) ==
    /\ \/ /\ task[t].pc = "history_save" /\ mem.historyReady
          /\ history' = {} /\ UNCHANGED manifest
       \/ /\ task[t].pc \in {"manifest_save", "scan_end", "mark", "forget_save"}
          /\ mem.manifestReady
          /\ manifest' = NoRows /\ UNCHANGED history
    /\ UNCHANGED <<files, objects, mem, writer, scan, task>>

BackupGap == \E t \in Tasks : load_misses_backup(t) \/ save_unlinks_backup(t)

LedgerStep ==
    \/ device_changes
    \/ \E kind \in {"SYNC", "IDENTITY"} : session_begins(kind)
    \/ \E p \in Paths : delete_confirmed(p) \/ portal_forgets(p)
    \/ \E t \in Tasks : Storage(t)
    \/ SyncSession
    \/ power_cut

LedgerNext ==
    \/ LedgerStep /\ spoilt' = (spoilt \/ Overlapping')
    \/ BackupGap /\ spoilt' = TRUE

LedgerSpec == LedgerInit /\ [][LedgerNext]_ledgerVars

(***************************************************************************)
(* Properties                                                              *)
(***************************************************************************)

\* As long as the two tasks have not overlapped and no backup was missed or lost,
\* every row of the manifest has its object on the card, and the version it names was
\* recorded before (the manifest is advanced only after the history), so what the portal
\* offers it can produce, wherever the power was cut and whatever save failed
\* (revlink_sd_download_commit; forget_cached_locked: "The other order would leave
\* a manifest row pointing at a file that is gone").
RowsBacked ==
    ~spoilt => \A p \in Rows(manifest) :
                  manifest[p].digest \in objects /\ <<p, manifest[p].digest>> \in history

\* As long as the two tasks have not overlapped and no backup was missed or lost, a
\* version is backed by its object when it is recorded and is never dropped from
\* the history, and an object leaves the card only when the owner forgets the last
\* file with that content (revlink_sd_download_commit, forget_cached_locked).
VersionsKept ==
    [][~spoilt' =>
         /\ history \subseteq history'
         /\ \A v \in history' \ history : v[2] \in objects'
         /\ \A d \in objects \ objects' :
               /\ \E t \in Tasks : task[t].kind = "FORGET" /\ task[t].digest = d
               /\ \A p \in Paths : manifest[p].digest # d]_ledgerVars

\* Neither catalogue outgrows its array, in memory or on the card, however often
\* files are downloaded and forgotten (revlink_sync_history_record_at,
\* revlink_sync_manifest_upsert_at).
WithinCapacity ==
    /\ \A h \in {history, mem.history, session.versions} : Cardinality(h) <= HISTORY_CAPACITY
    /\ \A m \in {manifest, mem.manifest, session.rows} :
          Cardinality(Rows(m)) <= MANIFEST_CAPACITY

\* As long as the two tasks have not overlapped and no backup was missed or lost, a
\* row is marked absent only when the AccessPort really lacks the file: an
\* incomplete, cancelled or overflowed listing marks nothing
\* (revlink_sd_device_scan_end, mark_absent_locked).
AbsentIsTrue ==
    [][~spoilt' =>
         \A p \in Rows(manifest') :
            manifest'[p].presence = "ABSENT" /\ manifest[p].presence # "ABSENT"
               => files[p] = NoDigest]_ledgerVars

\* As long as the two tasks have not overlapped and no backup was missed or lost, a
\* row leaves the manifest only by the owner's request to forget that file; no
\* failed load or save makes a shorter manifest of it.
RowsStay ==
    [][~spoilt' =>
         \A p \in Rows(manifest) :
            p \notin Rows(manifest')
               => \E t \in Tasks : task[t].kind = "FORGET" /\ task[t].path = p]_ledgerVars

\* Its first half without the exceptions, which the code does not keep: see RowsBacked.
RowsBackedAlways == \A p \in Rows(manifest) : manifest[p].digest \in objects

(***************************************************************************)
(* The inductive invariant: LedgerIInv, until the ledger is spoilt         *)
(***************************************************************************)

\* While one task works, the other rests.
OneAtATime == \A t \in Tasks : task[t].pc # "idle" => task[Other(t)].pc = "idle"

\* What a task is doing fits what it was started for.
KindsFit ==
    \A t \in Tasks :
        /\ t = "portal" /\ task[t].pc # "idle" => task[t].kind = "FORGET"
        /\ task[t].pc \in {"forget", "forget_save", "forget_unlink"} => task[t].kind = "FORGET"
        /\ task[t].pc = "mark" => task[t].kind = "DELETE"
        /\ task[t].pc \in SessionPcs => task[t].kind \in {"SYNC", "IDENTITY"}
        /\ task[t].pc \in {"attach", "forget", "forget_save", "forget_unlink", "mark"}
              => task[t].kind \in {"DELETE", "FORGET"}

\* Only a task that selected the namespace, and will release it, finds it open.
MemHeld ==
    /\ mem.selected \/ mem.historyReady \/ mem.manifestReady
          => \E t \in Tasks : task[t].attached
                 /\ task[t].pc \notin {"idle", "attach", "select", "history_init"}
    /\ \A t \in Tasks :
          /\ task[t].pc = "load_history" => mem.selected /\ ~mem.manifestReady
          /\ task[t].pc \in {"load_init", "load_manifest"} => mem.selected /\ mem.historyReady
          /\ task[t].pc \in OpenPcs => mem.selected /\ mem.historyReady /\ mem.manifestReady
          /\ task[t].pc \notin {"idle", "attach", "release"} => task[t].attached

\* The copies in memory are what the card holds, but for the row that is being
\* forgotten; edits that could not be saved are dropped with the release.
MemInStep ==
    /\ mem.historyReady => mem.history = history
    /\ \A t \in Tasks :
          /\ mem.manifestReady /\ task[t].pc \in (OpenPcs \union {"scan_end"}) \ {"forget_save"}
                => mem.manifest = manifest
          /\ task[t].pc = "forget_save" => mem.manifest = remove(manifest, task[t].path)

\* Every row of m has its object and its version.
Backed(m) == \A p \in Rows(m) : m[p].digest \in objects /\ <<p, m[p].digest>> \in history

\* A download on its way: its object is in place before its version is recorded, and
\* its version before its row.
CommitInOrder ==
    /\ session.pc \in CommitPcs => session.digest # NoDigest
    /\ session.pc \in CommitPcs \ {"object"} => session.digest \in objects
    /\ session.pc = "history_save" =>
          session.versions = history \union {<<session.path, session.digest>>}
    /\ session.pc \in {"manifest", "manifest_save"} =>
          <<session.path, session.digest>> \in history
    /\ session.pc = "manifest_save" =>
          session.rows = upsert(manifest, session.path, session.digest)

\* What the listing has seen of the files that are there, and that a delete is of a
\* file that is not.
ListingTrue ==
    /\ scan.active => session.pc \in SessionPcs
    /\ scan.active /\ ~scan.overflowed =>
          \A p \in session.listed : files[p] # NoDigest => p \in scan.seen
    /\ session.pc \in SelectPcs \union {"scan_begin"} => session.listed = {}
    /\ session.pc # "idle" /\ session.kind = "DELETE" => files[session.path] = NoDigest

FiniteHistories == \A h \in {history, mem.history, session.versions} : IsFiniteSet(h)

LedgerIInv ==
    /\ WorkTypeOK
    /\ OneAtATime /\ KindsFit /\ MemHeld /\ MemInStep
    /\ Backed(manifest) /\ Backed(mem.manifest)
    /\ CommitInOrder /\ ListingTrue
    /\ FiniteHistories /\ WithinCapacity
=============================================================================
