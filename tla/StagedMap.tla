------------------------------ MODULE StagedMap ------------------------------
(***************************************************************************)
(* The payload the owner stages for an AccessPort, as the files on the     *)
(* card that hold it (esp32p4/main/revlink_map_upload.c, the record format *)
(* of components/revlink_staged_map, and the two portal handlers that      *)
(* stage).                                                                 *)
(*                                                                         *)
(* A commit or a discard is a sequence of file operations under the        *)
(* service's mutex; each is a step, each may fail, and a reset may come    *)
(* between any two.  The HTTP server runs one handler at a time; the USB   *)
(* side opens, streams and closes the payload while the portal runs.  What *)
(* else gates a write (consents, latch, the attached device) is the        *)
(* subject of DeviceWork: here a request is made whenever it can be.       *)
(***************************************************************************)
EXTENDS Naturals, FiniteSets

CONSTANTS
    MapPaths,      \* destinations under maps/
    Startup,       \* images/startup_screen.fb
    Payloads,      \* contents; their SHA-256 tells them apart
    Serials,       \* AccessPorts a payload may be pinned to
    None,          \* no name, no digest, no pin
    Absent,        \* no such file
    Torn,          \* a file that fails its checks
    Chunks,        \* stage_write calls a whole payload takes
    MaxUploads,    \* bound: uploads the owner starts
    MaxFaults      \* bound: failing file operations

ASSUME StagedAssumption ==
    /\ Chunks \in Nat \ {0}
    /\ {MaxUploads, MaxFaults} \subseteq Nat
    /\ Startup \notin MapPaths /\ None \notin Payloads \union Serials \union MapPaths
    /\ Startup # None /\ Absent # Torn

Dests == MapPaths \union {Startup}
Uploads == [dest : Dests, data : Payloads, pin : Serials \union {None}]
Records == [dest : Dests, data : Payloads, pin : Serials]
Contents == [data : Payloads, chunks : 0..Chunks]
Whole(d) == [data |-> d, chunks |-> Chunks]

CommitPcs == {"sync", "drop_meta", "drop_stage", "publish", "meta_write", "meta_drop",
              "meta_rename"}
DiscardPcs == {"discard_meta", "discard_stage"}

VARIABLES
    files,     \* the card: temp, stage, meta, metaTemp
    svc,       \* the service: what it says is staged, and the stage writer
    call,      \* the call holding the service's mutex: where it is, and for whom
    portal,    \* the handler running, and the upload the owner means
    usb,       \* the write the USB side has been given
    left,      \* what the bounds leave
    hist       \* history: uploads received whole, those that are over, those whose
               \* verification was not recorded, META that stayed

vars == <<files, svc, call, portal, usb, left, hist>>

NoCall == [pc |-> "none", for |-> "none"]
NoUpload == [dest |-> None, data |-> None, pin |-> None]
NoPortal == [pc |-> "none", up |-> NoUpload]
NoWrite == [pc |-> "none", dest |-> None, data |-> None, size |-> 0]
Fresh == [dest |-> None, sha |-> None, pin |-> None, size |-> 0, written |-> 0,
          staged |-> FALSE, staging |-> FALSE, state |-> "IDLE", source |-> FALSE]

TypeOK ==
    /\ files \in [temp : Contents \union {Absent, Torn}, stage : Contents \union {Absent, Torn},
                  meta : Records \union {Absent, Torn}, metaTemp : Records \union {Absent, Torn}]
    /\ svc \in [dest : Dests \union {None}, sha : Payloads \union {None},
                pin : Serials \union {None}, size : {0, Chunks}, written : 0..Chunks,
                staged : BOOLEAN, staging : BOOLEAN,
                state : {"IDLE", "RUNNING", "VERIFIED", "FAILED"}, source : BOOLEAN]
    /\ call \in [pc : CommitPcs \union DiscardPcs \union {"off", "restore", "none"},
                 for : {"none", "commit", "verified", "owner"}]
    /\ portal \in [pc : {"none", "write", "commit", "answer"}, up : Uploads \union {NoUpload}]
    /\ usb \in [pc : {"none", "queued", "open", "sent"}, dest : Dests \union {None},
                data : Payloads \union {None}, size : {0, Chunks}]
    /\ left \in [uploads : 0..MaxUploads, faults : 0..MaxFaults]
    /\ hist \in [received : SUBSET Uploads, over : SUBSET Uploads,
                 unlearnt : SUBSET Uploads, stuck : BOOLEAN]

\* Nothing on the card, or what an earlier run staged.
Init ==
    /\ files = [temp |-> Absent, stage |-> Absent, meta |-> Absent, metaTemp |-> Absent]
    /\ svc = Fresh
    /\ call = NoCall /\ portal = NoPortal /\ usb = NoWrite
    /\ left = [uploads |-> MaxUploads, faults |-> MaxFaults]
    /\ hist = [received |-> {}, over |-> {}, unlearnt |-> {}, stuck |-> FALSE]

Free == call.pc = "none"

\* The upload the service says is staged.
Current == [dest |-> svc.dest, data |-> svc.sha, pin |-> svc.pin]

\* A file operation that fails.
Fault == left.faults > 0 /\ left' = [left EXCEPT !.faults = @ - 1]

\* unlink(): the result is ignored, so the file may stay.
Unlink(name) ==
    \/ files' = [files EXCEPT ![name] = Absent] /\ UNCHANGED left
    \/ files[name] # Absent /\ Fault /\ UNCHANGED files

\* The metadata is to go, and a card that keeps it is stuck with it; once it is gone no
\* verification is left unrecorded.
MetaGone(over) ==
    hist' = [hist EXCEPT !.over = over, !.stuck = @ \/ files'.meta # Absent,
                         !.unlearnt = IF files'.meta = Absent THEN {} ELSE @]

(***************************************************************************)
(* The stage writer                                                        *)
(***************************************************************************)

\* A plausible slip: the expected size stays when the writer is reset.
reset_stage_writer_keep(s) == [s EXCEPT !.staging = FALSE, !.written = 0]

\* reset_stage_writer_locked. The size goes to 0 whatever is staged.
reset_stage_writer(s) == [s EXCEPT !.staging = FALSE, !.size = 0, !.written = 0]

\* stage_begin refuses while a payload is being staged or written.
Begins == ~svc.staging /\ ~svc.source /\ svc.state # "RUNNING"

\* revlink_map_upload_stage_begin, then stage_set_target by the same handler.
stage_begin(up) ==
    /\ svc' = [reset_stage_writer(svc) EXCEPT
                 !.dest = up.dest, !.pin = up.pin, !.size = Chunks,
                 !.staged = FALSE, !.staging = TRUE, !.state = "IDLE"]
    /\ files' = [files EXCEPT !.temp = [data |-> up.data, chunks |-> 0]]

\* The temporary file cannot be opened: the name is already the new one's.
stage_begin_fails(up) ==
    /\ svc' = [reset_stage_writer(svc) EXCEPT !.dest = up.dest]
    /\ files' = [files EXCEPT !.temp = Absent]

\* revlink_map_upload_stage_abort
stage_abort ==
    /\ svc' = reset_stage_writer(svc)
    /\ files' = [files EXCEPT !.temp = Absent]

\* portal_map_stage_handler: a .ptm for the selected dataset, or for none.
portal_map_stage ==
    /\ Free /\ portal.pc = "none" /\ left.uploads > 0 /\ Begins
    /\ \E up \in Uploads :
         /\ up.dest \in MapPaths
         /\ \/ /\ stage_begin(up)
               /\ portal' = [pc |-> "write", up |-> up]
               /\ left' = [left EXCEPT !.uploads = @ - 1]
            \/ /\ stage_begin_fails(up)
               /\ left.faults > 0
               /\ left' = [left EXCEPT !.uploads = @ - 1, !.faults = @ - 1]
               /\ UNCHANGED portal
    /\ UNCHANGED <<call, usb, hist>>

\* portal_startup_apply_handler: the image of a profile, for the device that is
\* attached. A begin that is refused or fails is followed by an abort.
portal_startup_apply ==
    /\ Free /\ portal.pc = "none" /\ left.uploads > 0
    /\ \E up \in Uploads :
         /\ up.dest = Startup /\ up.pin # None
         /\ \/ /\ Begins /\ stage_begin(up)
               /\ portal' = [pc |-> "write", up |-> up]
               /\ left' = [left EXCEPT !.uploads = @ - 1]
            \/ /\ Begins /\ stage_begin_fails(up)
               /\ left.faults > 0
               /\ left' = [left EXCEPT !.uploads = @ - 1, !.faults = @ - 1]
               /\ UNCHANGED portal
            \/ /\ ~Begins /\ stage_abort
               /\ left' = [left EXCEPT !.uploads = @ - 1]
               /\ UNCHANGED portal
    /\ UNCHANGED <<call, usb, hist>>

\* revlink_map_upload_stage_write
stage_write ==
    /\ Free /\ portal.pc = "write" /\ svc.written < svc.size
    /\ svc' = [svc EXCEPT !.written = @ + 1]
    /\ files' = [files EXCEPT !.temp.chunks = @ + 1]
    /\ UNCHANGED <<call, portal, usb, left, hist>>

\* The client goes away, or the card refuses the bytes: the handler aborts.
staging_incomplete ==
    /\ Free /\ portal.pc = "write"
    /\ stage_abort
    /\ portal' = NoPortal
    /\ UNCHANGED <<call, usb, left, hist>>

\* All bytes are in. A profile may have fewer than a startup image has.
staging_complete ==
    /\ Free /\ portal.pc = "write"
    /\ portal.up.dest = Startup \/ svc.written = svc.size
    /\ call' = [pc |-> "sync", for |-> "commit"]
    /\ portal' = [portal EXCEPT !.pc = "commit"]
    /\ hist' = IF svc.written = svc.size
               THEN [hist EXCEPT !.received = @ \union {portal.up}, !.over = @ \ {portal.up}]
               ELSE hist
    /\ UNCHANGED <<files, svc, usb, left>>

(***************************************************************************)
(* revlink_map_upload_stage_commit, one file operation at a time           *)
(***************************************************************************)
At(pc) == call.pc = pc
Goto(pc) == call' = [call EXCEPT !.pc = pc]

\* Flush, sync and finish the digest; anything short discards it all.
commit_sync ==
    /\ At("sync")
    /\ \/ /\ svc.written = svc.size
          /\ svc' = [svc EXCEPT !.sha = portal.up.data, !.staging = FALSE]
          /\ Goto("drop_meta") /\ UNCHANGED <<files, left>>
       \/ /\ IF svc.written = svc.size THEN Fault ELSE UNCHANGED left
          /\ svc' = [svc EXCEPT !.staging = FALSE]
          /\ files' = [files EXCEPT !.temp = Absent]
          /\ Goto("discard_meta")
    /\ UNCHANGED <<portal, usb, hist>>

\* remove_staged_files_locked: the metadata first. From here the old payload is over.
drop_meta ==
    /\ At("drop_meta") /\ Unlink("meta")
    /\ MetaGone(hist.over \union (hist.received \ {portal.up}))
    /\ Goto("drop_stage") /\ UNCHANGED <<svc, portal, usb>>

drop_stage ==
    /\ At("drop_stage") /\ Unlink("stage")
    /\ Goto("publish") /\ UNCHANGED <<svc, portal, usb, hist>>

\* FAT's rename does not replace the file it names.
publish ==
    /\ At("publish")
    /\ \/ /\ files.stage = Absent
          /\ files' = [files EXCEPT !.stage = files.temp, !.temp = Absent]
          /\ IF svc.pin # None
             THEN Goto("meta_write") /\ UNCHANGED <<svc, portal>>
             ELSE /\ call' = NoCall
                  /\ svc' = [svc EXCEPT !.staged = TRUE]
                  /\ portal' = [portal EXCEPT !.pc = "answer"]
          /\ UNCHANGED left
       \/ /\ IF files.stage = Absent THEN Fault ELSE UNCHANGED left
          /\ files' = [files EXCEPT !.temp = Absent]
          /\ Goto("discard_meta") /\ UNCHANGED <<svc, portal>>
    /\ UNCHANGED <<usb, hist>>

\* write_metadata_locked
meta_write ==
    /\ At("meta_write")
    /\ \/ files' = [files EXCEPT !.metaTemp = Current] /\ Goto("meta_drop") /\ UNCHANGED left
       \/ Fault /\ Goto("discard_meta") /\ UNCHANGED files
    /\ UNCHANGED <<svc, portal, usb, hist>>

meta_drop ==
    /\ At("meta_drop") /\ Unlink("meta")
    /\ Goto("meta_rename") /\ UNCHANGED <<svc, portal, usb, hist>>

meta_rename ==
    /\ At("meta_rename")
    /\ \/ /\ files.meta = Absent
          /\ files' = [files EXCEPT !.meta = files.metaTemp, !.metaTemp = Absent]
          /\ svc' = [svc EXCEPT !.staged = TRUE]
          /\ call' = NoCall
          /\ portal' = [portal EXCEPT !.pc = "answer"]
          /\ UNCHANGED left
       \/ /\ IF files.meta = Absent THEN Fault ELSE UNCHANGED left
          /\ files' = [files EXCEPT !.metaTemp = Absent]
          /\ Goto("discard_meta") /\ UNCHANGED <<svc, portal>>
    /\ UNCHANGED <<usb, hist>>

(***************************************************************************)
(* discard_staged_locked, for a failed commit, a verified write, the owner *)
(* or a restore that finds something it cannot verify                      *)
(***************************************************************************)

\* A plausible slip: only the payload is removed.
discard_meta_kept ==
    /\ At("discard_meta")
    /\ hist' = [hist EXCEPT !.over = hist.received]
    /\ Goto("discard_stage") /\ UNCHANGED <<files, left, svc, portal, usb>>

discard_meta ==
    /\ At("discard_meta") /\ Unlink("meta")
    /\ MetaGone(hist.received)
    /\ Goto("discard_stage") /\ UNCHANGED <<svc, portal, usb>>

\* The startup handler follows a failed commit with an abort.
discard_stage ==
    /\ At("discard_stage") /\ Unlink("stage")
    /\ svc' = IF call.for = "owner"
              THEN [svc EXCEPT !.staged = FALSE, !.pin = None, !.dest = None, !.size = 0,
                               !.state = "IDLE"]
              ELSE [IF call.for = "commit" /\ portal.up.dest = Startup
                    THEN reset_stage_writer(svc) ELSE svc
                    EXCEPT !.staged = FALSE, !.pin = None]
    /\ call' = NoCall
    /\ portal' = IF call.for \in {"commit", "owner"} THEN NoPortal ELSE portal
    /\ UNCHANGED <<usb, hist>>

\* A plausible slip: the owner may discard while the payload is being written.
Discards_any == ~svc.staging

\* revlink_map_upload_discard refuses while a payload is being staged or written.
Discards == ~svc.staging /\ svc.state # "RUNNING"

\* portal_map_discard_handler
portal_map_discard ==
    /\ Free /\ portal.pc = "none" /\ Discards
    /\ call' = [pc |-> "discard_meta", for |-> "owner"]
    /\ UNCHANGED <<files, svc, portal, usb, left, hist>>

\* What the map handler does once the payload is committed: a map the inventory
\* already lists is dropped again (unless it has been asked for meanwhile).
portal_preflight ==
    /\ Free /\ portal.pc = "answer" /\ portal.up.dest # Startup
    /\ portal' = NoPortal
    /\ \/ Discards /\ call' = [pc |-> "discard_meta", for |-> "owner"]
       \/ UNCHANGED call
    /\ UNCHANGED <<files, svc, usb, left, hist>>

(***************************************************************************)
(* revlink_map_upload_request, and the USB side that serves it             *)
(***************************************************************************)
Requests == svc.staged /\ svc.state # "RUNNING"
Queue == usb' = [pc |-> "queued", dest |-> svc.dest, data |-> svc.sha, size |-> svc.size]

\* By the owner, or by the main task after a clean sync.
map_upload_request ==
    /\ Free /\ Requests
    /\ Queue /\ svc' = [svc EXCEPT !.state = "RUNNING"]
    /\ UNCHANGED <<files, call, portal, left, hist>>

\* The startup handler asks at once, and aborts when it is refused: by a gate, by a
\* full queue, or because the main task was faster.
portal_startup_request ==
    /\ Free /\ portal.pc = "answer" /\ portal.up.dest = Startup
    /\ portal' = NoPortal
    /\ \/ Requests /\ Queue /\ svc' = [svc EXCEPT !.state = "RUNNING"]
          /\ UNCHANGED files
       \/ stage_abort /\ UNCHANGED usb
    /\ UNCHANGED <<call, left, hist>>

\* The end of a write: source_close, then observe_upload. Each gives up when it has waited
\* a second for the mutex; then the file stays open, or the service goes on saying RUNNING.
write_ends(state, closed, heard) ==
    /\ svc' = [svc EXCEPT !.state = IF heard THEN state ELSE @,
                          !.source = IF closed THEN FALSE ELSE @]
    /\ usb' = NoWrite
    /\ IF closed /\ heard THEN UNCHANGED left ELSE Fault

\* observe_upload with FAILED: the payload stays, for a retry.
upload_failed ==
    /\ Free /\ usb.pc \in {"queued", "open", "sent"}
    /\ \E closed, heard \in BOOLEAN : write_ends("FAILED", closed, heard)
    /\ UNCHANGED <<files, call, portal, hist>>

\* source_open: the request must still be what is staged.
Matches ==
    /\ svc.staged /\ svc.state = "RUNNING" /\ ~svc.source
    /\ usb.dest = svc.dest /\ usb.size = svc.size /\ usb.data = svc.sha

\* run_map_upload validates the size and opens the source; otherwise upload_failed.
source_open ==
    /\ Free /\ usb.pc = "queued" /\ usb.size # 0 /\ Matches
    /\ svc' = [svc EXCEPT !.source = TRUE]
    /\ usb' = [usb EXCEPT !.pc = "open"]
    /\ UNCHANGED <<files, call, portal, left, hist>>

\* The chunk is streamed from the file twice, for its CRC and for the wire.
source_read ==
    /\ Free /\ usb.pc = "open" /\ files.stage # Absent
    /\ usb' = [usb EXCEPT !.pc = "sent"]
    /\ UNCHANGED <<files, svc, call, portal, left, hist>>

\* observe_upload with VERIFIED. The upload is over, whether or not the service hears of it.
upload_verified ==
    /\ Free /\ usb.pc = "sent"
    /\ \E closed \in BOOLEAN :
         \/ /\ write_ends("VERIFIED", closed, TRUE)
            /\ call' = [pc |-> "discard_meta", for |-> "verified"]
            /\ hist' = [hist EXCEPT !.over = @ \union {Current}]
         \/ /\ write_ends("VERIFIED", closed, FALSE)
            /\ hist' = [hist EXCEPT !.over = @ \union {Current},
                                    !.unlearnt = @ \union {Current}]
            /\ UNCHANGED call
    /\ UNCHANGED <<files, portal>>

(***************************************************************************)
(* Resets                                                                  *)
(***************************************************************************)

\* A write was verified, and the metadata of its payload is still on the card.
Unrecorded == At("discard_meta") /\ call.for = "verified"

\* Power is lost. What was not synced is torn.
power_cut ==
    /\ call.pc # "off"
    /\ files' = [files EXCEPT !.temp = IF @ = Absent THEN Absent ELSE Torn]
    /\ svc' = Fresh /\ portal' = NoPortal /\ usb' = NoWrite
    /\ call' = [pc |-> "off", for |-> "none"]
    /\ hist' = IF Unrecorded THEN [hist EXCEPT !.unlearnt = @ \union {Current}] ELSE hist
    /\ UNCHANGED left

\* The card decays: a file no longer passes its checks.
card_rots ==
    /\ call.pc = "off" /\ Fault
    /\ \E name \in {"stage", "meta"} :
         files[name] # Absent /\ files' = [files EXCEPT ![name] = Torn]
    /\ UNCHANGED <<svc, call, portal, usb, hist>>

\* revlink_map_upload_start, up to the restore.
map_upload_start ==
    /\ call.pc = "off"
    /\ files' = [files EXCEPT !.temp = Absent, !.metaTemp = Absent]
    /\ call' = [pc |-> "restore", for |-> "none"]
    /\ UNCHANGED <<svc, portal, usb, left, hist>>

\* revlink_staged_map_decode: the record is whole, and names a target.
Decodes == files.meta \notin {Absent, Torn}

\* staged_payload_digest_matches, for a record that decodes.
Verified == files.stage = Whole(files.meta.data)

\* restore_staged_locked: the payload with its record, or nothing at all.
restore_staged ==
    /\ At("restore")
    /\ IF files.meta = Absent
       THEN Unlink("stage") /\ call' = NoCall /\ UNCHANGED svc
       ELSE /\ UNCHANGED <<files, left>>
            /\ IF Decodes /\ Verified
               THEN /\ svc' = [svc EXCEPT !.dest = files.meta.dest, !.sha = files.meta.data,
                                          !.pin = files.meta.pin, !.size = Chunks,
                                          !.staged = TRUE]
                    /\ call' = NoCall
               ELSE Goto("discard_meta") /\ UNCHANGED svc
    /\ UNCHANGED <<portal, usb, hist>>

Commit == commit_sync \/ drop_meta \/ drop_stage \/ publish \/ meta_write \/ meta_drop
          \/ meta_rename
Discard == discard_meta \/ discard_stage \/ portal_map_discard \/ portal_preflight
Stage == portal_map_stage \/ portal_startup_apply \/ stage_write \/ staging_incomplete
         \/ staging_complete
Write == map_upload_request \/ portal_startup_request \/ upload_failed \/ source_open
         \/ source_read \/ upload_verified
Reset == power_cut \/ card_rots \/ map_upload_start \/ restore_staged
Next == Commit \/ Discard \/ Stage \/ Write \/ Reset

Spec == Init /\ [][Next]_vars

(***************************************************************************)
(* Properties                                                              *)
(***************************************************************************)

\* What the service holds for writing is one upload the owner made, byte for byte, with
\* the destination and the AccessPort the owner gave it ("exactly what the owner uploaded,
\* or nothing at all"), through any failure, reset and decay of the card. A stage writer
\* that was reset over a staged payload leaves a size of 0, and such a payload is not held
\* for writing. One that is pinned to an AccessPort is on the card as the next start will
\* restore it, whatever the commit went through before it said so.
StagedIsAnUpload ==
    Free /\ svc.staged /\ svc.size # 0 =>
        /\ files.stage = Whole(svc.sha) /\ Current \in hist.received
        /\ svc.pin # None => files.meta = Current

\* An upload that was verified, discarded or replaced by a later commit is never offered
\* for writing again, not by a restart either. Two exceptions: the card kept the metadata
\* it was told to remove; and power went between the verification and that removal, or the
\* service missed the verification because its mutex was taken (OfferedOnce).
OverStaysOver ==
    Free /\ svc.staged /\ svc.size # 0 /\ ~hist.stuck => Current \notin hist.over \ hist.unlearnt

\* The same without the second exception: "A verified write clears the staged payload ...
\* leaving it staged ... would offer the same map again on the next attach"
\* (docs/STAGED_MAPS.md). The record goes after the fact, so it does not hold;
\* MCStagedAgain.cfg shows how.
OfferedOnce ==
    Free /\ svc.staged /\ svc.size # 0 /\ ~hist.stuck => Current \notin hist.over

\* While the USB side has the payload open, the file it streams is the payload of its
\* request: no upload, discard or restore replaces it under the reader, and it goes to
\* the destination it was uploaded for.
SourceStable ==
    usb.pc \in {"open", "sent"} =>
        /\ svc.source /\ files.stage = Whole(usb.data)
        /\ \E up \in hist.received : up.dest = usb.dest /\ up.data = usb.data

(***************************************************************************)
(* The inductive invariant                                                 *)
(***************************************************************************)

\* Who holds the service's mutex: a commit runs for the handler that waits for it, and
\* after a reset nothing else does.
CallFits ==
    /\ Free => call = NoCall
    /\ call.pc \in CommitPcs => call.for = "commit"
    /\ call.for = "commit" <=> portal.pc = "commit"
    /\ call.for = "commit" => call.pc \in CommitPcs \union DiscardPcs
    /\ portal.pc = "write" => Free
    /\ call.pc \in {"off", "restore"} =>
          call.for = "none" /\ svc = Fresh /\ portal = NoPortal /\ usb = NoWrite
    /\ Unrecorded => Current \in hist.received

\* A write is under way only while the service says so, and only of a staged payload; the
\* one whose file is open is of an upload received whole.
UsbFits ==
    /\ usb.pc # "none" => Free /\ svc.staged /\ svc.state = "RUNNING"
    /\ usb.pc \in {"open", "sent"} => svc.source /\ Current \in hist.received

\* An upload on its way to the card, step by step of its commit.
UploadInOrder ==
    /\ portal.pc \in {"write", "commit"} =>
          /\ ~svc.staged /\ svc.dest = portal.up.dest /\ svc.pin = portal.up.pin
          /\ portal.up \in Uploads /\ svc.size = Chunks
    /\ portal.pc = "write" \/ call.pc = "sync" =>
          files.temp = [data |-> portal.up.data, chunks |-> svc.written]
    /\ call.pc = "sync" /\ svc.written = svc.size => portal.up \in hist.received \ hist.over
    /\ call.pc \in CommitPcs \ {"sync"} =>
          Current = portal.up /\ Current \in hist.received \ hist.over
    /\ call.pc \in {"drop_meta", "drop_stage", "publish"} => files.temp = Whole(svc.sha)
    /\ call.pc \in {"meta_write", "meta_drop", "meta_rename"} =>
          files.stage = Whole(svc.sha) /\ svc.pin # None
    /\ call.pc \in {"meta_drop", "meta_rename"} => files.metaTemp = Current

\* A record on the card that decodes is of an upload received whole, and, unless the card
\* kept one it was told to remove, of one that is not over, or whose verification is not
\* recorded yet, or never will be.
RecordTrue ==
    files.meta \notin {Absent, Torn} =>
        /\ files.meta \in hist.received
        /\ ~hist.stuck /\ files.meta \in hist.over \ hist.unlearnt =>
              Unrecorded /\ files.meta = Current

StagedIInv ==
    /\ TypeOK /\ CallFits /\ UsbFits /\ UploadInOrder /\ RecordTrue
    /\ StagedIsAnUpload /\ OverStaysOver /\ SourceStable
=============================================================================
