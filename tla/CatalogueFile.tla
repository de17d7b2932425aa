---------------------------- MODULE CatalogueFile ----------------------------
(***************************************************************************)
(* One catalogue of the microSD ledger (esp32p4/main/revlink_sd_storage.c) *)
(* as the files that hold it.  FAT does not replace a file by renaming     *)
(* another over it, so a save goes through name.tmp and name.bak, and a    *)
(* load finishes what an interrupted save left.  The manifest, the version *)
(* history, the annotations and the last-device pointer are all kept this  *)
(* way (load_sync_manifest and save_sync_manifest, and their three pairs   *)
(* of twins); the first two may also have to adopt a file of an earlier    *)
(* layout.                                                                 *)
(*                                                                         *)
(* Every file operation is a step and may fail, and a reset may come       *)
(* between any two.  A rename is taken to be atomic and a file that was    *)
(* synced to stay.  The result of an unlink is ignored in the code, so the *)
(* file may stay.                                                          *)
(***************************************************************************)
CONSTANTS
    Values,            \* contents of a catalogue
    Empty,             \* the catalogue without rows
    Absent,            \* no such file
    Torn               \* a file that was not written to its end

ASSUME ValueAssumption == Empty \in Values /\ Absent \notin Values /\ Torn \notin Values
                          /\ Absent # Torn

VARIABLES
    current, tmp, bak,  \* the three files
    legacy,             \* the file of the earlier layout
    pc,                 \* where the load or save is; "off" without a namespace
    candidate,          \* the catalogue being saved
    had_current,        \* what save_sync_manifest found
    ram                 \* *sync_manifest

files == <<current, tmp, bak, legacy>>
fileVars == <<files, pc, candidate, had_current, ram>>

LoadPcs == {"off", "migrate", "inspect", "read"}
CleanPcs == {"clean_tmp", "clean_bak"}
SavePcs == {"open", "write", "stat", "unlink_bak", "stage", "publish", "rollback", "drop"}

FileTypeOK ==
    /\ current \in Values \union {Absent, Torn}
    /\ bak \in Values \union {Absent, Torn}
    /\ tmp \in Values \union {Absent, Torn}
    /\ legacy \in Values \union {Absent}
    /\ pc \in LoadPcs \union CleanPcs \union SavePcs \union {"idle", "done"}
    /\ candidate \in Values
    /\ had_current \in BOOLEAN
    /\ ram \in Values

\* A new card, or one with a catalogue of either layout.
FileInit ==
    /\ current \in Values \union {Absent}
    /\ legacy \in Values \union {Absent}
    /\ current # Absent => legacy = Absent
    /\ tmp = Absent /\ bak = Absent
    /\ pc = "off" /\ candidate = Empty /\ had_current = FALSE /\ ram = Empty

Unlinked(file) == {Absent, file}

At(here, there) == pc = here /\ pc' = there

(***************************************************************************)
(* Loading                                                                 *)
(***************************************************************************)
load_begin ==
    /\ At("off", "migrate")
    /\ UNCHANGED <<files, candidate, had_current, ram>>

\* migrate_legacy_ledger_file
migrate_legacy ==
    /\ At("migrate", "inspect")
    /\ IF current = Absent /\ legacy # Absent
       THEN current' = legacy /\ legacy' = Absent
       ELSE UNCHANGED <<current, legacy>>
    /\ UNCHANGED <<tmp, bak, candidate, had_current, ram>>

\* The backup takes the place of a missing catalogue; without either one the
\* catalogue is empty.  A stat of the backup that fails for any reason counts as
\* "no backup", so the catalogue may also be taken for empty while the backup
\* holds it.
inspect ==
    /\ pc = "inspect"
    /\ \/ /\ current # Absent
          /\ pc' = "read"
          /\ UNCHANGED <<current, tmp, bak>>
       \/ /\ current = Absent /\ bak # Absent
          /\ pc' = "read"
          /\ current' = bak /\ bak' = Absent
          /\ UNCHANGED tmp
       \/ /\ current = Absent
          /\ pc' = "idle"
          /\ tmp' \in Unlinked(tmp)
          /\ UNCHANGED <<current, bak>>
    /\ UNCHANGED <<legacy, candidate, had_current, ram>>

\* A torn catalogue does not parse and is refused.
read ==
    /\ At("read", "clean_tmp")
    /\ current \in Values
    /\ ram' = current
    /\ UNCHANGED <<files, candidate, had_current>>

clean ==
    /\ \/ At("clean_tmp", "clean_bak") /\ tmp' \in Unlinked(tmp) /\ UNCHANGED bak
       \/ At("clean_bak", "idle") /\ bak' \in Unlinked(bak) /\ UNCHANGED tmp
    /\ UNCHANGED <<current, legacy, candidate, had_current, ram>>

\* A file operation of the load fails, or the catalogue does not parse: the
\* namespace is not selected.
load_fails ==
    /\ pc \in {"migrate", "inspect", "read"} /\ pc' = "off"
    /\ UNCHANGED <<files, candidate, had_current, ram>>

(***************************************************************************)
(* Saving                                                                  *)
(***************************************************************************)
\* A commit saves a copy; the listing pass, a forget and a deletion edit the
\* catalogue in memory and save that (inplace).
save_begin(value, inplace) ==
    /\ At("idle", "open")
    /\ candidate' = value
    /\ ram' = IF inplace THEN value ELSE ram
    /\ UNCHANGED <<files, had_current>>

\* Opening the temporary file empties it.
save_open ==
    /\ \/ At("open", "write") /\ tmp' = Torn
       \/ At("open", "idle") /\ tmp' \in Unlinked(tmp)
    /\ UNCHANGED <<current, bak, legacy, candidate, had_current, ram>>

save_write ==
    /\ \/ At("write", "stat") /\ tmp' = candidate
       \/ At("write", "idle") /\ tmp' \in Unlinked(tmp)
    /\ UNCHANGED <<current, bak, legacy, candidate, had_current, ram>>

\* Any failure of stat counts as a missing file.
save_stat ==
    /\ At("stat", "unlink_bak")
    /\ had_current' \in {current # Absent, FALSE}
    /\ UNCHANGED <<files, candidate, ram>>

save_unlink_bak ==
    /\ pc = "unlink_bak" /\ pc' = IF had_current THEN "stage" ELSE "publish"
    /\ bak' \in Unlinked(bak)
    /\ UNCHANGED <<current, tmp, legacy, candidate, had_current, ram>>

\* A plausible slip: the old backup is removed after the catalogue was set aside
\* under its name, not before.
save_stage_then_unlink ==
    /\ \/ /\ At("stage", "publish")
          /\ bak' = Absent /\ current' = Absent
          /\ UNCHANGED tmp
       \/ /\ At("stage", "idle")
          /\ tmp' \in Unlinked(tmp)
          /\ UNCHANGED <<current, bak>>
    /\ UNCHANGED <<legacy, candidate, had_current, ram>>

\* The rename needs its destination free.
save_stage ==
    /\ \/ /\ At("stage", "publish")
          /\ bak = Absent
          /\ bak' = current /\ current' = Absent
          /\ UNCHANGED tmp
       \/ /\ At("stage", "idle")
          /\ tmp' \in Unlinked(tmp)
          /\ UNCHANGED <<current, bak>>
    /\ UNCHANGED <<legacy, candidate, had_current, ram>>

save_publish ==
    /\ \/ /\ At("publish", "done")
          /\ current = Absent
          /\ current' = tmp /\ tmp' = Absent
       \/ /\ pc = "publish" /\ pc' = IF had_current THEN "rollback" ELSE "drop"
          /\ UNCHANGED <<current, tmp>>
    /\ UNCHANGED <<bak, legacy, candidate, had_current, ram>>

\* The result of this rename is ignored.
save_rollback ==
    /\ At("rollback", "drop")
    /\ \/ current = Absent /\ current' = bak /\ bak' = Absent
       \/ UNCHANGED <<current, bak>>
    /\ UNCHANGED <<tmp, legacy, candidate, had_current, ram>>

\* The save answers ESP_FAIL; a catalogue edited in place stays edited.
save_drop ==
    /\ At("drop", "idle")
    /\ tmp' \in Unlinked(tmp)
    /\ UNCHANGED <<current, bak, legacy, candidate, had_current, ram>>

\* The save answers ESP_OK and its caller adopts the candidate.
save_done ==
    /\ At("done", "idle")
    /\ bak' \in Unlinked(bak)
    /\ ram' = candidate
    /\ UNCHANGED <<current, tmp, legacy, candidate, had_current>>

(***************************************************************************)
(* A release of the namespace, and a reset or power cut at any moment.     *)
(***************************************************************************)
release ==
    /\ pc = "idle" /\ pc' = "off"
    /\ candidate' = Empty /\ ram' = Empty /\ had_current' = FALSE
    /\ UNCHANGED files

reset ==
    /\ pc' = "off"
    /\ candidate' = Empty /\ ram' = Empty /\ had_current' = FALSE
    /\ UNCHANGED files

FileNext ==
    \/ load_begin \/ migrate_legacy \/ inspect \/ read \/ clean \/ load_fails
    \/ \E value \in Values, inplace \in BOOLEAN : save_begin(value, inplace)
    \/ save_open \/ save_write \/ save_stat \/ save_unlink_bak
    \/ save_stage \/ save_publish \/ save_rollback \/ save_drop \/ save_done
    \/ release \/ reset

FileSpec == FileInit /\ [][FileNext]_fileVars

(***************************************************************************)
(* Properties                                                              *)
(***************************************************************************)

\* What a load after a reset would find, if nothing fails in it.
Stored ==
    IF current # Absent THEN current
    ELSE IF bak # Absent THEN bak
    ELSE IF legacy # Absent THEN legacy ELSE Empty

\* The stored value is in the backup only, and the save under way (if any) is not
\* the one that put it there.
Alone == current = Absent /\ bak # Absent /\ ~(had_current /\ pc \in {"publish", "rollback"})

DurableState ==
    IF pc \in LoadPcs \union CleanPcs THEN "closed"
    ELSE IF pc \in {"idle", "drop"} THEN "open"
    ELSE IF pc = "done" THEN "saved" ELSE "saving"

Durable == INSTANCE DurableFile
    WITH stored <- Stored, alone <- Alone, state <- DurableState, arg <- candidate,
         view <- IF pc \in LoadPcs \union CleanPcs THEN Empty ELSE ram

\* The three files behave as one value that a save replaces at once or not at
\* all, whatever operation fails and wherever a reset comes, except that a save
\* which fails twice over, or a reset inside one, may leave the value in the
\* backup only, where a load may miss it and the next save destroys it before it
\* publishes (see DurableFile).
ImplementsDurable == Durable!DurableSpec

\* Bytes that were not written to their end never become the catalogue or its
\* backup (docs/FIRMWARE_ARCHITECTURE.md: "cannot make incomplete bytes current").
NeverTorn == current # Torn /\ bak # Torn

\* An interrupted or failed save leaves the old catalogue or the new one
\* (docs/FIRMWARE_ARCHITECTURE.md: "recover an interrupted publish").
OldOrNew == [][Stored' # Stored => Stored' = candidate]_fileVars

(***************************************************************************)
(* The inductive invariant.                                                *)
(***************************************************************************)
FileIInv ==
    /\ FileTypeOK
    /\ NeverTorn
    \* The earlier layout is adopted before anything else is written.
    /\ legacy # Absent => current = Absent /\ bak = Absent /\ pc \in {"off", "migrate"}
    /\ pc \in LoadPcs => ram = Empty
    /\ pc = "read" => current # Absent
    /\ pc \in {"unlink_bak", "stage"} /\ had_current => current # Absent
    /\ pc = "stage" => had_current
    \* The save that set the catalogue aside finds it in the backup.
    /\ pc = "publish" /\ had_current => current = Absent /\ bak # Absent
    /\ pc = "rollback" => had_current /\ current = Absent /\ bak # Absent
    \* What was read is what is stored, and what is about to be published is complete.
    /\ pc \in CleanPcs => current = ram
    /\ pc \in {"stat", "unlink_bak", "stage", "publish"} => tmp = candidate
    /\ pc = "done" => current = candidate
=============================================================================
