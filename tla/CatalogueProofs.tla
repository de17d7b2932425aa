--------------------------- MODULE CatalogueProofs ---------------------------
(***************************************************************************)
(* Proofs about CatalogueFile, for every set of values: the three files of *)
(* a catalogue implement the durable value of DurableFile, whatever file   *)
(* operation fails, the one that undoes a failed publication included.     *)
(***************************************************************************)
EXTENDS CatalogueFile, TLAPS

USE ValueAssumption

\* A new card satisfies the inductive invariant.
LEMMA FileInitInv == FileInit => FileIInv
  BY DEF FileInit, FileIInv, FileTypeOK, NeverTorn, LoadPcs, CleanPcs, SavePcs, Stored

\* Loading keeps it: the backup is moved only into a free place, and what was
\* read is what is stored.
LEMMA LoadKeepsInv ==
    ASSUME FileIInv,
           load_begin \/ migrate_legacy \/ inspect \/ read \/ clean \/ load_fails
    PROVE  FileIInv'
<1> USE DEF FileIInv, FileTypeOK, NeverTorn, LoadPcs, CleanPcs, SavePcs, Stored,
            files, At, Unlinked
<1>1. CASE load_begin BY <1>1 DEF load_begin
<1>2. CASE migrate_legacy BY <1>2 DEF migrate_legacy
<1>3. CASE inspect BY <1>3 DEF inspect
<1>4. CASE read BY <1>4 DEF read
<1>5. CASE clean
  <2>1. CASE pc = "clean_tmp" BY <1>5, <2>1 DEF clean
  <2>2. CASE pc = "clean_bak" BY <1>5, <2>2 DEF clean
  <2>3. QED BY <1>5, <2>1, <2>2 DEF clean
<1>6. CASE load_fails BY <1>6 DEF load_fails
<1>7. QED BY <1>1, <1>2, <1>3, <1>4, <1>5, <1>6

\* So does the part of a save that touches the temporary file only.
LEMMA WriteKeepsInv ==
    ASSUME FileIInv,
           (\E value \in Values, inplace \in BOOLEAN : save_begin(value, inplace))
              \/ save_open \/ save_write \/ save_stat \/ save_drop
    PROVE  FileIInv'
<1> USE DEF FileIInv, FileTypeOK, NeverTorn, LoadPcs, CleanPcs, SavePcs, Stored,
            files, At, Unlinked
<1>1. CASE \E value \in Values, inplace \in BOOLEAN : save_begin(value, inplace) BY <1>1 DEF save_begin
<1>2. CASE save_open BY <1>2 DEF save_open
<1>3. CASE save_write BY <1>3 DEF save_write
<1>4. CASE save_stat BY <1>4 DEF save_stat
<1>5. CASE save_drop BY <1>5 DEF save_drop
<1>6. QED BY <1>1, <1>2, <1>3, <1>4, <1>5

\* And the part that moves the catalogue itself.
LEMMA PublishKeepsInv ==
    ASSUME FileIInv,
           save_unlink_bak \/ save_stage \/ save_publish \/ save_rollback \/ save_done
    PROVE  FileIInv'
<1> USE DEF FileIInv, FileTypeOK, NeverTorn, LoadPcs, CleanPcs, SavePcs, Stored,
            files, At, Unlinked
<1>1. CASE save_unlink_bak BY <1>1 DEF save_unlink_bak
<1>2. CASE save_stage BY <1>2 DEF save_stage
<1>3. CASE save_publish BY <1>3 DEF save_publish
<1>4. CASE save_rollback BY <1>4 DEF save_rollback
<1>5. CASE save_done BY <1>5 DEF save_done
<1>6. QED BY <1>1, <1>2, <1>3, <1>4, <1>5

\* A release or a reset leaves the files as they are.
LEMMA ResetKeepsInv ==
    ASSUME FileIInv, release \/ reset \/ UNCHANGED fileVars
    PROVE  FileIInv'
<1> USE DEF FileIInv, FileTypeOK, NeverTorn, LoadPcs, CleanPcs, SavePcs, Stored,
            files, fileVars
<1>1. CASE release BY <1>1 DEF release
<1>2. CASE reset BY <1>2 DEF reset
<1>3. CASE UNCHANGED fileVars BY <1>3
<1>4. QED BY <1>1, <1>2, <1>3

\* The inductive invariant holds in every reachable state: no torn file is ever
\* current, the catalogue that a save set aside is in the backup until it is
\* renamed back, and only a complete file is published (save_sync_manifest,
\* load_sync_manifest).
THEOREM FileInvariance == FileSpec => []FileIInv
<1>1. FileIInv /\ [FileNext]_fileVars => FileIInv'
  BY LoadKeepsInv, WriteKeepsInv, PublishKeepsInv, ResetKeepsInv DEF FileNext
<1>2. QED
  BY FileInitInv, <1>1, PTL DEF FileSpec

\* A file that was not written to its end never becomes the catalogue or its
\* backup (save_sync_manifest publishes only what was synced).
THEOREM TornIsNeverCurrent == FileSpec => []NeverTorn
<1>1. FileIInv => NeverTorn
  BY DEF FileIInv
<1>2. QED
  BY FileInvariance, <1>1, PTL

(***************************************************************************)
(* Refinement                                                              *)
(***************************************************************************)

\* Initially the durable value is the catalogue of either layout.
LEMMA DurableStart == FileInit => Durable!DurableInit
  BY DEF FileInit, Durable!DurableInit, Stored, Alone, DurableState, LoadPcs, CleanPcs

\* Every step of a load is a stutter of the durable value, except the last one,
\* which shows it.
LEMMA LoadImplements ==
    ASSUME FileIInv,
           load_begin \/ migrate_legacy \/ inspect \/ read \/ clean \/ load_fails
    PROVE  Durable!DurableNext \/ UNCHANGED Durable!durableVars
<1> USE DEF FileIInv, FileTypeOK, NeverTorn, LoadPcs, CleanPcs, SavePcs, Stored,
            DurableState, Alone, files, At, Unlinked,
            Durable!DurableNext, Durable!durableVars, Durable!Load, Durable!LoadBlind,
            Durable!Restore
<1>1. CASE load_begin BY <1>1 DEF load_begin
<1>2. CASE migrate_legacy BY <1>2 DEF migrate_legacy
<1>3. CASE inspect BY <1>3 DEF inspect
<1>4. CASE read BY <1>4 DEF read
<1>5. CASE clean
  <2>1. CASE pc = "clean_tmp" BY <1>5, <2>1 DEF clean
  <2>2. CASE pc = "clean_bak" BY <1>5, <2>2 DEF clean
  <2>3. QED BY <1>5, <2>1, <2>2 DEF clean
<1>6. CASE load_fails BY <1>6 DEF load_fails
<1>7. QED BY <1>1, <1>2, <1>3, <1>4, <1>5, <1>6

\* The rename onto the current name is the step that publishes; a save that fails
\* has left the stored value alone.
LEMMA SaveImplements ==
    ASSUME FileIInv,
           \/ \E value \in Values, inplace \in BOOLEAN : save_begin(value, inplace)
           \/ save_open \/ save_write \/ save_stat \/ save_unlink_bak
           \/ save_stage \/ save_publish \/ save_rollback \/ save_drop \/ save_done
    PROVE  Durable!DurableNext \/ UNCHANGED Durable!durableVars
<1> USE DEF FileIInv, FileTypeOK, NeverTorn, LoadPcs, CleanPcs, SavePcs, Stored,
            DurableState, Alone, files, At, Unlinked,
            Durable!DurableNext, Durable!durableVars, Durable!Begin, Durable!Publish,
            Durable!SaveSucceeds, Durable!SaveFails, Durable!Lose
<1>1. CASE \E value \in Values, inplace \in BOOLEAN : save_begin(value, inplace) BY <1>1 DEF save_begin
<1>2. CASE save_open BY <1>2 DEF save_open
<1>3. CASE save_write BY <1>3 DEF save_write
<1>4. CASE save_stat BY <1>4 DEF save_stat
<1>5. CASE save_unlink_bak BY <1>5 DEF save_unlink_bak
<1>6. CASE save_stage BY <1>6 DEF save_stage
<1>7. CASE save_publish BY <1>7 DEF save_publish
<1>8. CASE save_rollback BY <1>8 DEF save_rollback
<1>9. CASE save_drop BY <1>9 DEF save_drop
<1>10. CASE save_done BY <1>10 DEF save_done
<1>11. QED BY <1>1, <1>2, <1>3, <1>4, <1>5, <1>6, <1>7, <1>8, <1>9, <1>10

\* A release or a reset closes the durable value.
LEMMA ResetImplements ==
    ASSUME FileIInv, release \/ reset \/ UNCHANGED fileVars
    PROVE  Durable!DurableNext \/ UNCHANGED Durable!durableVars
  BY DEF release, reset, files, fileVars, Stored, Alone, DurableState, LoadPcs, CleanPcs,
         Durable!DurableNext, Durable!durableVars, Durable!Close

\* The three files of a catalogue implement one durable value: a save takes
\* effect at once or not at all, across failures and resets at any file operation,
\* and only a save that starts with the value in the backup alone can lose it
\* (save_sync_manifest, load_sync_manifest and their twins).
THEOREM FileImplementsDurable == FileSpec => ImplementsDurable
<1> SUFFICES FileSpec => Durable!DurableSpec
  BY DEF ImplementsDurable
<1>1. FileIInv /\ [FileNext]_fileVars => [Durable!DurableNext]_(Durable!durableVars)
  BY LoadImplements, SaveImplements, ResetImplements DEF FileNext
<1>2. QED
  BY DurableStart, <1>1, FileInvariance, PTL DEF FileSpec, Durable!DurableSpec
=============================================================================
