-------------------------- MODULE StagedMapProofs --------------------------
(***************************************************************************)
(* Proofs about StagedMap, for every set of contents, AccessPorts and      *)
(* destinations, and every bound on uploads, resets and faults.            *)
(***************************************************************************)
EXTENDS StagedMap, TLAPS

\* The types of the variables, by name.
FilesSet == [temp : Contents \union {Absent, Torn}, stage : Contents \union {Absent, Torn},
             meta : Records \union {Absent, Torn}, metaTemp : Records \union {Absent, Torn}]
SvcSet == [dest : Dests \union {None}, sha : Payloads \union {None},
           pin : Serials \union {None}, size : {0, Chunks}, written : 0..Chunks,
           staged : BOOLEAN, staging : BOOLEAN,
           state : {"IDLE", "RUNNING", "VERIFIED", "FAILED"}, source : BOOLEAN]
CallSet == [pc : CommitPcs \union DiscardPcs \union {"off", "restore", "none"},
            for : {"none", "commit", "verified", "owner"}]
PortalSet == [pc : {"none", "write", "commit", "answer"}, up : Uploads \union {NoUpload}]
UsbSet == [pc : {"none", "queued", "open", "sent"}, dest : Dests \union {None},
           data : Payloads \union {None}, size : {0, Chunks}]
LeftSet == [uploads : 0..MaxUploads, faults : 0..MaxFaults]
HistSet == [received : SUBSET Uploads, over : SUBSET Uploads, unlearnt : SUBSET Uploads,
            stuck : BOOLEAN]

LEMMA TypeByParts ==
    /\ TypeOK <=> /\ files \in FilesSet /\ svc \in SvcSet /\ call \in CallSet
                  /\ portal \in PortalSet /\ usb \in UsbSet /\ left \in LeftSet
                  /\ hist \in HistSet
    /\ TypeOK' <=> /\ files' \in FilesSet /\ svc' \in SvcSet /\ call' \in CallSet
                   /\ portal' \in PortalSet /\ usb' \in UsbSet /\ left' \in LeftSet
                   /\ hist' \in HistSet
  BY DEF TypeOK, FilesSet, SvcSet, CallSet, PortalSet, UsbSet, LeftSet, HistSet

\* The constants' values of the types.
LEMMA ConstantTypes ==
    /\ Fresh \in SvcSet /\ NoCall \in CallSet /\ NoPortal \in PortalSet /\ NoWrite \in UsbSet
    /\ ~Fresh.staged /\ ~Fresh.source /\ Fresh.state = "IDLE" /\ Fresh.size = 0
    /\ NoCall.pc = "none" /\ NoCall.for = "none" /\ NoPortal.pc = "none" /\ NoWrite.pc = "none"
  BY StagedAssumption
     DEF Fresh, SvcSet, NoCall, CallSet, NoPortal, PortalSet, NoWrite, UsbSet, NoUpload

LEMMA StagedInit == Init => StagedIInv
<1> SUFFICES ASSUME Init PROVE StagedIInv OBVIOUS
<1> USE StagedAssumption DEF Init, NoCall, NoPortal, NoWrite, Fresh, Free
<1>1. TypeOK BY DEF TypeOK, CommitPcs, DiscardPcs, NoUpload
<1>2. CallFits /\ UsbFits BY DEF CallFits, Unrecorded, At, UsbFits, CommitPcs, DiscardPcs
<1>3. UploadInOrder /\ RecordTrue BY DEF UploadInOrder, RecordTrue, CommitPcs
<1>4. StagedIsAnUpload /\ OverStaysOver /\ SourceStable
  BY DEF StagedIsAnUpload, OverStaysOver, SourceStable
<1>5. QED BY <1>1, <1>2, <1>3, <1>4 DEF StagedIInv

\* What an unlink does to the card.
LEMMA UnlinkFacts ==
    ASSUME files \in FilesSet, left \in LeftSet, NEW name \in {"stage", "meta"}, Unlink(name)
    PROVE  /\ files' \in FilesSet
           /\ files'.temp = files.temp /\ files'.metaTemp = files.metaTemp
           /\ files'[name] \in {files[name], Absent}
           /\ name = "meta" => files'.stage = files.stage
           /\ name = "stage" => files'.meta = files.meta
           /\ left' \in LeftSet
  BY StagedAssumption DEF Unlink, Fault, FilesSet, LeftSet

LEMMA FaultFacts == ASSUME left \in LeftSet, Fault PROVE left' \in LeftSet
  BY StagedAssumption DEF Fault, LeftSet

LEMMA GotoFacts ==
    ASSUME call \in CallSet, NEW pc \in CommitPcs \union DiscardPcs, Goto(pc)
    PROVE  call' \in CallSet /\ call'.pc = pc /\ call'.for = call.for
  BY DEF Goto, CallSet

\* A commit in progress.
LEMMA CommitFacts ==
    ASSUME StagedIInv, call.pc \in CommitPcs
    PROVE  /\ files \in FilesSet /\ svc \in SvcSet /\ call \in CallSet /\ portal \in PortalSet
           /\ usb \in UsbSet /\ left \in LeftSet /\ hist \in HistSet
           /\ call.for = "commit" /\ portal.pc = "commit" /\ ~Free
           /\ ~svc.staged /\ usb.pc = "none"
           /\ portal.up \in Uploads /\ svc.size = Chunks
           /\ svc.dest = portal.up.dest /\ svc.pin = portal.up.pin
           /\ call.pc # "sync" => /\ Current = portal.up /\ svc.sha = portal.up.data
                                  /\ Current \in hist.received \ hist.over
<1>1. /\ files \in FilesSet /\ svc \in SvcSet /\ call \in CallSet /\ portal \in PortalSet
      /\ usb \in UsbSet /\ left \in LeftSet /\ hist \in HistSet
  BY TypeByParts DEF StagedIInv
<1>2. call.for = "commit" /\ portal.pc = "commit" /\ ~Free
  BY DEF StagedIInv, CallFits, Unrecorded, At, Free, CommitPcs
<1>3. ~svc.staged /\ usb.pc = "none"
  BY <1>1, <1>2 DEF StagedIInv, UsbFits, UploadInOrder
<1>4. /\ portal.up \in Uploads /\ svc.size = Chunks
      /\ svc.dest = portal.up.dest /\ svc.pin = portal.up.pin
      /\ call.pc # "sync" => Current = portal.up /\ Current \in hist.received \ hist.over
  BY <1>2 DEF StagedIInv, UploadInOrder
<1>5. call.pc # "sync" => svc.sha = portal.up.data
  <2>1. Current.data = svc.sha BY DEF Current
  <2>2. QED BY <1>4, <2>1
<1>6. QED BY <1>1, <1>2, <1>3, <1>4, <1>5

\* While the mutex is held and no write is under way, the three properties hold as long
\* as it stays so.
LEMMA BusyKeeps ==
    ASSUME ~(call'.pc = "none"), usb'.pc = "none"
    PROVE  StagedIsAnUpload' /\ OverStaysOver' /\ SourceStable'
  BY DEF StagedIsAnUpload, OverStaysOver, SourceStable, Free

\* A commit that fails goes on to discard what it left.
LEMMA CommitFailsKeeps ==
    ASSUME StagedIInv, call.pc \in CommitPcs, Goto("discard_meta"),
           files' \in FilesSet, files'.meta = files.meta, left' \in LeftSet,
           UNCHANGED <<portal, usb, hist>>,
           svc' \in SvcSet, svc'.dest = svc.dest, svc'.pin = svc.pin, svc'.size = svc.size,
           svc'.staged = svc.staged, svc'.state = svc.state, svc'.source = svc.source
    PROVE  StagedIInv'
<1>1. call' \in CallSet /\ call'.pc = "discard_meta" /\ call'.for = "commit"
  BY CommitFacts, GotoFacts DEF DiscardPcs
<1>2. TypeOK' BY <1>1, CommitFacts, TypeByParts
<1>3. CallFits' /\ UsbFits'
  BY <1>1, CommitFacts DEF CallFits, Unrecorded, At, UsbFits, Free, CommitPcs, DiscardPcs
<1>4. UploadInOrder' BY <1>1, CommitFacts DEF UploadInOrder, CommitPcs
<1>5. RecordTrue' BY <1>1 DEF RecordTrue, StagedIInv, Unrecorded, At, CommitPcs
<1>6. QED BY <1>1, <1>2, <1>3, <1>4, <1>5, CommitFacts, BusyKeeps DEF StagedIInv

\* A commit whose payload is named goes on.
LEMMA CommitGoesKeeps ==
    ASSUME StagedIInv, call.pc \in CommitPcs \ {"sync"},
           NEW pc \in CommitPcs \ {"sync"}, Goto(pc),
           UNCHANGED <<svc, portal, usb>>, files' \in FilesSet, left' \in LeftSet,
           hist' \in HistSet, hist'.received = hist.received, portal.up \notin hist'.over,
           pc \in {"drop_meta", "drop_stage", "publish"} => files'.temp = Whole(svc.sha),
           pc \in {"meta_write", "meta_drop", "meta_rename"} =>
               files'.stage = Whole(svc.sha) /\ svc.pin # None,
           pc \in {"meta_drop", "meta_rename"} => files'.metaTemp = Current,
           RecordTrue'
    PROVE  StagedIInv'
<1>1. call' \in CallSet /\ call'.pc = pc /\ call'.for = "commit"
  BY CommitFacts, GotoFacts
<1>2. TypeOK' BY <1>1, CommitFacts, TypeByParts
<1>3. CallFits' /\ UsbFits'
  BY <1>1, CommitFacts DEF CallFits, Unrecorded, At, UsbFits, Free, CommitPcs
<1>4. Current' = Current BY DEF Current
<1>5. UploadInOrder' BY <1>1, <1>4, CommitFacts DEF UploadInOrder, CommitPcs
<1>6. QED BY <1>1, <1>2, <1>3, <1>5, CommitFacts, BusyKeeps DEF StagedIInv, CommitPcs

\* The commit, one file operation at a time.
LEMMA SyncKeeps ==
    ASSUME StagedIInv, commit_sync
    PROVE  StagedIInv'
<1>1. call.pc = "sync" /\ call.pc \in CommitPcs /\ UNCHANGED <<portal, usb, hist>>
  BY DEF commit_sync, At, CommitPcs
<1>2. CASE /\ svc.written = svc.size /\ Goto("drop_meta") /\ UNCHANGED <<files, left>>
           /\ svc' = [svc EXCEPT !.sha = portal.up.data, !.staging = FALSE]
  <2>1. /\ svc' \in SvcSet /\ svc'.sha = portal.up.data /\ svc'.dest = svc.dest
        /\ svc'.pin = svc.pin /\ svc'.size = svc.size /\ svc'.written = svc.written
        /\ svc'.staged = svc.staged /\ svc'.state = svc.state /\ svc'.source = svc.source
    BY <1>1, <1>2, CommitFacts DEF SvcSet, Uploads
  <2>2. call' \in CallSet /\ call'.pc = "drop_meta" /\ call'.for = "commit"
    BY <1>1, <1>2, CommitFacts, GotoFacts DEF CommitPcs
  <2>3. TypeOK' BY <1>1, <1>2, <2>1, <2>2, CommitFacts, TypeByParts
  <2>4. CallFits' /\ UsbFits'
    BY <1>1, <1>2, <2>1, <2>2, CommitFacts DEF CallFits, Unrecorded, At, UsbFits, Free, CommitPcs
  <2>5. Current' = portal.up
    <3>1. portal.up = [dest |-> portal.up.dest, data |-> portal.up.data, pin |-> portal.up.pin]
      BY <1>1, CommitFacts DEF Uploads
    <3>2. QED BY <1>1, <2>1, <3>1, CommitFacts DEF Current
  <2>6. /\ files.temp = [data |-> portal.up.data, chunks |-> svc.written]
        /\ portal.up \in hist.received \ hist.over
    BY <1>1, <1>2 DEF StagedIInv, UploadInOrder
  <2>7. UploadInOrder'
    BY <1>1, <1>2, <2>1, <2>2, <2>5, <2>6, CommitFacts DEF UploadInOrder, Whole
  <2>8. RecordTrue' BY <1>1, <1>2 DEF RecordTrue, StagedIInv, Unrecorded, At, Free
  <2>9. QED BY <1>1, <2>2, <2>3, <2>4, <2>7, <2>8, CommitFacts, BusyKeeps DEF StagedIInv
<1>3. CASE /\ svc' = [svc EXCEPT !.staging = FALSE] /\ files' = [files EXCEPT !.temp = Absent]
           /\ Goto("discard_meta")
           /\ Fault \/ UNCHANGED left
  <2>1. /\ svc' \in SvcSet /\ svc'.dest = svc.dest
        /\ svc'.pin = svc.pin /\ svc'.size = svc.size
        /\ svc'.staged = svc.staged /\ svc'.state = svc.state /\ svc'.source = svc.source
    BY <1>1, <1>3, CommitFacts DEF SvcSet
  <2>2. files' \in FilesSet /\ files'.meta = files.meta /\ left' \in LeftSet
    BY <1>1, <1>3, CommitFacts, FaultFacts DEF FilesSet
  <2>3. QED BY <1>1, <1>3, <2>1, <2>2, CommitFailsKeeps
<1>4. QED BY <1>2, <1>3 DEF commit_sync

LEMMA DropMetaKeeps ==
    ASSUME StagedIInv, drop_meta
    PROVE  StagedIInv'
<1>1. /\ call.pc = "drop_meta" /\ call.pc \in CommitPcs \ {"sync"} /\ Goto("drop_stage")
      /\ UNCHANGED <<svc, portal, usb>> /\ files.temp = Whole(svc.sha)
  BY DEF drop_meta, At, CommitPcs, StagedIInv, UploadInOrder
<1>2. /\ files' \in FilesSet /\ files'.temp = files.temp /\ left' \in LeftSet
      /\ files'.meta \in {files.meta, Absent}
  BY <1>1, CommitFacts, UnlinkFacts DEF drop_meta
<1>3. /\ hist' \in HistSet /\ hist'.received = hist.received
      /\ portal.up \notin hist'.over
      /\ ~hist'.stuck => files'.meta = Absent
  BY <1>1, CommitFacts DEF drop_meta, MetaGone, HistSet
<1>4. RecordTrue' BY <1>2, <1>3 DEF RecordTrue, StagedIInv, Unrecorded, At, Free
<1>5. QED BY <1>1, <1>2, <1>3, <1>4, CommitGoesKeeps DEF CommitPcs

LEMMA DropStageKeeps ==
    ASSUME StagedIInv, drop_stage
    PROVE  StagedIInv'
<1>1. /\ call.pc = "drop_stage" /\ call.pc \in CommitPcs \ {"sync"} /\ Goto("publish")
      /\ UNCHANGED <<svc, portal, usb, hist>> /\ files.temp = Whole(svc.sha)
  BY DEF drop_stage, At, CommitPcs, StagedIInv, UploadInOrder
<1>2. /\ files' \in FilesSet /\ files'.temp = files.temp /\ left' \in LeftSet
      /\ files'.meta = files.meta
  BY <1>1, CommitFacts, UnlinkFacts DEF drop_stage
<1>3. RecordTrue' BY <1>1, <1>2 DEF RecordTrue, StagedIInv, Unrecorded, At, Free
<1>4. QED BY <1>1, <1>2, <1>3, CommitFacts, CommitGoesKeeps DEF CommitPcs

LEMMA MetaDropKeeps ==
    ASSUME StagedIInv, meta_drop
    PROVE  StagedIInv'
<1>1. /\ call.pc = "meta_drop" /\ call.pc \in CommitPcs \ {"sync"} /\ Goto("meta_rename")
      /\ UNCHANGED <<svc, portal, usb, hist>> /\ files.stage = Whole(svc.sha)
      /\ svc.pin # None /\ files.metaTemp = Current
  BY DEF meta_drop, At, CommitPcs, StagedIInv, UploadInOrder
<1>2. /\ files' \in FilesSet /\ files'.stage = files.stage /\ left' \in LeftSet
      /\ files'.meta \in {files.meta, Absent} /\ files'.metaTemp = files.metaTemp
  BY <1>1, CommitFacts, UnlinkFacts DEF meta_drop
<1>3. RecordTrue' BY <1>1, <1>2 DEF RecordTrue, StagedIInv, Unrecorded, At, Free
<1>4. QED BY <1>1, <1>2, <1>3, CommitFacts, CommitGoesKeeps DEF CommitPcs

LEMMA MetaWriteKeeps ==
    ASSUME StagedIInv, meta_write
    PROVE  StagedIInv'
<1>1. /\ call.pc = "meta_write" /\ call.pc \in CommitPcs \ {"sync"}
      /\ UNCHANGED <<svc, portal, usb, hist>> /\ files.stage = Whole(svc.sha)
      /\ svc.pin # None
  BY DEF meta_write, At, CommitPcs, StagedIInv, UploadInOrder
<1>2. CASE files' = [files EXCEPT !.metaTemp = Current] /\ Goto("meta_drop") /\ UNCHANGED left
  <2>1. Current \in Records
    BY <1>1, CommitFacts DEF Records, Uploads, Current
  <2>2. /\ files' \in FilesSet /\ files'.stage = files.stage /\ left' \in LeftSet
        /\ files'.meta = files.meta /\ files'.metaTemp = Current
    BY <1>1, <1>2, <2>1, CommitFacts DEF FilesSet
  <2>3. RecordTrue' BY <1>1, <2>2 DEF RecordTrue, StagedIInv, Unrecorded, At, Free
  <2>4. QED BY <1>1, <1>2, <2>2, <2>3, CommitFacts, CommitGoesKeeps DEF CommitPcs
<1>3. CASE Fault /\ Goto("discard_meta") /\ UNCHANGED files
  BY <1>1, <1>3, CommitFacts, FaultFacts, CommitFailsKeeps
<1>4. QED BY <1>2, <1>3 DEF meta_write

\* The answer to the handler: the payload is staged.
LEMMA StagedKeeps ==
    ASSUME StagedIInv, call.pc \in CommitPcs \ {"sync"}, call' = NoCall,
           svc' = [svc EXCEPT !.staged = TRUE], portal' = [portal EXCEPT !.pc = "answer"],
           UNCHANGED <<usb, hist, left>>, files' \in FilesSet,
           files'.stage = Whole(svc.sha), svc.pin # None => files'.meta = Current, RecordTrue'
    PROVE  StagedIInv'
<1>1. /\ svc' \in SvcSet /\ svc'.sha = svc.sha /\ svc'.state = svc.state
      /\ svc'.source = svc.source /\ svc'.pin = svc.pin /\ svc'.dest = svc.dest
      /\ svc'.size = svc.size
  BY CommitFacts DEF SvcSet
<1>2. portal' \in PortalSet /\ portal'.pc = "answer"
  BY CommitFacts DEF PortalSet
<1>3. TypeOK' BY <1>1, <1>2, CommitFacts, ConstantTypes, TypeByParts
<1>4. CallFits' /\ UsbFits'
  BY <1>1, <1>2, CommitFacts, ConstantTypes DEF CallFits, Unrecorded, At, UsbFits, Free, CommitPcs
<1>5. UploadInOrder'
  BY <1>2, ConstantTypes DEF UploadInOrder, CommitPcs
<1>6. Current' = Current BY <1>1 DEF Current
<1>7. StagedIsAnUpload' /\ OverStaysOver' /\ SourceStable'
  BY <1>1, <1>6, CommitFacts DEF StagedIsAnUpload, OverStaysOver, SourceStable
<1>8. QED BY <1>3, <1>4, <1>5, <1>7 DEF StagedIInv

LEMMA PublishKeeps ==
    ASSUME StagedIInv, publish
    PROVE  StagedIInv'
<1>1. /\ call.pc = "publish" /\ call.pc \in CommitPcs \ {"sync"}
      /\ UNCHANGED <<usb, hist>> /\ files.temp = Whole(svc.sha)
  BY DEF publish, At, CommitPcs, StagedIInv, UploadInOrder
<1>2. CASE /\ files' = [files EXCEPT !.stage = files.temp, !.temp = Absent] /\ UNCHANGED left
  <2>1. /\ files' \in FilesSet /\ files'.stage = Whole(svc.sha) /\ files'.meta = files.meta
    BY <1>1, <1>2, CommitFacts DEF FilesSet
  <2>2. RecordTrue' BY <1>1, <2>1 DEF RecordTrue, StagedIInv, Unrecorded, At, Free
  <2>3. CASE svc.pin # None /\ Goto("meta_write") /\ UNCHANGED <<svc, portal>>
    BY <1>1, <1>2, <2>1, <2>2, <2>3, CommitFacts, CommitGoesKeeps DEF CommitPcs
  <2>4. CASE /\ svc.pin = None /\ call' = NoCall /\ svc' = [svc EXCEPT !.staged = TRUE]
             /\ portal' = [portal EXCEPT !.pc = "answer"]
    BY <1>1, <1>2, <2>1, <2>2, <2>4, StagedKeeps
  <2>5. CASE Goto("discard_meta") /\ UNCHANGED <<svc, portal>>
    BY <1>1, <1>2, <2>1, <2>5, CommitFacts, CommitFailsKeeps
  <2>6. QED BY <1>2, <2>3, <2>4, <2>5 DEF publish
<1>3. CASE /\ files' = [files EXCEPT !.temp = Absent]
           /\ Goto("discard_meta") /\ UNCHANGED <<svc, portal>>
           /\ Fault \/ UNCHANGED left
  <2>1. files' \in FilesSet /\ files'.meta = files.meta /\ left' \in LeftSet
    BY <1>1, <1>3, CommitFacts, FaultFacts DEF FilesSet
  <2>2. QED BY <1>1, <1>3, <2>1, CommitFacts, CommitFailsKeeps
<1>4. QED BY <1>2, <1>3 DEF publish

LEMMA MetaRenameKeeps ==
    ASSUME StagedIInv, meta_rename
    PROVE  StagedIInv'
<1>1. /\ call.pc = "meta_rename" /\ call.pc \in CommitPcs \ {"sync"}
      /\ UNCHANGED <<usb, hist>> /\ files.stage = Whole(svc.sha) /\ files.metaTemp = Current
  BY DEF meta_rename, At, CommitPcs, StagedIInv, UploadInOrder
<1>2. CASE /\ files' = [files EXCEPT !.meta = files.metaTemp, !.metaTemp = Absent]
           /\ svc' = [svc EXCEPT !.staged = TRUE] /\ call' = NoCall
           /\ portal' = [portal EXCEPT !.pc = "answer"] /\ UNCHANGED left
  <2>1. /\ files' \in FilesSet /\ files'.stage = Whole(svc.sha) /\ files'.meta = Current
    BY <1>1, <1>2, CommitFacts DEF FilesSet
  <2>2. RecordTrue' BY <1>1, <2>1, CommitFacts DEF RecordTrue, Unrecorded, At
  <2>3. QED BY <1>1, <1>2, <2>1, <2>2, StagedKeeps
<1>3. CASE /\ files' = [files EXCEPT !.metaTemp = Absent]
           /\ Goto("discard_meta") /\ UNCHANGED <<svc, portal>>
           /\ Fault \/ UNCHANGED left
  <2>1. files' \in FilesSet /\ files'.meta = files.meta /\ left' \in LeftSet
    BY <1>1, <1>3, CommitFacts, FaultFacts DEF FilesSet
  <2>2. QED BY <1>1, <1>3, <2>1, CommitFacts, CommitFailsKeeps
<1>4. QED BY <1>2, <1>3 DEF meta_rename

LEMMA CommitKeeps ==
    ASSUME StagedIInv, Commit
    PROVE  StagedIInv'
  BY SyncKeeps, DropMetaKeeps, DropStageKeeps, PublishKeeps, MetaWriteKeeps, MetaDropKeeps,
     MetaRenameKeeps
     DEF Commit

(***************************************************************************)
(* The discard                                                             *)
(***************************************************************************)

LEMMA TypeFacts ==
    ASSUME StagedIInv
    PROVE  /\ files \in FilesSet /\ svc \in SvcSet /\ call \in CallSet /\ portal \in PortalSet
           /\ usb \in UsbSet /\ left \in LeftSet /\ hist \in HistSet
  BY TypeByParts DEF StagedIInv

\* A discard in progress.
LEMMA DiscardFacts ==
    ASSUME StagedIInv, call.pc \in DiscardPcs
    PROVE  /\ ~Free /\ usb.pc = "none" /\ portal.pc # "write"
           /\ call.for = "commit" <=> portal.pc = "commit"
           /\ call.pc \notin CommitPcs \union {"off", "restore", "none"}
<1>1. call.pc \notin CommitPcs \union {"off", "restore", "none"}
  BY DEF CommitPcs, DiscardPcs
<1>2. QED BY <1>1, TypeFacts DEF StagedIInv, CallFits, Unrecorded, At, UsbFits, Free

LEMMA DiscardMetaKeeps ==
    ASSUME StagedIInv, discard_meta
    PROVE  StagedIInv'
<1>1. /\ call.pc = "discard_meta" /\ call.pc \in DiscardPcs /\ Goto("discard_stage")
      /\ UNCHANGED <<svc, portal, usb>>
  BY DEF discard_meta, At, DiscardPcs
<1>2. call' \in CallSet /\ call'.pc = "discard_stage" /\ call'.for = call.for
  BY <1>1, TypeFacts, GotoFacts DEF DiscardPcs
<1>3. /\ files' \in FilesSet /\ files'.meta \in {files.meta, Absent} /\ left' \in LeftSet
  BY TypeFacts, UnlinkFacts DEF discard_meta
<1>4. /\ hist' \in HistSet /\ hist'.received = hist.received
      /\ ~hist'.stuck => files'.meta = Absent
  BY TypeFacts DEF discard_meta, MetaGone, HistSet
<1>5. TypeOK' BY <1>1, <1>2, <1>3, <1>4, TypeFacts, TypeByParts
<1>6. CallFits' /\ UsbFits'
  BY <1>1, <1>2, DiscardFacts, TypeFacts
     DEF StagedIInv, CallFits, Unrecorded, At, UsbFits, Free, CommitPcs, DiscardPcs
<1>7. UploadInOrder'
  BY <1>1, <1>2, DiscardFacts DEF StagedIInv, UploadInOrder, CommitPcs
<1>8. RecordTrue' BY <1>3, <1>4 DEF RecordTrue, StagedIInv, Unrecorded, At, Free
<1>9. QED BY <1>1, <1>2, <1>5, <1>6, <1>7, <1>8, DiscardFacts, BusyKeeps DEF StagedIInv

\* The reset of the stage writer keeps all but the writer and the size.
LEMMA ResetWriter ==
    ASSUME NEW s \in SvcSet
    PROVE  /\ reset_stage_writer(s) \in SvcSet
           /\ reset_stage_writer(s).size = 0 /\ reset_stage_writer(s).staged = s.staged
           /\ reset_stage_writer(s).state = s.state /\ reset_stage_writer(s).source = s.source
<1>1. 0 \in 0..Chunks BY StagedAssumption
<1>2. reset_stage_writer(s) = [s EXCEPT !.staging = FALSE, !.size = 0, !.written = 0]
  BY DEF reset_stage_writer
<1>3. [s EXCEPT !.staging = FALSE, !.size = 0, !.written = 0] \in SvcSet
  BY <1>1 DEF SvcSet
<1>4. QED BY <1>2, <1>3 DEF SvcSet

LEMMA DiscardStageKeeps ==
    ASSUME StagedIInv, discard_stage
    PROVE  StagedIInv'
<1>1. /\ call.pc = "discard_stage" /\ call.pc \in DiscardPcs /\ call' = NoCall
      /\ UNCHANGED <<usb, hist>>
  BY DEF discard_stage, At, DiscardPcs
<1>2. /\ files' \in FilesSet /\ files'.meta = files.meta /\ left' \in LeftSet
  BY TypeFacts, UnlinkFacts DEF discard_stage
<1>3. /\ svc' \in SvcSet /\ ~svc'.staged /\ svc'.source = svc.source
      /\ svc'.state \in {svc.state, "IDLE"}
  <2>1. CASE call.for = "owner"
    BY <2>1, TypeFacts DEF discard_stage, SvcSet
  <2>2. CASE call.for # "owner" /\ call.for = "commit" /\ portal.up.dest = Startup
    <3>1. svc' = [reset_stage_writer(svc) EXCEPT !.staged = FALSE, !.pin = None]
      BY <2>2 DEF discard_stage
    <3>2. QED BY <3>1, TypeFacts, ResetWriter DEF SvcSet
  <2>3. CASE call.for # "owner" /\ ~(call.for = "commit" /\ portal.up.dest = Startup)
    BY <2>3, TypeFacts DEF discard_stage, SvcSet
  <2>4. QED BY <2>1, <2>2, <2>3
<1>4. portal' \in PortalSet /\ portal'.pc \notin {"write", "commit"}
  BY <1>1, TypeFacts, DiscardFacts, ConstantTypes DEF discard_stage
<1>5. TypeOK' BY <1>1, <1>2, <1>3, <1>4, TypeFacts, ConstantTypes, TypeByParts
<1>6. CallFits' /\ UsbFits'
  BY <1>1, <1>3, <1>4, DiscardFacts, ConstantTypes
     DEF CallFits, Unrecorded, At, UsbFits, Free, CommitPcs, DiscardPcs
<1>7. UploadInOrder' BY <1>1, <1>4, ConstantTypes DEF UploadInOrder, CommitPcs
<1>8. RecordTrue' BY <1>1, <1>2 DEF RecordTrue, StagedIInv, Unrecorded, At, Free
<1>9. StagedIsAnUpload' /\ OverStaysOver' /\ SourceStable'
  BY <1>1, <1>3, DiscardFacts DEF StagedIsAnUpload, OverStaysOver, SourceStable
<1>10. QED BY <1>5, <1>6, <1>7, <1>8, <1>9 DEF StagedIInv

\* Nobody holds the mutex.
LEMMA FreeFacts ==
    ASSUME StagedIInv, Free
    PROVE  /\ call = NoCall /\ call.for = "none" /\ portal.pc # "commit"
           /\ call.pc \notin CommitPcs \union DiscardPcs \union {"off", "restore"}
           /\ usb.pc # "none" => svc.staged /\ svc.state = "RUNNING"
           /\ usb.pc \in {"open", "sent"} => svc.source /\ Current \in hist.received
           /\ svc.staged => portal.pc # "write"
<1>1. call = NoCall /\ call.for = "none" /\ call.pc = "none"
  BY ConstantTypes DEF StagedIInv, CallFits, Unrecorded, At, Free
<1>2. call.pc \notin CommitPcs \union DiscardPcs \union {"off", "restore"}
  BY <1>1 DEF CommitPcs, DiscardPcs
<1>3. QED BY <1>1, <1>2 DEF StagedIInv, CallFits, Unrecorded, At, UsbFits, UploadInOrder

\* Somebody takes it to discard, once no write is under way: the owner, or the write whose
\* upload is over now.
LEMMA DiscardStartsKeeps ==
    ASSUME StagedIInv, Free, portal' \in PortalSet, portal'.pc \notin {"write", "commit"},
           \/ call' = [pc |-> "discard_meta", for |-> "owner"] /\ UNCHANGED hist
           \/ /\ call' = [pc |-> "discard_meta", for |-> "verified"]
              /\ hist' = [hist EXCEPT !.over = @ \union {Current}]
              /\ Current \in hist.received /\ Current' = Current,
           UNCHANGED files, left' \in LeftSet, svc' \in SvcSet, usb' \in UsbSet,
           usb'.pc = "none"
    PROVE  StagedIInv'
<1>1. /\ call' \in CallSet /\ call'.pc = "discard_meta" /\ call'.for \in {"owner", "verified"}
      /\ call'.pc # "none"
  BY DEF CallSet, DiscardPcs
<1>2. /\ hist' \in HistSet /\ hist'.received = hist.received
      /\ hist'.stuck = hist.stuck /\ hist'.unlearnt = hist.unlearnt
      /\ call'.for = "owner" => hist'.over = hist.over
      /\ call'.for = "verified" => /\ Current' = Current /\ Current \in hist.received
                                   /\ hist'.over = hist.over \union {Current}
  BY TypeFacts DEF HistSet
<1>3. TypeOK' BY <1>1, <1>2, TypeFacts, TypeByParts
<1>4. CallFits' /\ UsbFits' /\ UploadInOrder'
  BY <1>1, <1>2 DEF CallFits, Unrecorded, At, UsbFits, Free, CommitPcs, UploadInOrder
<1>5. RecordTrue' BY <1>1, <1>2 DEF RecordTrue, StagedIInv, Unrecorded, At, Free
<1>6. QED BY <1>1, <1>3, <1>4, <1>5, BusyKeeps DEF StagedIInv

LEMMA PortalDiscardKeeps ==
    ASSUME StagedIInv, portal_map_discard \/ portal_preflight
    PROVE  StagedIInv'
<1>1. CASE /\ Free /\ Discards /\ portal' \in {portal, NoPortal} /\ portal'.pc = "none"
           /\ call' = [pc |-> "discard_meta", for |-> "owner"]
           /\ UNCHANGED <<files, svc, usb, left, hist>>
  <2>1. usb.pc = "none"
    BY <1>1, FreeFacts, TypeFacts DEF Discards
  <2>2. QED BY <1>1, <2>1, TypeFacts, ConstantTypes, DiscardStartsKeeps
<1>2. CASE Free /\ portal.pc = "answer" /\ portal' = NoPortal
           /\ UNCHANGED <<files, svc, call, usb, left, hist>>
  <2>1. TypeOK' BY <1>2, TypeFacts, ConstantTypes, TypeByParts
  <2>2. CallFits' /\ UsbFits'
    BY <1>2, FreeFacts, ConstantTypes DEF Current, StagedIInv, CallFits, Unrecorded, At, UsbFits, Free
  <2>3. UploadInOrder' BY <1>2, FreeFacts, ConstantTypes DEF UploadInOrder, CommitPcs
  <2>4. RecordTrue' BY <1>2 DEF RecordTrue, StagedIInv, Unrecorded, At, Free
  <2>5. Current' = Current BY <1>2 DEF Current
  <2>6. StagedIsAnUpload' /\ OverStaysOver' /\ SourceStable'
    BY <1>2, <2>5 DEF StagedIInv, StagedIsAnUpload, OverStaysOver, SourceStable, Free
  <2>7. QED BY <2>1, <2>2, <2>3, <2>4, <2>6 DEF StagedIInv
<1>3. QED BY <1>1, <1>2, ConstantTypes DEF portal_map_discard, portal_preflight

LEMMA DiscardKeeps ==
    ASSUME StagedIInv, Discard
    PROVE  StagedIInv'
  BY DiscardMetaKeeps, DiscardStageKeeps, PortalDiscardKeeps DEF Discard

(***************************************************************************)
(* The upload                                                              *)
(***************************************************************************)

\* The stage writer is reset and what was staged, if anything, is left without a size.
LEMMA AbortKeeps ==
    ASSUME StagedIInv, Free, svc' \in SvcSet, svc'.size = 0, svc'.staged = svc.staged,
           svc'.state = svc.state, svc'.source = svc.source,
           Current' = Current \/ svc.state # "RUNNING",
           files' \in FilesSet, files'.stage = files.stage, files'.meta = files.meta,
           portal' \in PortalSet, portal'.pc \notin {"write", "commit"}, left' \in LeftSet,
           UNCHANGED <<call, usb, hist>>
    PROVE  StagedIInv'
<1>1. TypeOK' BY TypeFacts, TypeByParts
<1>2. CallFits' /\ UsbFits'
  BY FreeFacts DEF CallFits, Unrecorded, At, UsbFits, Free
<1>3. UploadInOrder' BY FreeFacts DEF UploadInOrder, CommitPcs
<1>4. RecordTrue' BY DEF RecordTrue, StagedIInv, Unrecorded, At, Free
<1>5. StagedIsAnUpload' /\ OverStaysOver' /\ SourceStable'
  BY DEF StagedIInv, StagedIsAnUpload, OverStaysOver, SourceStable
<1>6. QED BY <1>1, <1>2, <1>3, <1>4, <1>5 DEF StagedIInv

LEMMA StageAbort ==
    ASSUME StagedIInv, stage_abort
    PROVE  /\ svc' \in SvcSet /\ svc'.size = 0 /\ svc'.staged = svc.staged
           /\ svc'.state = svc.state /\ svc'.source = svc.source /\ Current' = Current
           /\ files' \in FilesSet /\ files'.stage = files.stage /\ files'.meta = files.meta
<1>1. svc' = reset_stage_writer(svc) /\ files' = [files EXCEPT !.temp = Absent]
  BY DEF stage_abort
<1>2. files' \in FilesSet /\ files'.stage = files.stage /\ files'.meta = files.meta
  BY <1>1, TypeFacts DEF FilesSet
<1>3. Current' = Current BY <1>1, TypeFacts DEF Current, reset_stage_writer, SvcSet
<1>4. QED BY <1>1, <1>2, <1>3, TypeFacts, ResetWriter

LEMMA StageBeginFails ==
    ASSUME StagedIInv, NEW up \in Uploads, stage_begin_fails(up)
    PROVE  /\ svc' \in SvcSet /\ svc'.size = 0 /\ svc'.staged = svc.staged
           /\ svc'.state = svc.state /\ svc'.source = svc.source
           /\ files' \in FilesSet /\ files'.stage = files.stage /\ files'.meta = files.meta
<1> DEFINE r == reset_stage_writer(svc)
<1>1. svc' = [r EXCEPT !.dest = up.dest] /\ files' = [files EXCEPT !.temp = Absent]
  BY DEF stage_begin_fails
<1>2. files' \in FilesSet /\ files'.stage = files.stage /\ files'.meta = files.meta
  BY <1>1, TypeFacts DEF FilesSet
<1>3. /\ r \in SvcSet /\ r.size = 0 /\ r.staged = svc.staged /\ r.state = svc.state
      /\ r.source = svc.source /\ up.dest \in Dests
  BY TypeFacts, ResetWriter DEF Uploads
<1> HIDE DEF r
<1>4. /\ svc' \in SvcSet /\ svc'.size = 0 /\ svc'.staged = svc.staged
      /\ svc'.state = svc.state /\ svc'.source = svc.source
  BY <1>1, <1>3 DEF SvcSet
<1>5. QED BY <1>2, <1>4

\* A new upload begins, and what was staged is staged no more.
LEMMA BeginKeeps ==
    ASSUME StagedIInv, Free, NEW up \in Uploads, Begins, stage_begin(up),
           portal' = [pc |-> "write", up |-> up], left' \in LeftSet,
           UNCHANGED <<call, usb, hist>>
    PROVE  StagedIInv'
<1>1. /\ svc' \in SvcSet /\ svc'.dest = up.dest /\ svc'.pin = up.pin /\ svc'.size = Chunks
      /\ svc'.written = 0 /\ ~svc'.staged /\ svc'.state = "IDLE" /\ svc'.source = svc.source
  <2> DEFINE r == reset_stage_writer(svc)
  <2>1. svc' = [r EXCEPT !.dest = up.dest, !.pin = up.pin, !.size = Chunks,
                         !.staged = FALSE, !.staging = TRUE, !.state = "IDLE"]
    BY DEF stage_begin
  <2>2. /\ r \in SvcSet /\ r.source = svc.source /\ r.written = 0
        /\ up.dest \in Dests /\ up.pin \in Serials \union {None}
    BY TypeFacts, ResetWriter DEF Uploads, reset_stage_writer, SvcSet
  <2> HIDE DEF r
  <2>3. QED BY <2>1, <2>2 DEF SvcSet
<1>2. /\ files' \in FilesSet /\ files'.temp = [data |-> up.data, chunks |-> 0]
      /\ files'.meta = files.meta
  <2>1. [data |-> up.data, chunks |-> 0] \in Contents
    BY StagedAssumption DEF Contents, Uploads
  <2>2. QED BY <2>1, TypeFacts DEF stage_begin, FilesSet
<1>3. portal' \in PortalSet /\ portal'.pc = "write" /\ portal'.up = up
  BY DEF PortalSet
<1>4. usb.pc = "none" BY FreeFacts, TypeFacts DEF Begins
<1>5. TypeOK' BY <1>1, <1>2, <1>3, TypeFacts, TypeByParts
<1>6. CallFits' /\ UsbFits'
  BY <1>1, <1>3, <1>4, FreeFacts DEF CallFits, Unrecorded, At, UsbFits, Free
<1>7. UploadInOrder'
  BY <1>1, <1>2, <1>3, FreeFacts DEF UploadInOrder, CommitPcs
<1>8. RecordTrue' BY <1>2 DEF RecordTrue, StagedIInv, Unrecorded, At, Free
<1>9. StagedIsAnUpload' /\ OverStaysOver' /\ SourceStable'
  BY <1>1, <1>4 DEF StagedIsAnUpload, OverStaysOver, SourceStable
<1>10. QED BY <1>5, <1>6, <1>7, <1>8, <1>9 DEF StagedIInv

\* What a handler that stages spends.
LEMMA UploadSpent ==
    ASSUME left \in LeftSet, left.uploads > 0,
           \/ left' = [left EXCEPT !.uploads = @ - 1]
           \/ /\ left.faults > 0
              /\ left' = [left EXCEPT !.uploads = @ - 1, !.faults = @ - 1]
    PROVE  left' \in LeftSet
<1>1. left.uploads - 1 \in 0..MaxUploads BY StagedAssumption DEF LeftSet
<1>2. left.faults > 0 => left.faults - 1 \in 0..MaxFaults BY StagedAssumption DEF LeftSet
<1>3. QED BY <1>1, <1>2 DEF LeftSet

LEMMA PortalStageKeeps ==
    ASSUME StagedIInv, portal_map_stage \/ portal_startup_apply
    PROVE  StagedIInv'
<1>1. /\ Free /\ portal.pc = "none" /\ UNCHANGED <<call, usb, hist>>
      /\ left' \in LeftSet
      /\ \E up \in Uploads :
            \/ Begins /\ stage_begin(up) /\ portal' = [pc |-> "write", up |-> up]
            \/ Begins /\ stage_begin_fails(up) /\ UNCHANGED portal
            \/ stage_abort /\ UNCHANGED portal
  <2>1. left' \in LeftSet
    BY TypeFacts, UploadSpent DEF portal_map_stage, portal_startup_apply
  <2>2. QED BY <2>1 DEF portal_map_stage, portal_startup_apply
<1>2. PICK up \in Uploads :
            \/ Begins /\ stage_begin(up) /\ portal' = [pc |-> "write", up |-> up]
            \/ Begins /\ stage_begin_fails(up) /\ UNCHANGED portal
            \/ stage_abort /\ UNCHANGED portal
  BY <1>1
<1>3. CASE Begins /\ stage_begin(up) /\ portal' = [pc |-> "write", up |-> up]
  BY <1>1, <1>3, BeginKeeps
<1>4. CASE Begins /\ stage_begin_fails(up) /\ UNCHANGED portal
  BY <1>1, <1>4, StageBeginFails, AbortKeeps, TypeFacts DEF Begins
<1>5. CASE stage_abort /\ UNCHANGED portal
  BY <1>1, <1>5, StageAbort, AbortKeeps, TypeFacts
<1>6. QED BY <1>2, <1>3, <1>4, <1>5

LEMMA WriteFits ==
    ASSUME StagedIInv, stage_write
    PROVE  /\ svc' \in SvcSet /\ svc'.written = svc.written + 1 /\ svc'.dest = svc.dest
           /\ svc'.pin = svc.pin /\ svc'.size = svc.size /\ svc'.staged = svc.staged
           /\ svc'.state = svc.state /\ svc'.source = svc.source
           /\ files' \in FilesSet /\ files'.meta = files.meta /\ files'.stage = files.stage
           /\ files'.temp = [data |-> portal.up.data, chunks |-> svc.written + 1]
<1>1. svc.written + 1 \in 0..Chunks
  BY TypeFacts, StagedAssumption DEF stage_write, SvcSet
<1>2. /\ svc' \in SvcSet /\ svc'.written = svc.written + 1 /\ svc'.dest = svc.dest
      /\ svc'.pin = svc.pin /\ svc'.size = svc.size /\ svc'.staged = svc.staged
      /\ svc'.state = svc.state /\ svc'.source = svc.source
  BY <1>1, TypeFacts DEF stage_write, SvcSet
<1>3. portal.up \in Uploads /\ files.temp = [data |-> portal.up.data, chunks |-> svc.written]
  BY DEF stage_write, StagedIInv, UploadInOrder
<1>4. [data |-> portal.up.data, chunks |-> svc.written + 1] \in Contents
  BY <1>1, <1>3 DEF Contents, Uploads
<1>5. files' = [files EXCEPT !.temp = [data |-> portal.up.data, chunks |-> svc.written + 1]]
  <2>1. files' = [files EXCEPT !.temp = [files.temp EXCEPT !.chunks = files.temp.chunks + 1]]
    BY TypeFacts DEF stage_write, FilesSet
  <2>2. QED BY <1>3, <2>1
<1>6. QED BY <1>2, <1>4, <1>5, TypeFacts DEF FilesSet

LEMMA StageWriteKeeps ==
    ASSUME StagedIInv, stage_write
    PROVE  StagedIInv'
<1>1. Free /\ portal.pc = "write" /\ UNCHANGED <<call, portal, usb, left, hist>>
  BY DEF stage_write
<1>2. TypeOK' BY <1>1, WriteFits, TypeFacts, TypeByParts
<1>3. ~svc.staged /\ usb.pc = "none" BY <1>1, FreeFacts, TypeFacts DEF SvcSet
<1>4. CallFits' /\ UsbFits' BY <1>1, <1>3, WriteFits, FreeFacts DEF CallFits, Unrecorded, At, UsbFits, Free
<1>5. UploadInOrder'
  <2>1. call.pc \notin CommitPcs /\ call.pc # "sync" BY <1>1, FreeFacts DEF CommitPcs
  <2>2. QED BY <1>1, <2>1, WriteFits DEF StagedIInv, UploadInOrder, CommitPcs
<1>6. RecordTrue' BY <1>1, WriteFits DEF RecordTrue, StagedIInv, Unrecorded, At, Free
<1>7. StagedIsAnUpload' /\ OverStaysOver' /\ SourceStable'
  BY <1>1, <1>3, WriteFits DEF StagedIsAnUpload, OverStaysOver, SourceStable
<1>8. QED BY <1>2, <1>4, <1>5, <1>6, <1>7 DEF StagedIInv

\* All bytes are in: the commit takes the mutex.
LEMMA StagingCompleteKeeps ==
    ASSUME StagedIInv, staging_complete
    PROVE  StagedIInv'
<1>1. /\ Free /\ portal.pc = "write" /\ UNCHANGED <<files, svc, usb, left>>
      /\ call' = [pc |-> "sync", for |-> "commit"]
      /\ portal' = [portal EXCEPT !.pc = "commit"]
  BY DEF staging_complete
<1>2. /\ call' \in CallSet /\ call'.pc = "sync" /\ call'.for = "commit" /\ ~(call'.pc = "none")
  BY <1>1 DEF CallSet, CommitPcs
<1>3. portal' \in PortalSet /\ portal'.pc = "commit" /\ portal'.up = portal.up
  BY <1>1, TypeFacts DEF PortalSet
<1>4. /\ portal.up \in Uploads /\ ~svc.staged /\ svc.dest = portal.up.dest
      /\ svc.pin = portal.up.pin /\ svc.size = Chunks
      /\ files.temp = [data |-> portal.up.data, chunks |-> svc.written]
  BY <1>1 DEF StagedIInv, UploadInOrder
<1>5. /\ hist' \in HistSet /\ hist'.stuck = hist.stuck /\ hist'.unlearnt = hist.unlearnt
      /\ hist.received \subseteq hist'.received /\ hist'.over \subseteq hist.over
      /\ svc.written = svc.size => portal.up \in hist'.received \ hist'.over
  <2>1. CASE svc.written = svc.size
    <3>1. /\ hist' = [hist EXCEPT !.received = hist.received \union {portal.up},
                                  !.over = hist.over \ {portal.up}]
      BY <2>1 DEF staging_complete
    <3>2. hist.received \union {portal.up} \in SUBSET Uploads
      BY <1>4, TypeFacts DEF HistSet
    <3>3. hist.over \ {portal.up} \in SUBSET Uploads
      BY TypeFacts DEF HistSet
    <3>4. QED BY <3>1, <3>2, <3>3, TypeFacts DEF HistSet
  <2>2. CASE svc.written # svc.size
    BY <2>2, TypeFacts DEF staging_complete
  <2>3. QED BY <2>1, <2>2
<1>6. usb.pc = "none"
  BY <1>1, <1>4, FreeFacts, TypeFacts
<1>7. TypeOK' BY <1>1, <1>2, <1>3, <1>5, TypeFacts, TypeByParts
<1>8. CallFits' /\ UsbFits'
  BY <1>1, <1>2, <1>3, <1>6 DEF CallFits, Unrecorded, At, UsbFits, Free, CommitPcs
<1>9. UploadInOrder'
  BY <1>1, <1>2, <1>3, <1>4, <1>5 DEF UploadInOrder, CommitPcs
<1>10. RecordTrue' BY <1>1, <1>5 DEF RecordTrue, StagedIInv, Unrecorded, At, Free
<1>11. StagedIsAnUpload' /\ OverStaysOver' /\ SourceStable'
  BY <1>1, <1>2, <1>6, BusyKeeps
<1>12. QED BY <1>7, <1>8, <1>9, <1>10, <1>11 DEF StagedIInv

LEMMA StageKeeps ==
    ASSUME StagedIInv, Stage
    PROVE  StagedIInv'
<1>1. CASE staging_incomplete
  BY <1>1, StageAbort, TypeFacts, ConstantTypes, AbortKeeps DEF staging_incomplete
<1>2. QED BY <1>1, PortalStageKeeps, StageWriteKeeps, StagingCompleteKeeps DEF Stage

(***************************************************************************)
(* The write                                                               *)
(***************************************************************************)

\* The USB side is asked for what is staged, by the handler or behind its back.
LEMMA QueueKeeps ==
    ASSUME StagedIInv, Free, Requests, Queue, svc' = [svc EXCEPT !.state = "RUNNING"],
           portal' \in {portal, NoPortal}, UNCHANGED <<files, call, left, hist>>
    PROVE  StagedIInv'
<1>1. /\ svc' \in SvcSet /\ svc'.state = "RUNNING" /\ svc'.dest = svc.dest
      /\ svc'.sha = svc.sha /\ svc'.pin = svc.pin /\ svc'.size = svc.size
      /\ svc'.staged = svc.staged /\ svc'.source = svc.source
  BY TypeFacts DEF SvcSet
<1>2. usb' \in UsbSet /\ usb'.pc = "queued"
  BY TypeFacts DEF Queue, UsbSet, SvcSet
<1>3. svc.staged /\ usb.pc = "none" /\ portal'.pc \notin {"write", "commit"}
  BY FreeFacts, ConstantTypes DEF Requests
<1>4. TypeOK' BY <1>1, <1>2, TypeFacts, ConstantTypes, TypeByParts
<1>5. CallFits' /\ UsbFits'
  BY <1>1, <1>2, <1>3, FreeFacts DEF CallFits, Unrecorded, At, UsbFits, Free
<1>6. UploadInOrder' BY <1>3, FreeFacts DEF UploadInOrder, CommitPcs
<1>7. RecordTrue' BY DEF RecordTrue, StagedIInv, Unrecorded, At, Free
<1>8. Current' = Current BY <1>1 DEF Current
<1>9. StagedIsAnUpload' /\ OverStaysOver' /\ SourceStable'
  BY <1>1, <1>2, <1>8 DEF StagedIInv, StagedIsAnUpload, OverStaysOver, SourceStable, Free
<1>10. QED BY <1>4, <1>5, <1>6, <1>7, <1>9 DEF StagedIInv

LEMMA RequestKeeps ==
    ASSUME StagedIInv, map_upload_request \/ portal_startup_request
    PROVE  StagedIInv'
<1>1. CASE map_upload_request
  BY <1>1, QueueKeeps DEF map_upload_request
<1>2. CASE portal_startup_request
  <2>1. CASE Requests /\ Queue /\ svc' = [svc EXCEPT !.state = "RUNNING"] /\ UNCHANGED files
    BY <1>2, <2>1, QueueKeeps DEF portal_startup_request
  <2>2. CASE stage_abort /\ UNCHANGED usb
    BY <1>2, <2>2, StageAbort, TypeFacts, ConstantTypes, AbortKeeps DEF portal_startup_request
  <2>3. QED BY <1>2, <2>1, <2>2 DEF portal_startup_request
<1>3. QED BY <1>1, <1>2

\* The end of a write, whatever became of it, and whoever heard of it.
LEMMA WriteEnds ==
    ASSUME StagedIInv, NEW s \in {"FAILED", "VERIFIED"}, NEW closed \in BOOLEAN,
           NEW heard \in BOOLEAN, write_ends(s, closed, heard)
    PROVE  /\ svc' \in SvcSet /\ svc'.dest = svc.dest
           /\ svc'.sha = svc.sha /\ svc'.pin = svc.pin /\ svc'.size = svc.size
           /\ svc'.staged = svc.staged /\ Current' = Current
           /\ usb' = NoWrite /\ left' \in LeftSet
<1>1. /\ svc' \in SvcSet /\ svc'.dest = svc.dest /\ svc'.sha = svc.sha /\ svc'.pin = svc.pin
      /\ svc'.size = svc.size /\ svc'.staged = svc.staged
  BY TypeFacts DEF write_ends, SvcSet
<1>2. left' \in LeftSet BY TypeFacts, FaultFacts DEF write_ends
<1>3. QED BY <1>1, <1>2 DEF write_ends, Current

\* The write is over, and the service goes on with what it has.
LEMMA EndKeeps ==
    ASSUME StagedIInv, Free, usb.pc # "none", usb' = NoWrite, UNCHANGED <<files, call, portal>>,
           svc' \in SvcSet, svc'.size = svc.size, svc'.staged = svc.staged,
           Current' = Current, svc'.sha = svc.sha, svc'.pin = svc.pin, left' \in LeftSet,
           hist' \in HistSet, hist'.received = hist.received, hist'.stuck = hist.stuck,
           hist'.over \ hist'.unlearnt \subseteq hist.over \ hist.unlearnt
    PROVE  StagedIInv'
<1>1. TypeOK' BY TypeFacts, ConstantTypes, TypeByParts
<1>2. portal.pc \notin {"write", "commit"} BY FreeFacts
<1>3. CallFits' /\ UsbFits'
  BY <1>2, FreeFacts, ConstantTypes DEF CallFits, Unrecorded, At, UsbFits, Free
<1>4. UploadInOrder' BY <1>2, FreeFacts DEF UploadInOrder, CommitPcs
<1>5. RecordTrue' BY DEF RecordTrue, StagedIInv, Unrecorded, At, Free
<1>6. StagedIsAnUpload' /\ OverStaysOver' /\ SourceStable'
  BY ConstantTypes DEF StagedIInv, StagedIsAnUpload, OverStaysOver, SourceStable, Free
<1>7. QED BY <1>1, <1>3, <1>4, <1>5, <1>6 DEF StagedIInv

LEMMA UploadFailedKeeps ==
    ASSUME StagedIInv, upload_failed
    PROVE  StagedIInv'
<1>1. PICK closed \in BOOLEAN, heard \in BOOLEAN : write_ends("FAILED", closed, heard)
  BY DEF upload_failed
<1>2. Free /\ usb.pc # "none" /\ UNCHANGED <<files, call, portal, hist>>
  BY DEF upload_failed
<1>3. QED BY <1>1, <1>2, WriteEnds, TypeFacts, EndKeeps

\* The source is opened only for what the request names, and the upload it is of was
\* received whole.
LEMMA SourceOpenKeeps ==
    ASSUME StagedIInv, source_open
    PROVE  StagedIInv'
<1>1. /\ Free /\ usb.pc = "queued" /\ usb.size # 0 /\ Matches
      /\ svc' = [svc EXCEPT !.source = TRUE] /\ usb' = [usb EXCEPT !.pc = "open"]
      /\ UNCHANGED <<files, call, portal, left, hist>>
  BY DEF source_open
<1>2. /\ svc' \in SvcSet /\ svc'.source /\ svc'.state = svc.state /\ svc'.dest = svc.dest
      /\ svc'.sha = svc.sha /\ svc'.pin = svc.pin /\ svc'.size = svc.size
      /\ svc'.staged = svc.staged
  BY <1>1, TypeFacts DEF SvcSet
<1>3. usb' \in UsbSet /\ usb'.pc = "open" /\ usb'.dest = usb.dest /\ usb'.data = usb.data
  BY <1>1, TypeFacts DEF UsbSet
<1>4. TypeOK' BY <1>1, <1>2, <1>3, TypeFacts, TypeByParts
<1>5. svc.staged /\ svc.state = "RUNNING" /\ svc.size # 0 /\ usb.data = svc.sha
      /\ usb.dest = svc.dest
  BY <1>1 DEF Matches
<1>6. Current' = Current /\ Current.dest = svc.dest /\ Current.data = svc.sha
  BY <1>2 DEF Current
<1>7. files.stage = Whole(svc.sha) /\ Current \in hist.received
  BY <1>1, <1>5 DEF StagedIInv, StagedIsAnUpload
<1>8. CallFits' /\ UsbFits'
  BY <1>1, <1>2, <1>3, <1>5, <1>6, <1>7, FreeFacts
     DEF StagedIInv, CallFits, Unrecorded, At, UsbFits, Free
<1>9. UploadInOrder' BY <1>1, <1>5, FreeFacts DEF UploadInOrder, CommitPcs
<1>10. RecordTrue' BY <1>1 DEF RecordTrue, StagedIInv, Unrecorded, At, Free
<1>11. StagedIsAnUpload' /\ OverStaysOver'
  BY <1>1, <1>2, <1>6 DEF StagedIInv, StagedIsAnUpload, OverStaysOver, Free
<1>12. SourceStable' BY <1>1, <1>2, <1>3, <1>5, <1>6, <1>7 DEF SourceStable
<1>13. QED BY <1>4, <1>8, <1>9, <1>10, <1>11, <1>12 DEF StagedIInv

LEMMA SourceReadKeeps ==
    ASSUME StagedIInv, source_read
    PROVE  StagedIInv'
<1>1. /\ Free /\ usb.pc = "open" /\ usb' = [usb EXCEPT !.pc = "sent"]
      /\ UNCHANGED <<files, svc, call, portal, left, hist>>
  BY DEF source_read
<1>2. usb' \in UsbSet /\ usb'.pc = "sent" /\ usb'.dest = usb.dest /\ usb'.data = usb.data
  BY <1>1, TypeFacts DEF UsbSet
<1>3. TypeOK' BY <1>1, <1>2, TypeFacts, TypeByParts
<1>4. CallFits' /\ UsbFits'
  BY <1>1, <1>2, FreeFacts DEF Current, StagedIInv, CallFits, Unrecorded, At, UsbFits, Free
<1>5. Current' = Current BY <1>1 DEF Current
<1>6. UploadInOrder' BY <1>1, <1>5 DEF StagedIInv, UploadInOrder
<1>7. RecordTrue' BY <1>1 DEF RecordTrue, StagedIInv, Unrecorded, At, Free
<1>8. StagedIsAnUpload' /\ OverStaysOver'
  BY <1>1, <1>5 DEF StagedIInv, StagedIsAnUpload, OverStaysOver, Free
<1>9. SourceStable' BY <1>1, <1>2 DEF StagedIInv, SourceStable
<1>10. QED BY <1>3, <1>4, <1>6, <1>7, <1>8, <1>9 DEF StagedIInv

LEMMA UploadVerifiedKeeps ==
    ASSUME StagedIInv, upload_verified
    PROVE  StagedIInv'
<1>1. /\ Free /\ usb.pc = "sent" /\ UNCHANGED <<files, portal>>
      /\ portal.pc \notin {"write", "commit"} /\ Current \in hist.received
  BY FreeFacts DEF upload_verified
<1>2. PICK closed \in BOOLEAN :
         \/ /\ write_ends("VERIFIED", closed, TRUE)
            /\ call' = [pc |-> "discard_meta", for |-> "verified"]
            /\ hist' = [hist EXCEPT !.over = @ \union {Current}]
         \/ /\ write_ends("VERIFIED", closed, FALSE)
            /\ hist' = [hist EXCEPT !.over = @ \union {Current},
                                    !.unlearnt = @ \union {Current}]
            /\ UNCHANGED call
  BY DEF upload_verified
<1>3. CASE /\ write_ends("VERIFIED", closed, TRUE)
           /\ call' = [pc |-> "discard_meta", for |-> "verified"]
           /\ hist' = [hist EXCEPT !.over = @ \union {Current}]
  BY <1>1, <1>3, WriteEnds, TypeFacts, ConstantTypes, DiscardStartsKeeps
<1>4. CASE /\ write_ends("VERIFIED", closed, FALSE)
           /\ hist' = [hist EXCEPT !.over = @ \union {Current}, !.unlearnt = @ \union {Current}]
           /\ UNCHANGED call
  <2>1. /\ hist' \in HistSet /\ hist'.received = hist.received /\ hist'.stuck = hist.stuck
        /\ hist'.over = hist.over \union {Current}
        /\ hist'.unlearnt = hist.unlearnt \union {Current}
    BY <1>1, <1>4, TypeFacts DEF HistSet
  <2>2. hist'.over \ hist'.unlearnt \subseteq hist.over \ hist.unlearnt BY <2>1
  <2>3. QED BY <1>1, <1>4, <2>1, <2>2, WriteEnds, EndKeeps
<1>5. QED BY <1>2, <1>3, <1>4

LEMMA WriteKeeps ==
    ASSUME StagedIInv, Write
    PROVE  StagedIInv'
  BY RequestKeeps, UploadFailedKeeps, SourceOpenKeeps, SourceReadKeeps, UploadVerifiedKeeps
     DEF Write

(***************************************************************************)
(* Resets                                                                  *)
(***************************************************************************)

\* Between the power cut and the end of the restore nothing is staged or under way.
LEMMA StartsFresh ==
    ASSUME call' \in CallSet, call'.pc \in {"off", "restore"}, call'.for = "none",
           svc' = Fresh, portal' = NoPortal, usb' = NoWrite, files' \in FilesSet,
           left' \in LeftSet, hist' \in HistSet, RecordTrue'
    PROVE  StagedIInv'
<1>1. TypeOK' BY ConstantTypes, TypeByParts
<1>2. call'.pc \notin CommitPcs \union {"none"} BY DEF CommitPcs
<1>3. CallFits' /\ UsbFits'
  BY <1>2, ConstantTypes DEF CallFits, Unrecorded, At, UsbFits, Free
<1>4. UploadInOrder' BY <1>2, ConstantTypes DEF UploadInOrder, CommitPcs
<1>5. QED BY <1>1, <1>2, <1>3, <1>4, ConstantTypes, BusyKeeps DEF StagedIInv

LEMMA PowerCutKeeps ==
    ASSUME StagedIInv, power_cut
    PROVE  StagedIInv'
<1>1. call' \in CallSet /\ call'.pc = "off" /\ call'.for = "none"
  BY DEF power_cut, CallSet
<1>2. files' \in FilesSet /\ files'.meta = files.meta
  BY TypeFacts DEF power_cut, FilesSet
<1>3. left' \in LeftSet BY TypeFacts DEF power_cut
<1>4. /\ hist' \in HistSet /\ hist'.received = hist.received /\ hist'.stuck = hist.stuck
      /\ hist'.over = hist.over
      /\ Unrecorded => hist'.unlearnt = hist.unlearnt \union {Current}
      /\ ~Unrecorded => hist'.unlearnt = hist.unlearnt
  <2>1. CASE Unrecorded
    <3>1. Current \in hist.received BY <2>1 DEF StagedIInv, CallFits
    <3>2. QED BY <2>1, <3>1, TypeFacts DEF power_cut, HistSet
  <2>2. CASE ~Unrecorded BY <2>2, TypeFacts DEF power_cut
  <2>3. QED BY <2>1, <2>2
<1>5. RecordTrue' BY <1>2, <1>4 DEF RecordTrue, StagedIInv
<1>6. QED BY <1>1, <1>2, <1>3, <1>4, <1>5, TypeFacts, StartsFresh DEF power_cut

\* The device is off, or starting.
LEMMA StartFacts ==
    ASSUME StagedIInv, call.pc \in {"off", "restore"}
    PROVE  /\ svc = Fresh /\ portal = NoPortal /\ usb = NoWrite /\ call.for = "none"
           /\ ~Free
  BY DEF StagedIInv, CallFits, Unrecorded, At, CommitPcs, DiscardPcs, Free

LEMMA CardRotsKeeps ==
    ASSUME StagedIInv, card_rots
    PROVE  StagedIInv'
<1>1. /\ call.pc = "off" /\ UNCHANGED <<svc, call, portal, usb, hist>> /\ left' \in LeftSet
  BY TypeFacts, FaultFacts DEF card_rots
<1>2. files' \in FilesSet /\ files'.meta \in {files.meta, Torn}
  BY TypeFacts DEF card_rots, FilesSet
<1>3. TypeOK' BY <1>1, <1>2, TypeFacts, TypeByParts
<1>4. CallFits' /\ UsbFits' BY <1>1 DEF StagedIInv, CallFits, Unrecorded, At, UsbFits, Free
<1>5. UploadInOrder' BY <1>1, StartFacts, ConstantTypes DEF UploadInOrder, CommitPcs
<1>6. RecordTrue' BY <1>1, <1>2 DEF RecordTrue, StagedIInv, Unrecorded, At, Free
<1>7. QED BY <1>1, <1>3, <1>4, <1>5, <1>6, StartFacts, ConstantTypes, BusyKeeps DEF StagedIInv

LEMMA MapUploadStartKeeps ==
    ASSUME StagedIInv, map_upload_start
    PROVE  StagedIInv'
<1>1. /\ call.pc = "off" /\ UNCHANGED <<svc, portal, usb, left, hist>>
  BY DEF map_upload_start
<1>2. files' \in FilesSet /\ files'.meta = files.meta
  BY TypeFacts DEF map_upload_start, FilesSet
<1>3. call' \in CallSet /\ call'.pc = "restore" /\ call'.for = "none"
  BY DEF map_upload_start, CallSet
<1>4. RecordTrue' BY <1>1, <1>2 DEF RecordTrue, StagedIInv, Unrecorded, At, Free
<1>5. QED BY <1>1, <1>2, <1>3, <1>4, TypeFacts, StartFacts, StartsFresh

\* The payload is offered again exactly as its record says, or nothing is.
LEMMA RestoreKeeps ==
    ASSUME StagedIInv, restore_staged
    PROVE  StagedIInv'
<1>1. call.pc = "restore" /\ UNCHANGED <<portal, usb, hist>>
  BY DEF restore_staged, At
<1>2. CASE Unlink("stage") /\ call' = NoCall /\ UNCHANGED svc
  <2>1. files' \in FilesSet /\ files'.meta = files.meta /\ left' \in LeftSet
    BY <1>2, TypeFacts, UnlinkFacts
  <2>2. TypeOK' BY <1>1, <1>2, <2>1, TypeFacts, ConstantTypes, TypeByParts
  <2>3. CallFits' /\ UsbFits'
    BY <1>1, <1>2, StartFacts, ConstantTypes DEF CallFits, Unrecorded, At, UsbFits, Free, CommitPcs
  <2>4. UploadInOrder' BY <1>1, <1>2, StartFacts, ConstantTypes DEF UploadInOrder, CommitPcs
  <2>5. RecordTrue' BY <1>1, <2>1 DEF RecordTrue, StagedIInv, Unrecorded, At, Free
  <2>6. StagedIsAnUpload' /\ OverStaysOver' /\ SourceStable'
    BY <1>1, <1>2, StartFacts, ConstantTypes DEF StagedIsAnUpload, OverStaysOver, SourceStable
  <2>7. QED BY <2>2, <2>3, <2>4, <2>5, <2>6 DEF StagedIInv
<1>3. CASE /\ Decodes /\ Verified /\ call' = NoCall /\ UNCHANGED <<files, left>>
           /\ svc' = [svc EXCEPT !.dest = files.meta.dest, !.sha = files.meta.data,
                                 !.pin = files.meta.pin, !.size = Chunks, !.staged = TRUE]
  <2>1. files.meta \in Records /\ files.meta \in hist.received
        /\ (~hist.stuck => files.meta \notin hist.over \ hist.unlearnt)
    BY <1>1, <1>3, TypeFacts DEF Decodes, Unrecorded, At, FilesSet, RecordTrue, StagedIInv
  <2>2. /\ svc' \in SvcSet /\ svc'.dest = files.meta.dest /\ svc'.sha = files.meta.data
        /\ svc'.pin = files.meta.pin /\ svc'.size = Chunks /\ svc'.staged
        /\ svc'.state = svc.state /\ svc'.source = svc.source
    BY <1>3, <2>1, TypeFacts DEF SvcSet, Records
  <2>3. Current' = files.meta
    <3>1. files.meta = [dest |-> files.meta.dest, data |-> files.meta.data,
                        pin |-> files.meta.pin]
      BY <2>1 DEF Records
    <3>2. QED BY <2>2, <3>1 DEF Current
  <2>4. TypeOK' BY <1>1, <1>3, <2>2, TypeFacts, ConstantTypes, TypeByParts
  <2>5. CallFits' /\ UsbFits'
    BY <1>1, <1>3, <2>2, StartFacts, ConstantTypes DEF CallFits, Unrecorded, At, UsbFits, Free, CommitPcs
  <2>6. UploadInOrder' BY <1>1, <1>3, StartFacts, ConstantTypes DEF UploadInOrder, CommitPcs
  <2>7. RecordTrue' BY <1>1, <1>3 DEF RecordTrue, StagedIInv, Unrecorded, At, Free
  <2>8. StagedIsAnUpload' /\ OverStaysOver' /\ SourceStable'
    BY <1>1, <1>3, <2>1, <2>2, <2>3, StartFacts, ConstantTypes
       DEF StagedIsAnUpload, OverStaysOver, SourceStable, Verified, Whole
  <2>9. QED BY <2>4, <2>5, <2>6, <2>7, <2>8 DEF StagedIInv
<1>4. CASE Goto("discard_meta") /\ UNCHANGED <<svc, files, left>>
  <2>1. call' \in CallSet /\ call'.pc = "discard_meta" /\ call'.for = call.for
    BY <1>4, TypeFacts, GotoFacts DEF DiscardPcs
  <2>2. TypeOK' BY <1>1, <1>4, <2>1, TypeFacts, TypeByParts
  <2>3. CallFits' /\ UsbFits'
    BY <1>1, <1>4, <2>1, StartFacts, ConstantTypes DEF CallFits, Unrecorded, At, UsbFits, Free, CommitPcs
  <2>4. UploadInOrder' BY <1>1, <2>1, StartFacts, ConstantTypes DEF UploadInOrder, CommitPcs
  <2>5. RecordTrue' BY <1>1, <1>4 DEF RecordTrue, StagedIInv, Unrecorded, At, Free
  <2>6. QED BY <1>1, <2>1, <2>2, <2>3, <2>4, <2>5, StartFacts, ConstantTypes, BusyKeeps
            DEF StagedIInv
<1>5. QED BY <1>2, <1>3, <1>4 DEF restore_staged

LEMMA ResetKeeps ==
    ASSUME StagedIInv, Reset
    PROVE  StagedIInv'
  BY PowerCutKeeps, CardRotsKeeps, MapUploadStartKeeps, RestoreKeeps DEF Reset

(***************************************************************************)
(* The theorems                                                            *)
(***************************************************************************)

LEMMA StagedStutters ==
    ASSUME StagedIInv, UNCHANGED vars
    PROVE  StagedIInv'
<1>1. UNCHANGED <<files, svc, call, portal, usb, left, hist>> BY DEF vars
<1>2. Current' = Current BY <1>1 DEF Current
<1>3. TypeOK' BY <1>1, TypeFacts, TypeByParts
<1>4. CallFits' /\ UsbFits' BY <1>1, <1>2 DEF StagedIInv, CallFits, Unrecorded, At, UsbFits, Free
<1>5. UploadInOrder' /\ RecordTrue'
  BY <1>1, <1>2 DEF StagedIInv, UploadInOrder, RecordTrue, Unrecorded, At
<1>6. StagedIsAnUpload' /\ OverStaysOver' /\ SourceStable'
  BY <1>1, <1>2 DEF StagedIInv, StagedIsAnUpload, OverStaysOver, SourceStable, Free
<1>7. QED BY <1>3, <1>4, <1>5, <1>6 DEF StagedIInv

\* The card and the service agree at every file operation of a commit, a discard and a
\* restore, with a failure at any of them and a reset between any two
\* (revlink_map_upload.c under s_lock).
THEOREM StagedInvariance == Spec => []StagedIInv
<1>1. Init => StagedIInv BY StagedInit
<1>2. StagedIInv /\ [Next]_vars => StagedIInv'
  BY CommitKeeps, DiscardKeeps, StageKeeps, WriteKeeps, ResetKeeps, StagedStutters DEF Next
<1>3. QED BY <1>1, <1>2, PTL DEF Spec

\* What is offered for writing is one upload of the owner's, whole and unmixed, and a
\* pinned one is on the card as the next start restores it (stage_commit, restore_staged).
THEOREM StagedAlwaysAnUpload == Spec => []StagedIsAnUpload
<1>1. StagedIInv => StagedIsAnUpload BY DEF StagedIInv
<1>2. QED BY <1>1, StagedInvariance, PTL

\* What was verified, discarded or replaced is not offered again, unless the card kept
\* the metadata it was told to remove, or a verification was never recorded: power went
\* first, or the mutex was taken (observe_upload, discard_staged_locked,
\* remove_staged_files_locked).
THEOREM OverAlwaysOver == Spec => []OverStaysOver
<1>1. StagedIInv => OverStaysOver BY DEF StagedIInv
<1>2. QED BY <1>1, StagedInvariance, PTL

\* The file the USB side streams is the payload it was asked to write, until it closes it
\* (source_open, source_read, and the refusals of stage_begin and discard).
THEOREM SourceAlwaysStable == Spec => []SourceStable
<1>1. StagedIInv => SourceStable BY DEF StagedIInv
<1>2. QED BY <1>1, StagedInvariance, PTL
=============================================================================
