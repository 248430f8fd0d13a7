---------------------- MODULE FirmwareBluetoothProofs ----------------------
(***************************************************************************)
(* Two components that share nothing.  The firmware update: there is       *)
(* always an image to go back to, and "ready" never lies about the image   *)
(* store, for every set of builds and any number of uploads, resets and    *)
(* failures.  The Bluetooth module: what is believed of its power, its     *)
(* configuration and its link, for any number of operations, overlaps,     *)
(* late answers, faults and link changes.                                  *)
(***************************************************************************)
EXTENDS FirmwareUpdate, Bluetooth, FiniteSetTheorems, SequenceTheorems,
        WellFoundedInduction, TLAPS

-----------------------------------------------------------------------------
(* The firmware update.                                                     *)

Good(s) == slot[s].build \in Builds /\ slot[s].state = "valid"

\* What runs is confirmed; or it is on probation, was selected, nothing is
\* uploaded over the image to go back to, and that one is good.  Before the
\* bootloader has chosen, one of the two slots is good, and the selected one
\* has been booted or stored as new at some time.
BootInv ==
    /\ mode # "off" => \/ Good(running)
                       \/ /\ Pending /\ Build \in Builds /\ selected = running
                          /\ Good(Other(running)) /\ upload.pc = "idle"
    /\ \E s \in Slots : Good(s)
    /\ Pending => Good(Other(running))
    /\ slot[selected].state # "undefined"

\* What is received is an image from the second chunk on.
UploadInv ==
    /\ upload.pc = "header" => upload.build \in Builds \cup {Foreign}
    /\ upload.pc \in {"body", "end", "select"} => upload.build \in Builds
    /\ mode \notin {"ready", "up"} => upload.pc = "idle"

\* The images are under work only while the state says so.
StoreInv ==
    /\ copier.pc # "none" => mode \in {"ready", "up"} /\ Build \in Versions
    /\ copier.pc \in Writing => token = "writing"
    /\ token = "ready" => StoreIsValid

IInv == TypeOK /\ BootInv /\ UploadInv /\ StoreInv

LEMMA InitHolds == Init => IInv
<1> SUFFICES ASSUME Init PROVE IInv
  OBVIOUS
<1> USE FirmwareUpdateAssumption DEF Init
<1>1. TypeOK
  <2>1. slot \in [Slots -> [build : Builds \cup {None},
                           state : {"undefined", "new", "pending", "valid",
                                    "invalid", "aborted"}]]
    BY DEF Builds
  <2>2. image \in [Blobs -> Versions \cup {None}] /\ copier \in [pc : CopierPCs, at : Blobs]
    BY DEF NoCopy, CopierPCs, Blobs
  <2>3. probation \in [timer : BOOLEAN, over : BOOLEAN, health : BOOLEAN, heapLow : BOOLEAN]
    BY DEF Fresh
  <2>4. upload \in [pc : {"idle", "header", "body", "end", "select"},
                   build : Builds \cup {Foreign, None}]
    BY DEF NoUpload
  <2>5. uploads \in 0..MaxUploads /\ resets \in 0..MaxResets /\ failures \in 0..MaxFailures
    OBVIOUS
  <2> QED
    BY <2>1, <2>2, <2>3, <2>4, <2>5 DEF TypeOK, Slots
<1>2. BootInv
  <2>1. Good(0) /\ 0 \in Slots /\ ~Pending /\ slot[selected].state # "undefined" /\ mode = "off"
    BY DEF Good, Slots, Builds, Pending
  <2> QED
    BY <2>1 DEF BootInv
<1>3. UploadInv /\ StoreInv
  BY DEF UploadInv, StoreInv, NoUpload, NoCopy, Writing
<1> QED
  BY <1>1, <1>2, <1>3 DEF IInv

LEMMA BlobsCount == Cardinality(Blobs) = 3
<1>1. 1 \in Int /\ 3 \in Int /\ ~(1 > 3) /\ 3 - 1 + 1 = 3
  OBVIOUS
<1>2. Cardinality(1..3) = IF 1 > 3 THEN 0 ELSE 3 - 1 + 1
  BY <1>1, FS_Interval
<1> QED
  BY <1>1, <1>2 DEF Blobs

LEMMA FailCounts ==
    ASSUME TypeOK, Fail \/ UNCHANGED failures
    PROVE  failures' \in 0..MaxFailures
BY FirmwareUpdateAssumption DEF TypeOK, Fail

\* The slots of the two.
LEMMA OtherSlot == \A s \in Slots : /\ Other(s) \in Slots /\ Other(s) # s /\ Other(Other(s)) = s
                                    /\ \A r \in Slots : r = s \/ r = Other(s)
BY DEF Slots, Other

-----------------------------------------------------------------------------
\* Steps that leave slots, selection, mode and upload alone.
LEMMA CopierKeeps ==
    ASSUME IInv, FillStep \/ CopyFails
    PROVE  IInv'
<1>1. UNCHANGED <<slot, selected, running, mode, active, upload, rebooting, probation, uploads, resets>>
  BY DEF FillStep, CopyFails, StoreOpen, MarkWriting, EraseHeader, EraseImage, CopyImage,
         WriteHeader, Verify, slotVars, otaVars, bootVars
<1>2. BootInv' /\ UploadInv'
  BY <1>1 DEF IInv, BootInv, UploadInv, Good, Pending, Build, Other
<1>3. TypeOK'
  <2>1. failures' \in 0..MaxFailures
    <3>1. Fail \/ UNCHANGED failures
      BY DEF FillStep, CopyFails, StoreOpen, MarkWriting, EraseHeader, EraseImage, CopyImage,
             WriteHeader, Verify
    <3> QED
      BY <3>1, FailCounts DEF IInv
  <2>2. copier \in [pc : CopierPCs, at : 1..3] /\ (copier.pc # "none" => Build \in Versions)
    BY DEF IInv, TypeOK, StoreInv, Blobs
  <2>3. copier' \in [pc : CopierPCs, at : Blobs]
    <3>1. \/ \E pc \in CopierPCs : copier' = [copier EXCEPT !.pc = pc]
          \/ copier.at < 3 /\ copier' = [copier EXCEPT !.at = copier.at + 1]
          \/ \E pc \in CopierPCs : copier' = [pc |-> pc, at |-> 1]
      BY BlobsCount DEF FillStep, CopyFails, StoreOpen, MarkWriting, EraseHeader, EraseImage,
          CopyImage, WriteHeader, Verify, NoCopy, CopierPCs
    <3>2. 1 \in 1..3 /\ (copier.at < 3 => copier.at + 1 \in 1..3)
      BY <2>2
    <3> QED
      BY <2>2, <3>1, <3>2 DEF Blobs
  <2>4. header' \in Versions \cup {None} /\ image' \in [Blobs -> Versions \cup {None}]
    <3>1. /\ header' \in {header, None, Build}
          /\ image' = image \/ \E b, v : image' = [image EXCEPT ![b] = v] /\ v \in {None, Build}
      BY DEF FillStep, CopyFails, StoreOpen, MarkWriting, EraseHeader, EraseImage, CopyImage,
             WriteHeader, Verify, flashVars
    <3>2. Build \in Versions
      BY <2>2 DEF FillStep, CopyFails, StoreOpen, MarkWriting, EraseHeader, EraseImage, CopyImage,
             WriteHeader, Verify, Copier
    <3> QED
      BY <3>1, <3>2 DEF IInv, TypeOK
  <2>5. token' \in {"unknown", "missing", "writing", "ready"} /\ cutOff' \in BOOLEAN
    <3>1. token' \in {token, "missing", "writing", "ready"}
      BY DEF FillStep, CopyFails, StoreOpen, MarkWriting, EraseHeader, EraseImage, CopyImage,
             WriteHeader, Verify
    <3>2. cutOff' = cutOff \/ cutOff' = (cutOff /\ ~StoreIsValid)
      BY DEF FillStep, CopyFails, StoreOpen, MarkWriting, EraseHeader, EraseImage, CopyImage,
             WriteHeader, Verify
    <3>3. cutOff' \in BOOLEAN
      BY <3>2 DEF IInv, TypeOK
    <3> QED
      BY <3>1, <3>3 DEF IInv, TypeOK
  <2> QED
    BY <1>1, <2>1, <2>3, <2>4, <2>5 DEF IInv, TypeOK
<1>4. StoreInv'
  <2>1. copier.pc # "none"
    BY DEF FillStep, CopyFails, StoreOpen, MarkWriting, EraseHeader, EraseImage, CopyImage,
           WriteHeader, Verify, Copier
  <2>2. mode' \in {"ready", "up"} /\ Build' \in Versions
    BY <1>1, <2>1 DEF IInv, StoreInv, Build
  <2>3. copier \in [pc : CopierPCs, at : Blobs]
    BY DEF IInv, TypeOK
  <2>4. copier'.pc \in Writing => token' = "writing"
    BY <2>3 DEF IInv, StoreInv, FillStep, CopyFails, StoreOpen, MarkWriting, EraseHeader, EraseImage,
        CopyImage, WriteHeader, Verify, Copier, Writing, NoCopy
  <2>5. token' = "ready" => StoreIsValid'
    BY DEF IInv, StoreInv, FillStep, CopyFails, StoreOpen, MarkWriting, EraseHeader, EraseImage,
        CopyImage, WriteHeader, Verify, Copier, Writing, flashVars, StoreIsValid, StoreHolds
  <2> QED
    BY <2>2, <2>4, <2>5 DEF StoreInv
<1> QED
  BY <1>2, <1>3, <1>4 DEF IInv

-----------------------------------------------------------------------------
SlotTypes == [Slots -> [build : Builds \cup {None},
                        state : {"undefined", "new", "pending", "valid", "invalid", "aborted"}]]

\* Probation: the running slot is confirmed or nothing happens to it.
LEMMA ConfirmedKeeps ==
    ASSUME IInv, slot' \in {slot, Confirmed}, UNCHANGED <<selected, running, upload>>,
           mode # "off", mode' # "off"
    PROVE  BootInv' /\ slot' \in SlotTypes /\ Build' = Build
<1>1. slot \in SlotTypes /\ running \in Slots /\ selected \in Slots
  BY DEF IInv, TypeOK, SlotTypes
<1>2. CASE slot' = slot
  BY <1>1, <1>2 DEF IInv, BootInv, Good, Pending, Build, Other
<1>3. CASE slot' = Confirmed
  <2>1. /\ slot' \in SlotTypes
        /\ \A s \in Slots : slot'[s].build = slot[s].build
        /\ \A s \in Slots \ {running} : slot'[s] = slot[s]
        /\ slot'[running].state = IF Pending THEN "valid" ELSE slot[running].state
    BY <1>1, <1>3 DEF Confirmed, SlotTypes, Pending
  <2>2. slot'[running].build \in Builds /\ slot'[running].state = "valid"
    BY <1>1, <2>1 DEF IInv, BootInv, Good, Build
  <2>3. slot'[selected].state # "undefined"
    BY <1>1, <2>1, <2>2 DEF IInv, BootInv
  <2>4. Good(running)' /\ ~Pending' /\ running' = running /\ selected' = selected
    BY <2>2 DEF Good, Pending
  <2>5. BootInv'
    BY <1>1, <2>3, <2>4 DEF BootInv
  <2> QED
    BY <1>1, <2>1, <2>5 DEF Build
<1> QED
  BY <1>2, <1>3 DEF IInv

LEMMA ProbationKeeps ==
    ASSUME IInv, \/ StartProbation \/ ProbationOver \/ HeapDips \/ ReadHealth
                 \/ ProbationCheck
    PROVE  IInv'
<1>1. /\ slot' \in {slot, Confirmed} /\ mode \in {"ready", "up"} /\ mode' \in {"ready", "up"}
      /\ UNCHANGED <<selected, running, header, image, copier, token, cutOff, active, upload,
                     rebooting, uploads, resets>>
  BY DEF StartProbation, ProbationOver, HeapDips, ReadHealth, ProbationCheck, Serving, Upload,
         slotVars, flashVars, storeVars, otaVars, bootVars
<1>2. BootInv' /\ slot' \in SlotTypes /\ Build' = Build
  BY <1>1, ConfirmedKeeps
<1>3. TypeOK'
  <2>1. failures' \in 0..MaxFailures
    <3>1. Fail \/ UNCHANGED failures
      BY DEF StartProbation, ProbationOver, HeapDips, ReadHealth, ProbationCheck
    <3> QED
      BY <3>1, FailCounts DEF IInv
  <2>2. probation' \in [timer : BOOLEAN, over : BOOLEAN, health : BOOLEAN, heapLow : BOOLEAN]
    BY DEF IInv, TypeOK, StartProbation, ProbationOver, HeapDips, ReadHealth, ProbationCheck
  <2> QED
    BY <1>1, <1>2, <2>1, <2>2 DEF IInv, TypeOK, SlotTypes
<1>4. UploadInv' /\ StoreInv'
  BY <1>1, <1>2 DEF IInv, UploadInv, StoreInv, StoreIsValid, StoreHolds
<1> QED
  BY <1>2, <1>3, <1>4 DEF IInv

-----------------------------------------------------------------------------
\* A step of the upload touches the other slot only, and only while what runs
\* is confirmed.
LEMMA UploadKeeps ==
    ASSUME IInv, BeginStream \/ Handler
    PROVE  IInv'
<1>1. /\ mode \in {"ready", "up"} /\ UNCHANGED <<running, header, image, copier, token, cutOff,
                                               probation, mode, resets>>
  BY DEF BeginStream, Handler, WriteFirstChunk, WriteBody, AbortUpload, EndUpload, SelectSlot,
         Upload, Serving, slotVars, flashVars, storeVars, bootVars
<1>2. slot \in SlotTypes /\ running \in Slots /\ selected \in Slots /\ Other(running) \in Slots
      /\ Other(running) # running
  BY OtherSlot DEF IInv, TypeOK, SlotTypes
<1>3. Good(running)
  <2>1. ~Pending \/ upload.pc # "idle"
    BY DEF BeginStream, Handler, WriteFirstChunk, WriteBody, AbortUpload, EndUpload, SelectSlot,
           Upload
  <2> QED
    BY <1>1, <2>1 DEF IInv, BootInv
<1>4. \/ slot' = slot
      \/ slot' = [slot EXCEPT ![Other(running)].build = None]
      \/ slot' = [slot EXCEPT ![Other(running)].build = upload.build] /\ upload.build \in Builds
      \/ slot' = [slot EXCEPT ![Other(running)].state = "new"]
  BY DEF IInv, UploadInv, BeginStream, Handler, WriteFirstChunk, WriteBody, AbortUpload, EndUpload,
         SelectSlot, Upload, slotVars
<1>5. slot' \in SlotTypes /\ slot'[running] = slot[running]
  BY <1>2, <1>4 DEF SlotTypes
<1>6. /\ \/ selected' = selected
         \/ selected' = Other(running) /\ slot'[selected'].state = "new"
      /\ \A s \in Slots : slot'[s].state \in {slot[s].state, "new"}
  <2>1. \A s \in Slots : slot'[s].state \in {slot[s].state, "new"}
    BY <1>2, <1>4 DEF SlotTypes
  <2>2. \/ selected' = selected
        \/ selected' = Other(running) /\ slot' = [slot EXCEPT ![Other(running)].state = "new"]
    BY DEF BeginStream, Handler, WriteFirstChunk, WriteBody, AbortUpload, EndUpload, SelectSlot,
           slotVars
  <2> QED
    BY <1>2, <2>1, <2>2 DEF SlotTypes
<1>7. BootInv'
  <2>1. Good(running)' /\ ~Pending' /\ running' \in Slots
    BY <1>1, <1>2, <1>3, <1>5 DEF Good, Pending
  <2>2. slot'[selected'].state # "undefined"
    BY <1>2, <1>6 DEF IInv, BootInv
  <2> QED
    BY <2>1, <2>2 DEF BootInv
<1>8. TypeOK'
  <2>1. failures' \in 0..MaxFailures
    <3>1. Fail \/ UNCHANGED failures
      BY DEF BeginStream, Handler, WriteFirstChunk, WriteBody, AbortUpload, EndUpload, SelectSlot
    <3> QED
      BY <3>1, FailCounts DEF IInv
  <2>2. upload' \in [pc : {"idle", "header", "body", "end", "select"},
                    build : Builds \cup {Foreign, None}]
    BY DEF IInv, TypeOK, BeginStream, Handler, WriteFirstChunk, WriteBody, AbortUpload, EndUpload,
        SelectSlot, Abandon, NoUpload
  <2>3. active' \in BOOLEAN /\ rebooting' \in BOOLEAN
    BY DEF IInv, TypeOK, BeginStream, Handler, WriteFirstChunk, WriteBody, AbortUpload, EndUpload,
        SelectSlot, Abandon
  <2>4. uploads' \in 0..MaxUploads
    <3>1. uploads \in 0..MaxUploads /\ MaxUploads \in Nat
      BY FirmwareUpdateAssumption DEF IInv, TypeOK
    <3>2. uploads' = uploads \/ (uploads < MaxUploads /\ uploads' = uploads + 1)
      BY DEF BeginStream, Handler, WriteFirstChunk, WriteBody, AbortUpload, EndUpload, SelectSlot
    <3> QED
      BY <3>1, <3>2
  <2>5. selected' \in Slots
    BY <1>2, <1>6
  <2> QED
    BY <1>1, <1>5, <2>1, <2>2, <2>3, <2>4, <2>5 DEF IInv, TypeOK, SlotTypes
<1>9. UploadInv'
  <2>1. upload \in [pc : {"idle", "header", "body", "end", "select"},
                   build : Builds \cup {Foreign, None}]
    BY DEF IInv, TypeOK
  <2>2. CASE upload' = NoUpload \/ BeginStream
    BY <1>1, <2>2 DEF UploadInv, BeginStream, NoUpload
  <2>3. CASE WriteFirstChunk /\ upload' # NoUpload
    <3>1. /\ upload.pc = "header" /\ upload.build # Foreign
          /\ upload' = [upload EXCEPT !.pc = "body"]
      BY <2>3 DEF WriteFirstChunk, Upload, Abandon
    <3>2. upload.build \in Builds
      BY <3>1 DEF IInv, UploadInv
    <3>3. upload'.pc = "body" /\ upload'.build = upload.build
      BY <2>1, <3>1
    <3> QED
      BY <1>1, <3>2, <3>3 DEF UploadInv
  <2>4. CASE WriteBody \/ (EndUpload /\ upload' = [upload EXCEPT !.pc = "select"])
    BY <1>1, <2>1, <2>4 DEF IInv, WriteBody, EndUpload, UploadInv, Upload
  <2> QED
    BY <2>2, <2>3, <2>4 DEF Handler, WriteFirstChunk, AbortUpload, EndUpload, SelectSlot, Abandon
<1>10. StoreInv'
  BY <1>1, <1>5 DEF IInv, StoreInv, StoreIsValid, StoreHolds, Build
<1> QED
  BY <1>7, <1>8, <1>9, <1>10 DEF IInv

-----------------------------------------------------------------------------
\* A reset forgets what is in RAM, and all that the invariant knows of it.
LEMMA RestartKeeps ==
    ASSUME IInv, Restart, slot' \in SlotTypes, UNCHANGED <<selected, running, flashVars, uploads>>,
           \E s \in Slots : Good(s)', Pending' => Good(Other(running))',
           slot'[selected].state # "undefined",
           resets' \in 0..MaxResets, failures' \in 0..MaxFailures
    PROVE  IInv'
<1>1. /\ mode' = "off" /\ copier' = NoCopy /\ token' = "unknown" /\ cutOff' \in BOOLEAN
      /\ active' = FALSE /\ upload' = NoUpload /\ rebooting' = FALSE /\ probation' = Fresh
  <2>1. cutOff' = (cutOff \/ copier.pc \in Writing)
    BY DEF Restart
  <2>2. cutOff' \in BOOLEAN
    BY <2>1 DEF IInv, TypeOK
  <2> QED
    BY <2>2 DEF Restart
<1>2. /\ NoCopy \in [pc : CopierPCs, at : Blobs] /\ NoCopy.pc = "none"
      /\ NoUpload.pc = "idle" /\ NoUpload \in [pc : {"idle", "header", "body", "end", "select"},
                                              build : Builds \cup {Foreign, None}]
      /\ Fresh \in [timer : BOOLEAN, over : BOOLEAN, health : BOOLEAN, heapLow : BOOLEAN]
  BY DEF NoCopy, CopierPCs, Blobs, NoUpload, Fresh
<1>3. TypeOK'
  BY <1>1, <1>2 DEF IInv, TypeOK, SlotTypes, flashVars
<1>4. BootInv'
  BY <1>1 DEF BootInv
<1>5. UploadInv' /\ StoreInv'
  BY <1>1, <1>2 DEF UploadInv, StoreInv, Writing
<1> QED
  BY <1>3, <1>4, <1>5 DEF IInv

LEMMA ResetKeeps ==
    ASSUME IInv, Reset \/ RebootTask
    PROVE  IInv'
<1>1. Restart /\ UNCHANGED <<slot, selected, running, flashVars, uploads, failures>>
  BY DEF Reset, RebootTask, slotVars
<1>2. resets' \in 0..MaxResets /\ failures' \in 0..MaxFailures
  <2>1. /\ resets \in 0..MaxResets /\ MaxResets \in Nat /\ failures \in 0..MaxFailures
    BY FirmwareUpdateAssumption DEF IInv, TypeOK
  <2>2. resets' = resets \/ (resets < MaxResets /\ resets' = resets + 1)
    BY DEF Reset, RebootTask
  <2> QED
    BY <1>1, <2>1, <2>2
<1>3. /\ slot' \in SlotTypes /\ (\E s \in Slots : Good(s)') /\ (Pending' => Good(Other(running))')
      /\ slot'[selected].state # "undefined"
  BY <1>1 DEF IInv, TypeOK, SlotTypes, BootInv, Good, Pending
<1> QED
  BY <1>1, <1>2, <1>3, RestartKeeps

\* The bootloader runs a good image, or a new one with a good one behind it.
LEMMA BootloaderKeeps ==
    ASSUME IInv, Bootloader
    PROVE  IInv'
<1> DEFINE a == [s \in Slots |-> IF slot[s].state = "pending"
                                THEN [slot[s] EXCEPT !.state = "aborted"] ELSE slot[s]]
           c == IF a[selected].state \in {"invalid", "aborted"} THEN Other(selected) ELSE selected
<1>1. /\ slot' = [a EXCEPT ![c].state = IF a[c].state = "new" THEN "pending" ELSE a[c].state]
      /\ selected' = c /\ running' = IF slot[c].build # None THEN c ELSE Other(c)
      /\ mode = "off" /\ mode' = "loaded"
      /\ UNCHANGED <<header, image, copier, token, cutOff, active, upload, rebooting, uploads,
                     probation, resets, failures>>
  BY DEF Bootloader, flashVars, storeVars, otaVars
<1>2. slot \in SlotTypes /\ selected \in Slots /\ Other(selected) \in Slots
  BY OtherSlot DEF IInv, TypeOK, SlotTypes
<1>3. c \in {selected, Other(selected)} /\ c \in Slots /\ Other(c) \in Slots /\ Other(c) # c
  BY <1>2, OtherSlot
<1>4. a \in SlotTypes /\ \A s \in Slots : /\ a[s].build = slot[s].build
                                        /\ a[s].state = IF slot[s].state = "pending" THEN "aborted"
                                                        ELSE slot[s].state
  BY <1>2 DEF SlotTypes
<1>5. c = IF slot[selected].state \in {"pending", "invalid", "aborted"} THEN Other(selected)
          ELSE selected
  BY <1>2, <1>4 DEF IInv, TypeOK
<1> HIDE DEF a, c
<1>6. /\ slot' \in SlotTypes
      /\ \A s \in Slots : /\ slot'[s].build = slot[s].build
                          /\ slot'[s].state = IF slot[s].state = "pending" THEN "aborted"
                                              ELSE IF s = c /\ slot[s].state = "new" THEN "pending"
                                              ELSE slot[s].state
  <2>1. /\ slot' \in SlotTypes /\ \A s \in Slots : slot'[s].build = a[s].build
        /\ \A s \in Slots : slot'[s].state = IF s = c /\ a[s].state = "new" THEN "pending"
                                             ELSE a[s].state
    BY <1>1, <1>3, <1>4 DEF SlotTypes
  <2> QED
    BY <1>4, <2>1
<1>7. \A s \in Slots : Good(s) => Good(s)'
  BY <1>6 DEF Good
<1>8. \E s \in Slots : Good(s)'
  BY <1>7 DEF IInv, BootInv
<1>9. upload'.pc = "idle"
  BY <1>1 DEF IInv, UploadInv
<1>10. BootInv'
  <2>1. CASE Good(c)
    <3>1. /\ running' = c /\ selected' = c
          /\ slot'[c].build \in Builds /\ slot'[c].state = "valid"
      BY <1>1, <1>3, <1>7, <2>1, FirmwareUpdateAssumption DEF Good
    <3>2. Good(running)' /\ ~Pending' /\ slot'[selected'].state # "undefined"
      BY <3>1 DEF Good, Pending
    <3> QED
      BY <1>8, <3>2 DEF BootInv
  <2>2. CASE ~Good(c)
    <3>1. Good(Other(c)) /\ \A s \in Slots : s = c \/ s = Other(c)
      BY <1>3, <2>2, OtherSlot DEF IInv, BootInv
    <3>2. c = selected
      BY <1>2, <1>3, <1>5, <2>2, <3>1, OtherSlot DEF Good
    <3>3. slot[c].state \in {"new", "valid"}
      BY <1>2, <1>3, <1>5, <3>2, OtherSlot DEF IInv, BootInv, SlotTypes
    <3>4. slot'[c].state \in {"pending", "valid"} /\ (slot[c].state = "new" => slot'[c].state = "pending")
      BY <1>3, <1>6, <3>3
    <3>5. CASE slot[c].build = None
      <4>1. running' = Other(c) /\ selected' = c
        BY <1>1, <3>5
      <4>2. Good(running)' /\ ~Pending' /\ slot'[selected'].state # "undefined"
        BY <1>3, <1>7, <3>1, <3>4, <4>1 DEF Good, Pending
      <4> QED
        BY <1>8, <4>2 DEF BootInv
    <3>6. CASE slot[c].build # None
      <4>1. running' = c /\ selected' = c /\ slot[c].build \in Builds
        BY <1>1, <1>2, <1>3, <3>6 DEF SlotTypes
      <4>2. slot'[c].state = "pending"
        BY <2>2, <3>3, <3>4, <4>1 DEF Good
      <4>3. Pending' /\ Build' \in Builds /\ selected' = running' /\ Good(Other(running))'
            /\ slot'[selected'].state # "undefined"
        <5>1. slot'[Other(c)].build \in Builds /\ slot'[Other(c)].state = "valid"
          BY <1>3, <1>7, <3>1 DEF Good
        <5>2. Good(Other(running))'
          BY <4>1, <5>1 DEF Other, Good
        <5>3. slot'[c].build \in Builds
          BY <1>3, <1>6, <4>1
        <5> QED
          BY <4>1, <4>2, <5>2, <5>3 DEF Pending, Build
      <4> QED
        BY <1>8, <1>9, <4>3 DEF BootInv
    <3> QED
      BY <3>5, <3>6
  <2> QED
    BY <2>1, <2>2
<1>11. TypeOK'
  BY <1>1, <1>3, <1>6 DEF IInv, TypeOK, SlotTypes
<1>12. UploadInv' /\ StoreInv'
  BY <1>1 DEF IInv, UploadInv, StoreInv, StoreIsValid, StoreHolds, Writing
<1> QED
  BY <1>10, <1>11, <1>12 DEF IInv

\* The rest of a boot.
LEMMA BootKeeps ==
    ASSUME IInv, Boot
    PROVE  IInv'
<1>1. CASE BootFull \/ BootBare \/ BootHalts \/ BootFails
  <2>1. /\ mode = "loaded" /\ mode' \in {"ready", "halted"}
        /\ UNCHANGED <<slot, selected, running, header, image, cutOff, active, upload, rebooting,
                       uploads, probation, resets>>
    BY <1>1 DEF BootFull, BootBare, BootHalts, BootFails, slotVars, flashVars, otaVars
  <2>2. BootInv'
    BY <2>1 DEF IInv, BootInv, Good, Pending, Build, Other
  <2>3. copier.pc = "none" /\ upload.pc = "idle"
    BY <2>1 DEF IInv, StoreInv, UploadInv
  <2>4. \/ copier' = copier
        \/ copier' = [NoCopy EXCEPT !.pc = "open"] /\ mode' = "ready" /\ Build \in Versions
    BY <1>1 DEF BootFull, BootBare, BootHalts, BootFails
  <2>5. token' \in {token, "missing"} \/ (token' = "ready" /\ StoreIsValid)
    BY <1>1 DEF BootFull, BootBare, BootHalts, BootFails
  <2>6. failures' \in 0..MaxFailures
    <3>1. Fail \/ UNCHANGED failures
      BY <1>1 DEF BootFull, BootBare, BootHalts, BootFails
    <3> QED
      BY <3>1, FailCounts DEF IInv
  <2>7. copier' \in [pc : CopierPCs, at : Blobs] /\ copier'.pc \in {"none", "open"}
        /\ (copier'.pc # "none" => mode' = "ready" /\ Build \in Versions)
    BY <2>3, <2>4 DEF IInv, TypeOK, NoCopy, CopierPCs, Blobs
  <2>8. TypeOK'
    BY <2>1, <2>5, <2>6, <2>7 DEF IInv, TypeOK
  <2>9. UploadInv' /\ StoreInv'
    BY <2>1, <2>3, <2>5, <2>7
    DEF IInv, UploadInv, StoreInv, StoreIsValid, StoreHolds, Build, Writing
  <2> QED
    BY <2>2, <2>8, <2>9 DEF IInv
<1>2. CASE RollBackIfUnconfirmed
  <2>1. /\ Good(Other(running)) /\ selected = running /\ running \in Slots /\ slot \in SlotTypes
        /\ Other(running) \in Slots /\ Other(running) # running
        /\ UNCHANGED <<selected, running, header, image, uploads, resets>>
    BY <1>2, OtherSlot
    DEF IInv, TypeOK, SlotTypes, BootInv, RollBackIfUnconfirmed, Good, Pending, flashVars
  <2>2. failures' \in 0..MaxFailures
    <3>1. Fail \/ UNCHANGED failures
      BY <1>2 DEF RollBackIfUnconfirmed
    <3> QED
      BY <3>1, FailCounts DEF IInv
  <2>3. CASE slot' = [slot EXCEPT ![running].state = "invalid"] /\ Restart
    <3>1. slot' \in SlotTypes /\ slot'[running].state = "invalid"
          /\ slot'[Other(running)] = slot[Other(running)]
      BY <2>1, <2>3 DEF SlotTypes
    <3>2. Good(Other(running))' /\ ~Pending' /\ slot'[selected].state # "undefined"
      BY <2>1, <3>1 DEF Good, Pending, Other
    <3>3. (\E s \in Slots : Good(s)')
      BY <2>1, <3>1 DEF Good
    <3>4. resets' \in 0..MaxResets /\ UNCHANGED flashVars
      BY <2>1 DEF IInv, TypeOK, flashVars
    <3> QED
      BY <2>1, <2>2, <2>3, <3>1, <3>2, <3>3, <3>4, RestartKeeps
  <2>4. CASE /\ mode' = "halted" /\ token' = "missing"
             /\ UNCHANGED <<slot, copier, cutOff, active, upload, rebooting, probation>>
    <3>1. mode = "loaded"
      BY <1>2 DEF RollBackIfUnconfirmed
    <3>2. BootInv'
      BY <2>1, <2>4, <3>1 DEF IInv, BootInv, Good, Pending, Build, Other
    <3>3. TypeOK'
      BY <2>1, <2>2, <2>4 DEF IInv, TypeOK
    <3>4. UploadInv' /\ StoreInv'
      BY <2>1, <2>4, <3>1 DEF IInv, UploadInv, StoreInv, Writing
    <3> QED
      BY <3>2, <3>3, <3>4 DEF IInv
  <2> QED
    BY <1>2, <2>3, <2>4 DEF RollBackIfUnconfirmed
<1> QED
  BY <1>1, <1>2, BootloaderKeeps DEF Boot

(* No boot, upload, copy, probation or reset, in any order, breaks the     *)
(* invariant.                                                              *)
THEOREM Inductive == Spec => []IInv
<1>1. IInv /\ [Next]_vars => IInv'
  <2> SUFFICES ASSUME IInv, [Next]_vars PROVE IInv'
    OBVIOUS
  <2>1. CASE UNCHANGED vars
    <3>1. UNCHANGED <<slot, selected, running, mode, header, image, copier, token, active, upload,
                      rebooting, probation, uploads, resets, failures, cutOff>>
      BY <2>1 DEF vars
    <3> QED
      BY <3>1 DEF IInv, TypeOK, BootInv, UploadInv, StoreInv, Good, Pending, Build, Other,
                  StoreIsValid, StoreHolds
  <2>2. CASE Next
    BY <2>2, ResetKeeps, BootKeeps, CopierKeeps, UploadKeeps, ProbationKeeps DEF Next
  <2> QED
    BY <2>1, <2>2
<1> QED
  BY <1>1, InitHolds, PTL DEF Spec

(* Every variable keeps its type, the counters of the copy and of the      *)
(* faults their bounds.                                                    *)
THEOREM TypeCorrect == Spec => []TypeOK
<1>1. IInv => TypeOK
  BY DEF IInv
<1> QED
  BY <1>1, Inductive, PTL

(* There is always a whole, confirmed image to go back to: an upload never *)
(* takes the last one, whatever resets come while one is on probation.     *)
THEOREM RollbackTargetWholeHolds == Spec => []RollbackTargetWhole
<1>1. IInv => RollbackTargetWhole
  BY DEF IInv, BootInv, RollbackTargetWhole, Good
<1> QED
  BY <1>1, Inductive, PTL

(* The image store is called ready only while it is whole, at any moment   *)
(* of a copy.                                                              *)
THEOREM ReadyIsSoundHolds == Spec => []ReadyIsSound
<1>1. IInv => ReadyIsSound
  BY DEF IInv, StoreInv, ReadyIsSound
<1> QED
  BY <1>1, Inductive, PTL

-----------------------------------------------------------------------------
(* Steps, scripts and plans.                                                *)

Kinds == {"need", "try", "must", "raw", "enter", "do", "isLinked", "auto", "linked",
          "playing", "streaming", "busy", "awake"}
Commands ==
    {"ping", "i2sMode", "i2sRole", "codec", "linkcfg", "name", "auto3", "auto0", "pair0",
     "pair1", "scan0", "print", "plist0", "plistQ", "disc", "dsca", "inquiry", "conn",
     "audio", "enc", "nameQ", "autoQ", "stat"}
Deeds ==
    {"pinsLow", "pinsHigh", "flush", "booted", "unbooted", "probe", "enter", "paired",
     "unpaired", "up", "save"}
Steps == [kind : Kinds \ {"do"}, cmd : Commands] \cup [kind : {"do"}, cmd : Deeds]

\* Steps that leave the power of the module alone, and the last of a boot.
Mild  == Steps \ {Do("pinsLow"), Do("pinsHigh"), Do("booted"), Do("unbooted")}
Tries == {Try("name"), Try("auto3")}

\* Scripts with something to do.
Scripts(S) == Seq(S) \ {<<>>}

\* Plans of an operation that leaves the power alone.  The retry task tries again
\* whatever it is at, so that it is told what it can be at.
Calm(t, p) ==
    /\ p \in Seq(Scripts(Mild))
    /\ t = "retry" /\ p # <<>> =>
          \/ p = <<<<Do("probe")>>>>
          \/ Head(p) \in Scripts(Tries) /\ Tail(p) \in {<<>>, <<<<Do("probe")>>>>}

\* A script amid a boot, whose step n comes next.
BootingAt(s, n) ==
    /\ s \in Seq(Steps) /\ n \in 1..9 /\ Len(s) >= 10 - n
    /\ \A i \in 1..Len(s) : IF i <= 10 - n THEN s[i] = BootScript[n + i - 1] ELSE s[i] \in Tries

Booting(p, n) == p # <<>> /\ BootingAt(Head(p), n) /\ Tail(p) = <<<<Do("probe")>>>>

Cutting(p) == p \in {ShutdownPlan, <<<<Do("unbooted")>>>>}

Shaped(t, p) == Calm(t, p) \/ (\E n \in 1..9 : Booting(p, n)) \/ Cutting(p)

LEMMA MildSteps == Mild \subseteq Steps
BY DEF Mild

LEMMA TriesMild == Tries \subseteq Mild
BY DEF Tries, Mild, Steps, Kinds, Commands, Try, Do, Step

LEMMA ProbeMild == Do("probe") \in Mild
BY DEF Mild, Steps, Deeds, Do, Step

\* The step at the head of a script and what is behind it.
LEMMA Rests ==
    ASSUME NEW S, NEW s \in Scripts(S)
    PROVE  /\ Head(s) \in S /\ Tail(s) \in Seq(S) /\ Head(s) = s[1]
           /\ Len(s) \in Nat \ {0} /\ Len(Tail(s)) = Len(s) - 1
           /\ \A i \in 1..Len(s) - 1 : Tail(s)[i] = s[i + 1]
BY DEF Scripts

LEMMA Prepended ==
    ASSUME NEW S, NEW b \in Seq(S), NEW s \in Scripts(S)
    PROVE  b \o s \in Scripts(S)
<1>1. b \o s \in Seq(S) /\ Len(b \o s) = Len(b) + Len(s)
  BY DEF Scripts
<1>2. Len(s) # 0
  BY DEF Scripts
<1> QED
  BY <1>1, <1>2 DEF Scripts

\* What is left of a boot after its step n.
LEMMA BootStepping ==
    ASSUME NEW s, NEW n, BootingAt(s, n)
    PROVE  /\ s \in Scripts(Steps) /\ Head(s) = BootScript[n]
           /\ n < 9 => BootingAt(Tail(s), n + 1)
           /\ n = 9 => Tail(s) \in Seq(Tries)
<1>1. s \in Seq(Steps) /\ n \in 1..9 /\ Len(s) >= 10 - n /\ Len(s) \in Nat
  BY DEF BootingAt
<1>2. s # <<>>
  BY <1>1
<1>3. s[1] = BootScript[n]
  BY <1>1 DEF BootingAt
<1>4. /\ Tail(s) \in Seq(Steps) /\ Len(Tail(s)) = Len(s) - 1
      /\ \A i \in 1..Len(s) - 1 : Tail(s)[i] = s[i + 1]
  BY <1>1, <1>2
<1>5. CASE n < 9
  <2>1. ASSUME NEW i \in 1..Len(Tail(s))
        PROVE  IF i <= 10 - (n + 1) THEN Tail(s)[i] = BootScript[(n + 1) + i - 1]
               ELSE Tail(s)[i] \in Tries
    <3>1. i + 1 \in 1..Len(s) /\ Tail(s)[i] = s[i + 1]
      BY <1>1, <1>4, <2>1
    <3>2. IF i + 1 <= 10 - n THEN s[i + 1] = BootScript[n + (i + 1) - 1] ELSE s[i + 1] \in Tries
      BY <3>1 DEF BootingAt
    <3>3. n + (i + 1) - 1 = (n + 1) + i - 1 /\ (i + 1 <= 10 - n <=> i <= 10 - (n + 1))
      BY <1>1, <2>1
    <3> QED
      BY <3>1, <3>2, <3>3
  <2>2. n + 1 \in 1..9 /\ Len(Tail(s)) >= 10 - (n + 1)
    BY <1>1, <1>4, <1>5
  <2> QED
    BY <1>2, <1>3, <1>1, <1>4, <1>5, <2>1, <2>2 DEF BootingAt, Scripts
<1>6. CASE n = 9
  <2>1. ASSUME NEW i \in 1..Len(s) - 1 PROVE Tail(s)[i] \in Tries
    <3>1. i + 1 \in 1..Len(s) /\ ~(i + 1 <= 10 - n)
      BY <1>1, <1>6, <2>1
    <3> QED
      BY <1>4, <2>1, <3>1 DEF BootingAt
  <2>2. Tail(s) \in Seq(Tries)
    <3>1. \A i \in 1..Len(Tail(s)) : Tail(s)[i] \in Tries
      BY <1>4, <2>1
    <3>2. Tail(s) \in [1..Len(Tail(s)) -> Steps] /\ Len(Tail(s)) \in Nat
      BY <1>4, LenProperties
    <3>3. Tail(s) \in [1..Len(Tail(s)) -> Tries]
      BY <3>1, <3>2
    <3> QED
      BY <3>2, <3>3, SeqDef
  <2> QED
    BY <1>2, <1>3, <1>1, <1>6, <2>2 DEF Scripts
<1> QED
  BY <1>1, <1>5, <1>6

LEMMA BootStep ==
    /\ BootScript \in Seq(Steps) /\ Len(BootScript) = 9
    /\ BootScript[1] = Do("pinsLow") /\ BootScript[2] = Do("pinsHigh") /\ BootScript[3] = Do("flush")
    /\ BootScript[4] = Must("ping") /\ BootScript[5] = Must("i2sMode")
    /\ BootScript[6] = Must("i2sRole") /\ BootScript[7] = Must("codec")
    /\ BootScript[8] = Raw("linkcfg") /\ BootScript[9] = Do("booted")
<1> DEFINE first  == <<Do("pinsLow"), Do("pinsHigh"), Do("flush")>>
           middle == [i \in 1..4 |-> Must(InitCommands[i])]
           last   == <<Raw("linkcfg"), Do("booted")>>
           both   == first \o middle
<1>1. /\ first \in Seq(Steps) /\ Len(first) = 3
      /\ first[1] = Do("pinsLow") /\ first[2] = Do("pinsHigh") /\ first[3] = Do("flush")
  BY DEF Steps, Deeds, Do, Step
<1>2. /\ last \in Seq(Steps) /\ Len(last) = 2
      /\ last[1] = Raw("linkcfg") /\ last[2] = Do("booted")
  BY DEF Steps, Kinds, Commands, Deeds, Do, Raw, Step
<1>3. /\ middle \in Seq(Steps) /\ Len(middle) = 4
      /\ middle[1] = Must("ping") /\ middle[2] = Must("i2sMode")
      /\ middle[3] = Must("i2sRole") /\ middle[4] = Must("codec")
  <2>1. /\ InitCommands[1] = "ping" /\ InitCommands[2] = "i2sMode"
        /\ InitCommands[3] = "i2sRole" /\ InitCommands[4] = "codec"
    BY DEF InitCommands
  <2>2. /\ middle[1] = Must("ping") /\ middle[2] = Must("i2sMode")
        /\ middle[3] = Must("i2sRole") /\ middle[4] = Must("codec")
    BY <2>1
  <2>3. {Must("ping"), Must("i2sMode"), Must("i2sRole"), Must("codec")} \subseteq Steps
    BY DEF Steps, Kinds, Commands, Must, Step
  <2>4. \A i \in 1..4 : middle[i] \in Steps
    BY <2>2, <2>3
  <2>5. middle \in [1..4 -> Steps]
    BY <2>4
  <2>6. middle \in Seq(Steps)
    BY <2>5, SeqDef
  <2> QED
    BY <2>2, <2>5, <2>6
<1> HIDE DEF first, middle, last
<1>4. /\ both \in Seq(Steps) /\ Len(both) = 7
      /\ \A i \in 1..7 : both[i] = IF i <= 3 THEN first[i] ELSE middle[i - 3]
  <2>1. /\ both \in Seq(Steps) /\ Len(both) = Len(first) + Len(middle)
        /\ \A i \in 1..Len(first) + Len(middle) :
              both[i] = IF i <= Len(first) THEN first[i] ELSE middle[i - Len(first)]
    BY <1>1, <1>3, ConcatProperties
  <2> QED
    BY <1>1, <1>3, <2>1
<1> DEFINE all == both \o last
<1>5. BootScript = all
  BY DEF BootScript, first, middle, last
<1> HIDE DEF both
<1>6. /\ all \in Seq(Steps) /\ Len(all) = 9
      /\ \A i \in 1..9 : all[i] = IF i <= 7 THEN both[i] ELSE last[i - 7]
  <2>1. /\ all \in Seq(Steps) /\ Len(all) = Len(both) + Len(last)
        /\ \A i \in 1..Len(both) + Len(last) :
              all[i] = IF i <= Len(both) THEN both[i] ELSE last[i - Len(both)]
    BY <1>2, <1>4, ConcatProperties
  <2> HIDE DEF all
  <2> QED
    BY <1>2, <1>4, <2>1
<1> HIDE DEF all
<1>7. /\ all[1] = both[1] /\ all[2] = both[2] /\ all[3] = both[3]
      /\ all[4] = both[4] /\ all[5] = both[5] /\ all[6] = both[6] /\ all[7] = both[7]
      /\ all[8] = last[1] /\ all[9] = last[2]
  BY <1>6
<1>8. /\ both[1] = first[1] /\ both[2] = first[2] /\ both[3] = first[3]
      /\ both[4] = middle[1] /\ both[5] = middle[2] /\ both[6] = middle[3]
      /\ both[7] = middle[4]
  BY <1>4
<1> QED
  BY <1>1, <1>2, <1>3, <1>5, <1>6, <1>7, <1>8

\* The boot of a plan is at its first step.
LEMMA BootStarts ==
    ASSUME NEW setup \in Seq(Tries)
    PROVE  Booting(BootPlan(setup), 1)
<1>1. setup \in Seq(Steps)
  BY SeqMonotonic, TriesMild, MildSteps
<1> DEFINE s == BootScript \o setup
<1>2. /\ s \in Seq(Steps) /\ Len(s) = 9 + Len(setup) /\ Len(setup) \in Nat
      /\ \A i \in 1..Len(s) : s[i] = IF i <= 9 THEN BootScript[i] ELSE setup[i - 9]
  <2>1. /\ s \in Seq(Steps) /\ Len(s) = Len(BootScript) + Len(setup)
        /\ \A i \in 1..Len(BootScript) + Len(setup) :
              s[i] = IF i <= Len(BootScript) THEN BootScript[i] ELSE setup[i - Len(BootScript)]
    BY <1>1, BootStep, ConcatProperties
  <2> HIDE DEF s
  <2> QED
    BY <2>1, BootStep
<1>3. Len(setup) \in Nat /\ \A i \in 1..Len(setup) : setup[i] \in Tries
  OBVIOUS
<1> HIDE DEF s
<1>4. BootingAt(s, 1)
  BY <1>2, <1>3 DEF BootingAt
<1>5. BootPlan(setup) = <<s, <<Do("probe")>>>>
  BY DEF BootPlan, s
<1>6. BootPlan(setup) # <<>> /\ Head(BootPlan(setup)) = s
      /\ Tail(BootPlan(setup)) = <<<<Do("probe")>>>>
  BY <1>5
<1> QED
  BY <1>4, <1>6 DEF Booting

ProbePlan == <<<<Do("probe")>>>>

LEMMA ProbeCalm == ASSUME NEW t PROVE Calm(t, ProbePlan)
<1>1. <<Do("probe")>> \in Scripts(Mild)
  BY ProbeMild DEF Scripts
<1> QED
  BY <1>1 DEF ProbePlan, Calm

LEMMA ProbeScripts == ProbePlan \in Seq(Seq(Steps)) /\ ProbePlan # <<>>
<1>1. Do("probe") \in Steps
  BY ProbeMild, MildSteps
<1> QED
  BY <1>1 DEF ProbePlan

LEMMA NothingCalm == ASSUME NEW t PROVE Calm(t, <<>>)
BY DEF Calm

\* What a plan that goes on can be made of.
LEMMA CalmParts ==
    ASSUME NEW t, NEW p, Calm(t, p), p # <<>>
    PROVE  Head(p) \in Scripts(Mild) /\ Tail(p) \in Seq(Scripts(Mild))
BY DEF Calm

LEMMA WithCalm ==
    ASSUME NEW t, Tail(plan[t]) \in Seq(Scripts(Mild)), NEW script \in Seq(Mild),
           t = "retry" => script \in Seq(Tries) /\ Tail(plan[t]) \in {<<>>, ProbePlan}
    PROVE  Calm(t, With(t, script))
<1>1. CASE script = <<>>
  BY <1>1, NothingCalm DEF With
<1>2. CASE script # <<>>
  <2> DEFINE p == <<script>> \o Tail(plan[t])
  <2>1. With(t, script) = p
    BY <1>2 DEF With
  <2>2. script \in Scripts(Mild) /\ (t = "retry" => script \in Scripts(Tries))
    BY <1>2 DEF Scripts
  <2>3. p \in Seq(Scripts(Mild)) /\ p # <<>> /\ Head(p) = script /\ Tail(p) = Tail(plan[t])
    BY <2>2
  <2> HIDE DEF p
  <2> QED
    BY <2>1, <2>2, <2>3 DEF Calm, ProbePlan
<1> QED
  BY <1>1, <1>2

LEMMA OnlyCalm ==
    ASSUME NEW t, t # "retry", NEW script \in Seq(Mild) PROVE Calm(t, Only(script))
<1>1. CASE script = <<>>
  BY <1>1, NothingCalm DEF Only
<1>2. CASE script # <<>>
  <2>1. script \in Scripts(Mild) /\ Only(script) = <<script>>
    BY <1>2 DEF Scripts, Only
  <2>2. <<script>> \in Seq(Scripts(Mild))
    BY <2>1
  <2> QED
    BY <2>1, <2>2 DEF Calm
<1> QED
  BY <1>1, <1>2

LEMMA InsteadCalm ==
    ASSUME NEW t, t # "retry", Tail(plan[t]) \in Seq(Scripts(Mild)) PROVE Calm(t, Instead(t))
BY NothingCalm DEF Instead, Calm

LEMMA AgainCalm ==
    ASSUME NEW t, t # "retry", Calm(t, plan[t]), plan[t] # <<>>, NEW before \in Seq(Mild),
           NEW p \in Again(t, before)
    PROVE  Calm(t, p)
<1>1. Head(plan[t]) \in Scripts(Mild) /\ Tail(plan[t]) \in Seq(Scripts(Mild))
  BY CalmParts
<1>2. p = With(t, before \o Head(plan[t]))
  BY DEF Again
<1>3. before \o Head(plan[t]) \in Seq(Mild)
  BY <1>1, Prepended DEF Scripts
<1> QED
  BY <1>1, <1>2, <1>3, WithCalm

-----------------------------------------------------------------------------
(* The plans of the operations.                                             *)
USE DEF Need, Try, Must, Raw, Enter, Poll, Do, Step

LEMMA EnsureMild == Ensure \in Scripts(Mild)
BY DEF Ensure, Scripts, Mild, Steps, Kinds, Commands, Deeds

LEMMA ConnectMild == ConnectScript \in Scripts(Mild)
<1> DEFINE first == <<Enter("linkcfg"), Raw("auto0"), Do("flush"), Try("scan0"),
                      Must("conn"), Poll("linked")>>
           last  == <<Do("up")>>
<1>1. first \in Seq(Mild) /\ last \in Seq(Mild) /\ last # <<>>
  BY DEF Mild, Steps, Kinds, Commands, Deeds
<1> HIDE DEF first, last
<1>2. first \o Ensure \in Seq(Mild)
  BY <1>1, EnsureMild, ConcatProperties DEF Scripts
<1>3. (first \o Ensure) \o last \in Scripts(Mild)
  BY <1>1, <1>2, Prepended DEF Scripts
<1> QED
  BY <1>3 DEF ConnectScript, first, last

LEMMA PollMild ==
    ASSUME NEW w \in Kinds \ {"do"} PROVE <<Poll(w)>> \o Ensure \in Scripts(Mild)
<1>1. <<Poll(w)>> \in Seq(Mild)
  BY DEF Mild, Steps, Commands
<1> QED
  BY <1>1, EnsureMild, Prepended

LEMMA ReconnectCalm ==
    ASSUME NEW t, t # "retry", NEW fallback \in BOOLEAN
    PROVE  Calm(t, ReconnectPlan(fallback)) /\ ReconnectPlan(fallback) # <<>>
<1> DEFINE first == <<IfLinked, ConnectScript, IfLinked, AutoScript>>
           last  == IF fallback THEN <<ConnectScript, IfLinked>> ELSE <<>>
<1>1. IfLinked \in Scripts(Mild) /\ AutoScript \in Scripts(Mild)
  BY PollMild DEF IfLinked, AutoScript, Kinds
<1>2. /\ first \in Seq(Scripts(Mild)) /\ first # <<>> /\ Len(first) = 4
      /\ last \in Seq(Scripts(Mild))
  BY <1>1, ConnectMild
<1> HIDE DEF first, last
<1>3. first \o last \in Seq(Scripts(Mild)) /\ Len(first \o last) = Len(first) + Len(last)
  BY <1>2, ConcatProperties
<1>4. first \o last # <<>>
  BY <1>2, <1>3
<1> QED
  BY <1>3, <1>4 DEF ReconnectPlan, first, last, Calm

LEMMA PostBootTries == PostBoot \in Scripts(Tries)
BY DEF PostBoot, Tries, Scripts

LEMMA TriesInMild == ASSUME NEW s \in Seq(Tries) PROVE s \in Seq(Mild)
BY TriesMild, SeqMonotonic

\* The retry task tries again.
LEMMA RetryShaped ==
    \/ booted /\ Calm("retry", RetryPlan)
    \/ ~booted /\ Booting(RetryPlan, 1)
<1>1. PostBoot \in Seq(Mild) /\ PostBoot \in Seq(Tries) /\ PostBoot # <<>>
  BY PostBootTries, TriesInMild DEF Scripts
<1>2. Calm("retry", <<PostBoot>>)
  BY <1>1 DEF Calm, Scripts
<1>3. Booting(BootPlan(PostBoot), 1)
  BY <1>1, BootStarts
<1> QED
  BY <1>2, <1>3 DEF RetryPlan

-----------------------------------------------------------------------------
(* What may follow a step of a plan.                                        *)

\* Steps the waits put in front of the plan.
LEMMA Preambles ==
    /\ <<>> \in Seq(Mild) /\ <<Try("enc")>> \in Seq(Mild) /\ <<Try("audio")>> \in Seq(Mild)
    /\ <<Raw("scan0")>> \in Seq(Mild)
    /\ <<Raw("disc"), Raw("dsca"), Do("flush")>> \in Seq(Mild)
BY DEF Mild, Steps, Kinds, Commands, Deeds

LEMMA WaitCalm ==
    ASSUME NEW t, t # "retry", Calm(t, plan[t]), plan[t] # <<>>, Current(t).kind # "do",
           Current(t).kind \notin {"need", "must", "enter", "try", "raw"},
           NEW r, NEW p \in Waited(t, r)
    PROVE  Calm(t, p)
<1>1. /\ Head(plan[t]) \in Scripts(Mild) /\ Tail(plan[t]) \in Seq(Scripts(Mild))
      /\ Current(t) \in Mild /\ Rest(t) \in Seq(Mild)
  BY CalmParts, Rests DEF Current, Rest
<1>2. Current(t).kind \in {"isLinked", "auto", "linked", "playing", "streaming", "busy", "awake"}
  BY <1>1 DEF Mild, Steps, Kinds
<1>3. Calm(t, Instead(t)) /\ Calm(t, Only(Rest(t))) /\ Calm(t, With(t, Rest(t)))
  BY <1>1, InsteadCalm, OnlyCalm, WithCalm
<1> DEFINE w == Current(t).kind
<1>4. CASE w = "isLinked"
  BY <1>3, <1>4 DEF Waited
<1>5. CASE w = "auto"
  <2>1. p \in {Only(Rest(t)), Instead(t)} \cup Again(t, <<>>)
    BY <1>5 DEF Waited
  <2> QED
    BY <1>3, <2>1, Preambles, AgainCalm
<1>6. CASE w = "linked"
  <2>1. p \in {With(t, Rest(t)), Instead(t)} \cup Again(t, <<>>)
    BY <1>6 DEF Waited
  <2> QED
    BY <1>3, <2>1, Preambles, AgainCalm
<1>7. CASE w = "playing"
  <2>1. p = With(t, Rest(t)) \/ p = With(t, Tail(Rest(t)))
    BY <1>7 DEF Waited
  <2>2. CASE Rest(t) # <<>>
    <3>1. Tail(Rest(t)) \in Seq(Mild)
      BY <1>1, <2>2
    <3> QED
      BY <1>1, <1>3, <2>1, <3>1, WithCalm
  <2>3. CASE Rest(t) = <<>>
    <3>1. Tail(Rest(t)) \in Seq(Mild)
      BY <2>3
    <3> QED
      BY <1>1, <1>3, <2>1, <3>1, WithCalm
  <2> QED
    BY <2>2, <2>3
<1>8. CASE w = "streaming"
  <2>1. \/ p = With(t, <<Try("enc")>> \o Rest(t)) \/ p = Instead(t)
        \/ p \in Again(t, <<>>) \cup Again(t, <<Try("audio")>>)
    BY <1>8 DEF Waited
  <2>2. <<Try("enc")>> \o Rest(t) \in Seq(Mild)
    BY <1>1, Preambles, ConcatProperties
  <2> QED
    BY <1>1, <1>3, <2>1, <2>2, Preambles, AgainCalm, WithCalm
<1>9. CASE w = "busy"
  <2>1. \/ p = With(t, Rest(t))
        \/ p \in Again(t, <<Raw("disc"), Raw("dsca"), Do("flush")>>) \cup Again(t, <<>>)
    BY <1>9 DEF Waited
  <2> QED
    BY <1>3, <2>1, Preambles, AgainCalm
<1>10. CASE w = "awake"
  BY <1>10, NothingCalm, ReconnectCalm DEF Waited
<1> QED
  BY <1>2, <1>4, <1>5, <1>6, <1>7, <1>8, <1>9, <1>10

LEMMA CalmFollows ==
    ASSUME NEW t, Calm(t, plan[t]), plan[t] # <<>>, Current(t).kind # "do",
           NEW r, NEW p \in Following(t, r)
    PROVE  Calm(t, p)
<1>1. /\ Head(plan[t]) \in Scripts(Mild) /\ Tail(plan[t]) \in Seq(Scripts(Mild))
      /\ Current(t) \in Mild /\ Rest(t) \in Seq(Mild)
  BY CalmParts, Rests DEF Current, Rest
<1>2. CASE t = "retry"
  <2>1. plan[t] # ProbePlan
    BY DEF ProbePlan, Current
  <2>2. Head(plan[t]) \in Scripts(Tries) /\ Tail(plan[t]) \in {<<>>, ProbePlan}
    BY <1>2, <2>1 DEF Calm, ProbePlan
  <2>3. Current(t) \in Tries /\ Rest(t) \in Seq(Tries)
    BY <2>2, Rests DEF Current, Rest
  <2>4. p = With(t, Rest(t))
    BY <2>3 DEF Tries, Following
  <2> QED
    BY <1>1, <2>2, <2>3, <2>4, WithCalm
<1>3. CASE t # "retry"
  <2>1. Calm(t, Instead(t)) /\ Calm(t, With(t, Rest(t)))
    BY <1>1, <1>3, InsteadCalm, WithCalm
  <2>2. Calm(t, With(t, <<Raw("scan0")>> \o Rest(t)))
    BY <1>1, <1>3, Preambles, WithCalm, ConcatProperties
  <2>3. CASE Current(t).kind \in {"need", "must", "enter", "try", "raw"}
    <3>1. p \in {Instead(t), With(t, Rest(t)), With(t, <<Raw("scan0")>> \o Rest(t))}
      BY <2>3 DEF Following
    <3> QED
      BY <2>1, <2>2, <3>1
  <2>4. CASE Current(t).kind \notin {"need", "must", "enter", "try", "raw"}
    <3>1. p \in Waited(t, r)
      BY <2>4 DEF Following
    <3> QED
      BY <1>3, <2>4, <3>1, WaitCalm
  <2> QED
    BY <2>3, <2>4
<1> QED
  BY <1>2, <1>3

\* A boot goes on, or is given up for the alternative.
LEMMA BootFollows ==
    ASSUME NEW t, NEW n, Booting(plan[t], n), Current(t).kind # "do",
           NEW r, NEW p \in Following(t, r)
    PROVE  /\ n \in 4..8
           /\ \/ Booting(p, n + 1) /\ (r \in {"failed", "refused"} => n = 8)
              \/ n \in 4..7 /\ r \in {"failed", "refused"} /\ p = ProbePlan
<1>1. /\ plan[t] # <<>> /\ BootingAt(Head(plan[t]), n) /\ Tail(plan[t]) = ProbePlan
      /\ n \in 1..9 /\ Current(t) = BootScript[n]
  BY BootStepping DEF Booting, BootingAt, ProbePlan, Current
<1>2. n \in 4..8
  <2>1. n \notin {1, 2, 3, 9}
    BY <1>1, BootStep
  <2> QED
    BY <1>1, <2>1
<1>3. BootingAt(Rest(t), n + 1) /\ Rest(t) # <<>>
  <2> DEFINE s == Head(plan[t])
  <2>1. Rest(t) = Tail(s) /\ BootingAt(s, n) /\ n < 9
    BY <1>1, <1>2 DEF Rest
  <2> HIDE DEF s
  <2>2. BootingAt(Rest(t), n + 1)
    BY <2>1, BootStepping
  <2> QED
    BY <1>2, <2>2, BootStepping DEF Scripts
<1>4. Booting(With(t, Rest(t)), n + 1)
  <2> DEFINE q == <<Rest(t)>> \o Tail(plan[t])
  <2>1. Rest(t) \in Seq(Steps) /\ Tail(plan[t]) \in Seq(Seq(Steps))
    BY <1>1, <1>3, ProbeScripts DEF BootingAt
  <2>2. q # <<>> /\ Head(q) = Rest(t) /\ Tail(q) = Tail(plan[t])
    BY <2>1
  <2>3. With(t, Rest(t)) = q
    BY <1>3 DEF With
  <2> HIDE DEF q
  <2> QED
    BY <1>1, <1>3, <2>2, <2>3 DEF Booting, ProbePlan
<1>5. Instead(t) = ProbePlan
  <2>1. Len(plan[t]) > 1
    BY <1>1 DEF ProbePlan
  <2> QED
    BY <1>1, <2>1 DEF Instead
<1>6. CASE n = 8
  <2>1. Current(t) = Raw("linkcfg")
    BY <1>1, <1>6, BootStep
  <2>2. p = With(t, Rest(t))
    BY <2>1 DEF Following
  <2> QED
    BY <1>4, <1>6, <2>2
<1>7. CASE n \in 4..7
  <2>1. Current(t).kind = "must"
    BY <1>1, <1>7, BootStep
  <2>2. p = IF r \in {"failed", "refused"} THEN Instead(t) ELSE With(t, Rest(t))
    BY <2>1 DEF Following
  <2> QED
    BY <1>2, <1>4, <1>5, <1>7, <2>2
<1> QED
  BY <1>2, <1>6, <1>7

-----------------------------------------------------------------------------
(* How the plan of a task changes.                                          *)

\* A plan without a step that is not mild has no power over the module.
LEMMA Powerless == ASSUME NEW t, NEW p, Calm(t, p) PROVE ~Powers(p)
<1>1. CASE p = <<>>
  BY <1>1 DEF Powers, Has
<1>2. CASE p # <<>>
  <2>1. Head(p) \in Seq(Mild)
    BY <1>2, CalmParts DEF Scripts
  <2>2. \A i \in DOMAIN Head(p) : Head(p)[i] \in Mild
    BY <2>1
  <2>3. Do("booted") \notin Mild /\ Do("unbooted") \notin Mild
    BY DEF Mild
  <2> QED
    BY <2>2, <2>3 DEF Powers, Has
<1> QED
  BY <1>1, <1>2

LEMMA Powerful ==
    ASSUME NEW p
    PROVE  /\ \A n \in 1..9 : Booting(p, n) => Powers(p)
           /\ Cutting(p) => Powers(p)
<1>1. ASSUME NEW n \in 1..9, Booting(p, n) PROVE Powers(p)
  <2> DEFINE s == Head(p)
  <2>1. p # <<>> /\ BootingAt(s, n)
    BY <1>1 DEF Booting
  <2> HIDE DEF s
  <2>2. 10 - n \in 1..Len(s) /\ s \in Seq(Steps)
    BY <2>1 DEF BootingAt
  <2>3. s[10 - n] = BootScript[n + (10 - n) - 1] /\ n + (10 - n) - 1 = 9
    BY <2>1, <2>2 DEF BootingAt
  <2>4. s[10 - n] = Do("booted") /\ 10 - n \in DOMAIN s
    BY <2>2, <2>3, BootStep
  <2> QED
    BY <2>1, <2>4 DEF Powers, Has, s
<1>2. ASSUME Cutting(p) PROVE Powers(p)
  <2>1. CASE p = ShutdownPlan
    <3>1. p # <<>> /\ Head(p) = <<Do("pinsLow"), Do("unbooted")>>
      BY <2>1 DEF ShutdownPlan
    <3>2. 2 \in DOMAIN Head(p) /\ Head(p)[2] = Do("unbooted")
      BY <3>1
    <3> QED
      BY <3>1, <3>2 DEF Powers, Has
  <2>2. CASE p = <<<<Do("unbooted")>>>>
    <3>1. p # <<>> /\ Head(p) = <<Do("unbooted")>>
      BY <2>2
    <3>2. 1 \in DOMAIN Head(p) /\ Head(p)[1] = Do("unbooted")
      BY <3>1
    <3> QED
      BY <3>1, <3>2 DEF Powers, Has
  <2> QED
    BY <1>2, <2>1, <2>2 DEF Cutting
<1> QED
  BY <1>1, <1>2

\* Where a plan is that an act comes next of.
LEMMA Cut ==
    ASSUME NEW t, Cutting(plan[t])
    PROVE  /\ plan[t] # <<>> /\ Current(t).kind = "do"
           /\ plan[t] = ShutdownPlan =>
                 Current(t) = Do("pinsLow") /\ With(t, Rest(t)) = <<<<Do("unbooted")>>>>
           /\ plan[t] = <<<<Do("unbooted")>>>> =>
                 Current(t) = Do("unbooted") /\ With(t, Rest(t)) = <<>>
<1>1. CASE plan[t] = ShutdownPlan
  <2>1. /\ Head(plan[t]) = <<Do("pinsLow"), Do("unbooted")>> /\ Tail(plan[t]) = <<>>
        /\ plan[t] # <<>> /\ plan[t] # <<<<Do("unbooted")>>>>
    BY <1>1 DEF ShutdownPlan
  <2> DEFINE s == <<Do("pinsLow"), Do("unbooted")>>
             u == <<Do("unbooted")>>
  <2>4. Head(s) = Do("pinsLow") /\ Tail(s) = u
    OBVIOUS
  <2>5. u \in Seq({Do("unbooted")}) /\ u # <<>>
    OBVIOUS
  <2> HIDE DEF s, u
  <2>2. Current(t) = Do("pinsLow") /\ Rest(t) = u
    BY <2>1, <2>4 DEF Current, Rest, s
  <2>6. Rest(t) # <<>> /\ Tail(plan[t]) = <<>>
    BY <2>1, <2>2, <2>5
  <2>7. <<u>> \o <<>> = <<u>>
    OBVIOUS
  <2>3. With(t, Rest(t)) = <<u>>
    BY <2>2, <2>6, <2>7 DEF With
  <2> QED
    BY <2>1, <2>2, <2>3 DEF u
<1>2. CASE plan[t] = <<<<Do("unbooted")>>>>
  <2>1. Head(plan[t]) = <<Do("unbooted")>> /\ plan[t] # <<>> /\ plan[t] # ShutdownPlan
    BY <1>2 DEF ShutdownPlan
  <2> DEFINE u == <<Do("unbooted")>>
  <2>3. Head(u) = Do("unbooted") /\ Tail(u) = <<>>
    OBVIOUS
  <2> HIDE DEF u
  <2>2. Current(t) = Do("unbooted") /\ Rest(t) = <<>>
    BY <2>1, <2>3 DEF Current, Rest, u
  <2> QED
    BY <2>1, <2>2 DEF With
<1> QED
  BY <1>1, <1>2 DEF Cutting

LEMMA Booted ==
    ASSUME NEW t, NEW n, Booting(plan[t], n)
    PROVE  /\ plan[t] # <<>> /\ n \in 1..9 /\ Current(t) = BootScript[n]
           /\ Current(t).kind = "do" <=> n \in {1, 2, 3, 9}
           /\ n < 9 => Booting(With(t, Rest(t)), n + 1)
           /\ n = 9 => Calm(t, With(t, Rest(t)))
<1> DEFINE s == Head(plan[t])
<1>1. /\ plan[t] # <<>> /\ BootingAt(s, n) /\ Tail(plan[t]) = ProbePlan /\ n \in 1..9
      /\ Current(t) = Head(s) /\ Rest(t) = Tail(s)
  BY DEF Booting, BootingAt, ProbePlan, Current, Rest
<1> HIDE DEF s
<1>2. Current(t) = BootScript[n]
  BY <1>1, BootStepping
<1>3. Current(t).kind = "do" <=> n \in {1, 2, 3, 9}
  <2>1. n \in {4, 5, 6, 7, 8} \/ n \in {1, 2, 3, 9}
    BY <1>1
  <2> QED
    BY <1>2, <2>1, BootStep
<1>4. ASSUME n < 9 PROVE Booting(With(t, Rest(t)), n + 1)
  <2>1. BootingAt(Rest(t), n + 1)
    BY <1>1, <1>4, BootStepping
  <2>2. Rest(t) # <<>> /\ Rest(t) \in Seq(Steps)
    BY <2>1, BootStepping DEF Scripts, BootingAt
  <2> DEFINE q == <<Rest(t)>> \o Tail(plan[t])
  <2>3. Rest(t) \in Seq(Steps) /\ Tail(plan[t]) \in Seq(Seq(Steps))
    BY <1>1, <2>2, ProbeScripts
  <2>4. q # <<>> /\ Head(q) = Rest(t) /\ Tail(q) = Tail(plan[t])
    BY <2>3
  <2>5. With(t, Rest(t)) = q
    BY <2>2 DEF With
  <2> HIDE DEF q
  <2> QED
    BY <1>1, <2>1, <2>4, <2>5 DEF Booting, ProbePlan
<1>5. ASSUME n = 9 PROVE Calm(t, With(t, Rest(t)))
  <2>1. Rest(t) \in Seq(Tries)
    BY <1>1, <1>5, BootStepping
  <2>2. ProbePlan \in Seq(Scripts(Mild))
    BY ProbeCalm DEF Calm
  <2> QED
    BY <1>1, <2>1, <2>2, TriesInMild, WithCalm
<1> QED
  BY <1>1, <1>2, <1>3, <1>4, <1>5

\* An act of a plan that has no power over the module.
LEMMA ActCalm ==
    ASSUME NEW t \in Tasks, DOMAIN plan = Tasks, Calm(t, plan[t]), Act(t)
    PROVE  /\ Current(t) \in Mild
           /\ \/ Calm(t, plan'[t])
              \/ t = "retry" /\ Current(t) = Do("probe") /\ ~booted /\ Booting(plan'[t], 1)
<1>1. /\ plan[t] # <<>> /\ Current(t).kind = "do"
      /\ plan'[t] = IF Current(t) = Do("probe") \/ (Current(t) = Do("enter") /\ ~booted)
                    THEN Instead(t) ELSE With(t, Rest(t))
  BY DEF Act
<1>2. /\ Head(plan[t]) \in Scripts(Mild) /\ Tail(plan[t]) \in Seq(Scripts(Mild))
      /\ Current(t) \in Mild /\ Rest(t) \in Seq(Mild)
  BY <1>1, CalmParts, Rests DEF Current, Rest
<1>3. CASE t # "retry"
  BY <1>1, <1>2, <1>3, InsteadCalm, WithCalm
<1>4. CASE t = "retry"
  <2>1. CASE plan[t] = ProbePlan
    <3>1. Current(t) = Do("probe") /\ Len(plan[t]) = 1
      BY <2>1 DEF ProbePlan, Current
    <3>2. plan'[t] = RetryPlan
      BY <1>1, <1>4, <3>1 DEF Instead
    <3> QED
      BY <1>2, <1>4, <3>1, <3>2, RetryShaped
  <2>2. CASE plan[t] # ProbePlan
    <3>1. Head(plan[t]) \in Scripts(Tries)
      BY <1>1, <1>4, <2>2 DEF Calm, ProbePlan
    <3>2. Current(t) \in Tries
      BY <3>1, Rests DEF Current
    <3> QED
      BY <1>1, <3>2 DEF Tries
  <2> QED
    BY <2>1, <2>2
<1> QED
  BY <1>3, <1>4

-----------------------------------------------------------------------------
(* The module at the other end of the UART, and the answers it gives.       *)

Chips == [on : BOOLEAN, config : SUBSET Config, pairing : BOOLEAN, auto : BOOLEAN,
          link : LinkStates]
Answers == [kind : {"ok", "error", "event"}, body : Commands \cup LinkStates]

\* What became of the module m by a command c.
Advanced(c, m, n) ==
    /\ n \in Chips /\ n.on = m.on /\ m.config \subseteq n.config
    /\ c \in Config => c \in n.config

LEMMA Afters ==
    ASSUME NEW c \in Commands, NEW m \in Chips, NEW n \in After(c, m)
    PROVE  Advanced(c, m, n)
<1>1. CASE c \in {"pair1", "pair0"}
  <2> DEFINE b == c = "pair1"
  <2>1. n = [m EXCEPT !.pairing = b]
    BY <1>1 DEF After, Config
  <2>2. b \in BOOLEAN
    OBVIOUS
  <2> HIDE DEF b
  <2>3. n.on = m.on /\ n.config = m.config
    BY <2>1 DEF Chips
  <2>4. n \in Chips
    BY <2>1, <2>2 DEF Chips
  <2> QED
    BY <1>1, <2>3, <2>4 DEF Advanced, Config
<1>2. CASE c \in {"auto3", "auto0"}
  <2> DEFINE b == c = "auto3"
  <2>1. n = [m EXCEPT !.auto = b]
    BY <1>2 DEF After, Config
  <2>2. b \in BOOLEAN
    OBVIOUS
  <2> HIDE DEF b
  <2>3. n.on = m.on /\ n.config = m.config
    BY <2>1 DEF Chips
  <2>4. n \in Chips
    BY <2>1, <2>2 DEF Chips
  <2> QED
    BY <1>2, <2>3, <2>4 DEF Advanced, Config
<1>3. CASE c \in {"disc", "dsca", "conn", "audio"}
  <2>1. n = m \/ \E l \in {"idle", "linked", "streaming"} : n = [m EXCEPT !.link = l]
    BY <1>3 DEF After, Config
  <2>2. CASE n = m
    BY <1>3, <2>2 DEF Advanced, Config
  <2>3. ASSUME NEW l \in {"idle", "linked", "streaming"}, n = [m EXCEPT !.link = l]
        PROVE  Advanced(c, m, n)
    BY <1>3, <2>3 DEF Advanced, Chips, Config, LinkStates
  <2> QED
    BY <2>1, <2>2, <2>3
<1>4. CASE c \in Config
  <2>1. n = [m EXCEPT !.config = m.config \cup {c}]
    BY <1>4 DEF After, Config
  <2> QED
    BY <1>4, <2>1 DEF Advanced, Chips
<1>5. CASE c \notin {"pair1", "pair0", "auto3", "auto0", "disc", "dsca", "conn", "audio"} \cup Config
  <2>1. n = m
    BY <1>5 DEF After
  <2> QED
    BY <1>5, <2>1 DEF Advanced
<1> QED
  BY <1>1, <1>2, <1>3, <1>4, <1>5

\* An answer is nothing, or one final line that tells the truth.
Truth(c, e) ==
    \/ e.answer = <<>>
    \/ \E a \in Answers :
         /\ e.answer = <<a>> /\ Final(a)
         /\ a.kind = "ok" => chip.on /\ (c \in Config => c \in e.chip.config)
         /\ a.body = "streaming" => e.chip.link = "streaming"

LEMMA Executing ==
    ASSUME NEW c \in Commands, chip \in Chips, NEW e \in Executions(c)
    PROVE  Advanced("ping", chip, e.chip) /\ Truth(c, e)
<1>0. Advanced("ping", chip, chip)
  BY DEF Advanced, Config
<1>1. CASE ~chip.on
  <2>1. e = [chip |-> chip, answer |-> <<>>, cost |-> 0]
    BY <1>1 DEF Executions
  <2> QED
    BY <1>0, <2>1 DEF Truth
<1>2. ASSUME chip.on,
             NEW m \in After(c, chip),
             e = [chip |-> m, cost |-> 0,
                  answer |-> <<Answer("ok", IF c = "stat" THEN m.link ELSE c)>>]
      PROVE  Advanced("ping", chip, e.chip) /\ Truth(c, e)
  <2>1. Advanced(c, chip, m)
    BY Afters
  <2> DEFINE b == IF c = "stat" THEN m.link ELSE c
             a == Answer("ok", b)
  <2>2. b \in Commands \cup LinkStates /\ (b = "streaming" => m.link = "streaming")
    BY <2>1 DEF Advanced, Chips, Commands
  <2>3. e.chip = m /\ e.answer = <<a>>
    BY <1>2
  <2> HIDE DEF b
  <2>4. a \in Answers /\ Final(a) /\ a.kind = "ok" /\ a.body = b
    BY <2>2 DEF Answers, Answer, Final
  <2> HIDE DEF a
  <2>5. Advanced("ping", chip, m)
    BY <2>1 DEF Advanced, Config
  <2> QED
    BY <1>2, <2>1, <2>2, <2>3, <2>4, <2>5 DEF Truth, Advanced
<1>3. ASSUME chip.on,
             e = [chip |-> chip, answer |-> <<Answer("error", c)>>,
                  cost |-> IF c = "conn" THEN 0 ELSE 1]
      PROVE  Advanced("ping", chip, e.chip) /\ Truth(c, e)
  <2> DEFINE a == Answer("error", c)
  <2>1. a \in Answers /\ Final(a) /\ a.kind = "error" /\ a.body = c
    BY DEF Answers, Answer, Final
  <2>2. c # "streaming"
    BY DEF Commands
  <2>3. e.chip = chip /\ e.answer = <<a>>
    BY <1>3
  <2> HIDE DEF a
  <2> QED
    BY <1>0, <2>1, <2>2, <2>3 DEF Truth
<1> QED
  BY <1>1, <1>2, <1>3 DEF Executions

\* Text that holds no final line, and one that holds at most one.
Spent(text) == \A i \in DOMAIN text : ~Final(text[i])
Single(text) == \A i, j \in DOMAIN text : Final(text[i]) /\ Final(text[j]) => i = j
Holds(text, b) == \E i \in DOMAIN text : text[i].body = b
Says(text) == \E i \in DOMAIN text : text[i].kind = "ok"

\* The text there is once a command has been executed.
LEMMA Answered ==
    ASSUME NEW c \in Commands, chip \in Chips, NEW e \in Executions(c), rx \in Seq(Answers)
    PROVE  /\ rx \o e.answer \in Seq(Answers)
           /\ Spent(rx) => Single(rx \o e.answer)
           /\ Spent(rx) /\ Says(rx \o e.answer) => chip.on /\ (c \in Config => c \in e.chip.config)
           /\ Holds(rx \o e.answer, "streaming") => Holds(rx, "streaming") \/ e.chip.link = "streaming"
<1>1. CASE e.answer = <<>>
  <2>1. rx \o <<>> = rx
    BY ConcatEmptySeq
  <2>2. Spent(rx) => ~Says(rx)
    BY DEF Spent, Says, Final
  <2> QED
    BY <1>1, <2>1, <2>2 DEF Spent, Single
<1>2. ASSUME NEW a \in Answers, e.answer = <<a>>, Final(a),
             a.kind = "ok" => chip.on /\ (c \in Config => c \in e.chip.config),
             a.body = "streaming" => e.chip.link = "streaming"
      PROVE  /\ rx \o e.answer \in Seq(Answers)
             /\ Spent(rx) => Single(rx \o e.answer)
             /\ Spent(rx) /\ Says(rx \o e.answer) =>
                   chip.on /\ (c \in Config => c \in e.chip.config)
             /\ Holds(rx \o e.answer, "streaming") =>
                   Holds(rx, "streaming") \/ e.chip.link = "streaming"
  <2> DEFINE text == rx \o <<a>>
             n == Len(rx)
  <2>1. n \in Nat /\ text \in Seq(Answers) /\ Len(text) = n + 1
        /\ text[n + 1] = a /\ \A i \in 1..n : text[i] = rx[i]
    OBVIOUS
  <2>2. DOMAIN text = 1..(n + 1) /\ DOMAIN rx = 1..n
    BY <2>1
  <2>3. rx \o e.answer = text
    BY <1>2
  <2> HIDE DEF text, n
  <2>4. \A i \in DOMAIN text : text[i] = a \/ (i \in DOMAIN rx /\ text[i] = rx[i])
    BY <2>1, <2>2
  <2>5. Spent(rx) => Single(text)
    BY <2>1, <2>2 DEF Spent, Single
  <2>6. Spent(rx) /\ Says(text) => a.kind = "ok"
    BY <2>4 DEF Spent, Says, Final
  <2>7. Holds(text, "streaming") => Holds(rx, "streaming") \/ a.body = "streaming"
    BY <2>4 DEF Holds
  <2> QED
    BY <1>2, <2>1, <2>3, <2>5, <2>6, <2>7
<1> QED
  BY <1>1, <1>2, Executing DEF Truth

-----------------------------------------------------------------------------
(* What a task makes of the text it reads.                                  *)

LEMMA Least ==
    ASSUME NEW S \in SUBSET Nat, S # {}
    PROVE  \E i \in S : \A j \in S : i <= j
<1> DEFINE R == OpToRel(<, Nat)
<1>1. IsWellFoundedOn(R, Nat)
  BY NatLessThanWellFounded
<1>2. \A x, y \in Nat : <<x, y>> \in R <=> x < y
  BY DEF OpToRel
<1> HIDE DEF R
<1>3. PICK i \in S : \A j \in S : ~(<<j, i>> \in R)
  BY <1>1, WFMin
<1>4. ASSUME NEW j \in S PROVE i <= j
  <2>1. i \in Nat /\ j \in Nat /\ ~(j < i)
    BY <1>2, <1>3
  <2> QED
    BY <2>1
<1> QED
  BY <1>4

\* What a task that reads text decides, and what it leaves for others.
Learns(t, text, r, left) ==
    /\ left \in Seq(Answers)
    /\ \A i \in DOMAIN left : \E j \in DOMAIN text : left[i] = text[j]
    /\ Single(text) => Spent(left)
    /\ r \notin {"failed", "refused"} => Says(text)
    /\ r = "streaming" => Holds(text, "streaming")

LEMMA Outcomes ==
    ASSUME NEW c, NEW text \in Seq(Answers)
    PROVE  /\ Outcome(c, text) \notin {"failed", "refused"} => Says(text)
           /\ Outcome(c, text) # "refused"
           /\ Outcome(c, text) = "streaming" => Holds(text, "streaming")
<1>1. CASE ~Says(text)
  <2>1. Outcome(c, text) = "failed"
    BY <1>1 DEF Outcome, Says
  <2> QED
    BY <2>1
<1>2. CASE Says(text) /\ c = "stat" /\ States(text) # {}
  <2>1. Outcome(c, text) = FirstState(text)
    BY <1>2 DEF Outcome, Says
  <2>2. States(text) \subseteq Nat /\ States(text) \subseteq DOMAIN text
    BY DEF States
  <2>3. \E i \in States(text) : \A j \in States(text) : i <= j
    BY <1>2, <2>2, Least
  <2>4. \E i \in States(text) : FirstState(text) = text[i].body
    BY <2>3 DEF FirstState
  <2> QED
    BY <1>2, <2>1, <2>2, <2>4 DEF States, Holds, LinkStates
<1>3. CASE Says(text) /\ ~(c = "stat" /\ States(text) # {})
  <2>1. Outcome(c, text) \in {"failed", "ok"}
    BY <1>3 DEF Outcome, Says
  <2> QED
    BY <1>3, <2>1
<1> QED
  BY <1>1, <1>2, <1>3

LEMMA Collecting ==
    ASSUME NEW t, NEW text \in Seq(Answers), Collect(t, text)
    PROVE  \E r : Decide(t, r) /\ r # "refused" /\ Learns(t, text, r, rx')
<1>1. CASE Ends(text) = {}
  <2>1. Decide(t, "failed") /\ rx' = <<>>
    BY <1>1 DEF Collect
  <2>2. Learns(t, text, "failed", <<>>)
    BY DEF Learns, Spent
  <2> QED
    BY <2>1, <2>2
<1>2. ASSUME NEW n \in Ends(text),
             Decide(t, Outcome(Current(t).cmd, SubSeq(text, 1, n))),
             rx' = SubSeq(text, n + 1, Len(text))
      PROVE  \E r : Decide(t, r) /\ r # "refused" /\ Learns(t, text, r, rx')
  <2> DEFINE read == SubSeq(text, 1, n)
             left == SubSeq(text, n + 1, Len(text))
             l == Len(text)
  <2>1. n \in 1..l /\ l \in Nat /\ HasFinal(read)
    BY <1>2 DEF Ends
  <2>2. /\ read \in Seq(Answers) /\ DOMAIN read = 1..n
        /\ \A i \in 1..n : read[i] = text[i]
    BY <2>1
  <2>3. left \in Seq(Answers) /\ Len(left) = l - n
        /\ \A i \in 1..(l - n) : left[i] = text[n + i]
    BY <2>1
  <2>4. DOMAIN left = 1..(l - n)
    BY <2>3
  <2>5. DOMAIN text = 1..l
    OBVIOUS
  <2> DEFINE r == Outcome(Current(t).cmd, read)
  <2>6. Decide(t, r) /\ rx' = left
    BY <1>2
  <2> HIDE DEF read, left, l
  <2>7. /\ r \notin {"failed", "refused"} => Says(read)
        /\ r # "refused"
        /\ r = "streaming" => Holds(read, "streaming")
    BY <2>2, Outcomes
  <2> HIDE DEF r
  <2>8. \A i \in DOMAIN read : i \in DOMAIN text /\ read[i] = text[i]
    BY <2>1, <2>2, <2>5
  <2>9. (Says(read) => Says(text)) /\ (Holds(read, "streaming") => Holds(text, "streaming"))
    BY <2>8 DEF Says, Holds
  <2>10. \A i \in DOMAIN left : n + i \in DOMAIN text /\ left[i] = text[n + i]
    BY <2>1, <2>3, <2>4, <2>5
  <2>11. ASSUME Single(text) PROVE Spent(left)
    <3>1. PICK k \in 1..n : Final(text[k])
      BY <2>1, <2>2 DEF HasFinal
    <3>2. \A i \in DOMAIN left : n + i # k
      BY <2>1, <2>4
    <3>3. k \in DOMAIN text
      BY <2>1, <2>5
    <3> QED
      BY <2>10, <2>11, <3>1, <3>2, <3>3 DEF Single, Spent
  <2>12. Learns(t, text, r, left)
    BY <2>3, <2>7, <2>9, <2>10, <2>11 DEF Learns
  <2> QED
    BY <2>6, <2>7, <2>12
<1> QED
  BY <1>1, <1>2 DEF Collect

LEMMA Decided ==
    ASSUME DOMAIN plan = Tasks, NEW t \in Tasks, NEW r, Decide(t, r)
    PROVE  /\ plan' = [plan EXCEPT ![t] = plan'[t]] /\ DOMAIN plan' = Tasks
           /\ plan'[t] \in Following(t, r) /\ \A u \in Others(t) : plan'[u] = plan[u]
BY DEF Decide, Others

-----------------------------------------------------------------------------
(* The plans of the tasks and the UART keep their shape.                    *)

Busy(t) == plan[t] # <<>> /\ Current(t).kind # "do"

PlansInv ==
    /\ DOMAIN plan = Tasks /\ waiting \in [Tasks -> BOOLEAN]
    /\ \A t \in Tasks : Shaped(t, plan[t]) /\ (waiting[t] => Busy(t))
    /\ booted \in BOOLEAN /\ crowded \in BOOLEAN

UartInv == chip \in Chips /\ cmds \in Seq(Commands) /\ rx \in Seq(Answers)

ShapeInv == PlansInv /\ UartInv

\* The plans of the operations that leave the power alone.
Errands ==
    {<<>>, ScanPlan, StatusPlan, WakePlan} \cup {ReconnectPlan(b) : b \in BOOLEAN}
    \cup {<<ConnectScript \o s>> : s \in {<<>>, <<Do("save")>>}}
    \cup {<<<<Need(c)>>>> : c \in {"disc", "auto3", "plistQ", "enc", "codec"}}
    \cup {<<<<Need("pair1"), Do("paired")>>>>, <<<<Need("pair0"), Do("unpaired")>>>>}

\* What an operation starts.
Begins(t, p) ==
    /\ t \in Tasks \ {"retry"} /\ Start(t, p) /\ booted' = booted
    /\ off' = "cut" => off = "cut"
    /\ \/ p \in Errands
       \/ p = BootPlan(<<>>) /\ ~booted /\ off' = "none"
       \/ p = ShutdownPlan /\ booted

LEMMA Beginnings == ASSUME Operation PROVE \E t, p : Begins(t, p)
<1>1. ASSUME NEW t \in {"http", "event"}, Enable(t) PROVE \E u, p : Begins(u, p)
  <2>1. Begins(t, IF booted THEN <<>> ELSE BootPlan(<<>>))
    BY <1>1 DEF Enable, Begins, Errands, Tasks
  <2> QED
    BY <2>1
<1>2. ASSUME NEW b \in BOOLEAN, Pair(b) PROVE \E u, p : Begins(u, p)
  <2>1. Begins("http", <<IF b THEN <<Need("pair1"), Do("paired")>>
                         ELSE <<Need("pair0"), Do("unpaired")>>>>)
    <3>1. <<IF b THEN <<Need("pair1"), Do("paired")>>
                         ELSE <<Need("pair0"), Do("unpaired")>>>> \in Errands
      BY DEF Errands
    <3> QED
      BY <1>2, <3>1 DEF Pair, Begins, Tasks, driver
  <2> QED
    BY <2>1
<1>3. ASSUME NEW b \in BOOLEAN, ConnectTo(b) PROVE \E u, p : Begins(u, p)
  <2> DEFINE s == IF b THEN <<Do("save")>> ELSE <<>>
  <2>1. <<ConnectScript \o s>> \in Errands
    <3>1. s \in {<<>>, <<Do("save")>>}
      OBVIOUS
    <3> QED
      BY <3>1 DEF Errands
  <2>2. Begins("http", <<ConnectScript \o s>>)
    BY <1>3, <2>1 DEF ConnectTo, Begins, Tasks
  <2> QED
    BY <2>2
<1>4. ASSUME NEW b \in BOOLEAN, Speaker(b) PROVE \E u, p : Begins(u, p)
  <2>1. Begins("http", <<>>)
    BY <1>4 DEF Speaker, Begins, Errands, Tasks
  <2> QED
    BY <2>1
<1>5. ASSUME NEW c \in {"disc", "auto3", "plistQ", "enc", "codec"}, Command(c)
      PROVE  \E u, p : Begins(u, p)
  <2>1. <<<<Need(c)>>>> \in Errands
    BY DEF Errands
  <2>2. Begins("http", <<<<Need(c)>>>>)
    BY <1>5, <2>1 DEF Command, Begins, Tasks, driver
  <2> QED
    BY <2>2
<1>6. ASSUME Disable PROVE \E u, p : Begins(u, p)
  <2>1. Begins("http", IF booted THEN ShutdownPlan ELSE <<>>)
    BY <1>6 DEF Disable, Begins, Errands, Tasks
  <2> QED
    BY <2>1
<1>7. ASSUME Scan PROVE \E u, p : Begins(u, p)
  <2>1. Begins("http", ScanPlan)
    BY <1>7 DEF Scan, Begins, Errands, Tasks
  <2> QED
    BY <2>1
<1>8. ASSUME Reconnect PROVE \E u, p : Begins(u, p)
  <2>1. (IF saved THEN ReconnectPlan(TRUE) ELSE <<>>) \in Errands
    BY DEF Errands
  <2>2. Begins("http", IF saved THEN ReconnectPlan(TRUE) ELSE <<>>)
    BY <1>8, <2>1 DEF Reconnect, Begins, Tasks, driver
  <2> QED
    BY <2>2
<1>9. ASSUME Status PROVE \E u, p : Begins(u, p)
  <2>1. Begins("http", IF booted THEN StatusPlan ELSE <<>>)
    BY <1>9 DEF Status, Begins, Errands, Tasks, driver
  <2> QED
    BY <2>1
<1>10. ASSUME WakeSpeaker PROVE \E u, p : Begins(u, p)
  <2> DEFINE q == IF booted THEN WakePlan ELSE IF saved THEN ReconnectPlan(FALSE) ELSE <<>>
  <2>1. q \in Errands
    BY DEF Errands
  <2>2. Begins("alarm", q)
    BY <1>10, <2>1 DEF WakeSpeaker, Begins, Tasks, driver
  <2> QED
    BY <2>2
<1> QED
  BY <1>1, <1>2, <1>3, <1>4, <1>5, <1>6, <1>7, <1>8, <1>9, <1>10 DEF Operation

LEMMA OneScript ==
    ASSUME NEW s \in Scripts(Mild), NEW t, t # "retry" PROVE Calm(t, <<s>>)
BY DEF Calm

LEMMA ErrandsCalm == ASSUME NEW t, t # "retry", NEW p \in Errands PROVE Calm(t, p)
<1>1. CASE p = <<>>
  BY <1>1, NothingCalm
<1>2. CASE p = ScanPlan
  <2> DEFINE s == <<Try("pair0"), Try("scan0"), Do("enter"), Raw("print"),
        Raw("linkcfg"), Raw("auto0"), Raw("plist0"), Raw("disc"), Raw("dsca"),
        Raw("pair0"), Raw("scan0"), Do("flush"), Poll("busy"), Try("plistQ"),
        Do("flush"), Raw("inquiry"), Raw("disc"), Raw("dsca"), Raw("scan0")>>
  <2>1. s \in Scripts(Mild)
    BY DEF Scripts, Mild, Steps, Kinds, Commands, Deeds
  <2>2. p = <<s>>
    BY <1>2 DEF ScanPlan
  <2> HIDE DEF s
  <2> QED
    BY <2>1, <2>2, OneScript
<1>3. CASE p = StatusPlan
  <2> DEFINE s == <<Need("nameQ"), Need("autoQ"), Need("stat")>>
  <2>1. s \in Scripts(Mild)
    BY DEF Scripts, Mild, Steps, Kinds, Commands, Deeds
  <2>2. p = <<s>>
    BY <1>3 DEF StatusPlan
  <2> HIDE DEF s
  <2> QED
    BY <2>1, <2>2, OneScript
<1>4. CASE p = WakePlan
  <2> DEFINE s == <<Need("nameQ"), Need("autoQ"), Poll("awake")>>
  <2>1. s \in Scripts(Mild)
    BY DEF Scripts, Mild, Steps, Kinds, Commands, Deeds
  <2>2. p = <<s>>
    BY <1>4 DEF WakePlan
  <2> HIDE DEF s
  <2> QED
    BY <2>1, <2>2, OneScript
<1>5. ASSUME NEW b \in BOOLEAN, p = ReconnectPlan(b) PROVE Calm(t, p)
  <2>1. Calm(t, ReconnectPlan(b))
    BY ReconnectCalm
  <2> QED
    BY <1>5, <2>1
<1>6. ASSUME NEW s \in {<<>>, <<Do("save")>>}, p = <<ConnectScript \o s>> PROVE Calm(t, p)
  <2>1. s \in Seq(Mild)
    <3>1. <<>> \in Seq(Mild) /\ <<Do("save")>> \in Seq(Mild)
      BY DEF Mild, Steps, Deeds
    <3> QED
      BY <3>1
  <2>2. ConnectScript \o s \in Seq(Mild) /\ Len(ConnectScript \o s) = Len(ConnectScript) + Len(s)
    BY <2>1, ConnectMild, ConcatProperties DEF Scripts
  <2>3. ConnectScript \o s \in Scripts(Mild)
    BY <2>1, <2>2, ConnectMild DEF Scripts
  <2> QED
    BY <1>6, <2>3, OneScript
<1>7. ASSUME NEW c \in {"disc", "auto3", "plistQ", "enc", "codec"}, p = <<<<Need(c)>>>>
      PROVE  Calm(t, p)
  <2>1. <<Need(c)>> \in Scripts(Mild)
    BY DEF Scripts, Mild, Steps, Kinds, Commands, Deeds
  <2> QED
    BY <1>7, <2>1, OneScript
<1>8. CASE p \in {<<<<Need("pair1"), Do("paired")>>>>, <<<<Need("pair0"), Do("unpaired")>>>>}
  <2>1. <<Need("pair1"), Do("paired")>> \in Scripts(Mild) /\ <<Need("pair0"), Do("unpaired")>> \in Scripts(Mild)
    BY DEF Scripts, Mild, Steps, Kinds, Commands, Deeds
  <2> QED
    BY <1>8, <2>1, OneScript
<1> QED
  BY <1>1, <1>2, <1>3, <1>4, <1>5, <1>6, <1>7, <1>8 DEF Errands

LEMMA Commanded ==
    ASSUME PlansInv, NEW t \in Tasks, Busy(t)
    PROVE  /\ Current(t).cmd \in Commands
           /\ Calm(t, plan[t]) \/ \E n \in 4..8 : Booting(plan[t], n)
<1>1. CASE Calm(t, plan[t])
  <2>1. Current(t) \in Mild
    BY <1>1, CalmParts, Rests DEF Busy, Current
  <2> QED
    BY <1>1, <2>1 DEF Busy, Mild, Steps
<1>2. ASSUME NEW n \in 1..9, Booting(plan[t], n)
      PROVE  n \in 4..8 /\ Current(t).cmd \in Commands
  <2>1. Current(t) = BootScript[n] /\ n \notin {1, 2, 3, 9}
    BY <1>2, Booted DEF Busy
  <2>2. n \in {4, 5, 6, 7, 8}
    BY <2>1
  <2> QED
    BY <2>1, <2>2, BootStep DEF Commands
<1>3. ~Cutting(plan[t])
  BY Cut DEF Busy
<1> QED
  BY <1>1, <1>2, <1>3 DEF PlansInv, Shaped

LEMMA DecideShaped ==
    ASSUME PlansInv, NEW t \in Tasks, Busy(t), NEW r, Decide(t, r)
    PROVE  /\ DOMAIN plan' = Tasks /\ \A u \in Others(t) : plan'[u] = plan[u]
           /\ Shaped(t, plan'[t])
<1>1. /\ DOMAIN plan' = Tasks /\ \A u \in Others(t) : plan'[u] = plan[u]
      /\ plan'[t] \in Following(t, r)
  BY Decided DEF PlansInv
<1>2. CASE Calm(t, plan[t])
  BY <1>1, <1>2, CalmFollows DEF Busy, Shaped
<1>3. ASSUME NEW n \in 4..8, Booting(plan[t], n) PROVE Shaped(t, plan'[t])
  <2>1. Booting(plan'[t], n + 1) \/ plan'[t] = ProbePlan
    BY <1>1, <1>3, BootFollows DEF Busy
  <2>2. n + 1 \in 1..9
    OBVIOUS
  <2> QED
    BY <2>1, <2>2, ProbeCalm DEF Shaped
<1> QED
  BY <1>1, <1>2, <1>3, Commanded

LEMMA ActShaped ==
    ASSUME PlansInv, NEW t \in Tasks, Act(t)
    PROVE  /\ DOMAIN plan' = Tasks /\ \A u \in Others(t) : plan'[u] = plan[u]
           /\ Shaped(t, plan'[t])
<1>1. /\ DOMAIN plan' = Tasks /\ \A u \in Others(t) : plan'[u] = plan[u]
      /\ Current(t) \notin {Do("probe"), Do("enter")} => plan'[t] = With(t, Rest(t))
      /\ Current(t).kind = "do"
  <2> DEFINE q == IF Current(t) = Do("probe") \/ (Current(t) = Do("enter") /\ ~booted)
                  THEN Instead(t) ELSE With(t, Rest(t))
  <2>1. plan' = [plan EXCEPT ![t] = q] /\ Current(t).kind = "do"
    BY DEF Act
  <2> HIDE DEF q
  <2>2. plan'[t] = q /\ DOMAIN plan' = Tasks /\ \A u \in Others(t) : plan'[u] = plan[u]
    BY <2>1 DEF PlansInv, Others
  <2> QED
    BY <2>1, <2>2 DEF q
<1>2. ASSUME Calm(t, plan[t]) PROVE Shaped(t, plan'[t])
  <2>1. Calm(t, plan'[t]) \/ Booting(plan'[t], 1)
    BY <1>2, ActCalm DEF PlansInv
  <2>2. 1 \in 1..9
    OBVIOUS
  <2> QED
    BY <2>1, <2>2 DEF Shaped
<1>3. ASSUME NEW n \in 1..9, Booting(plan[t], n) PROVE Shaped(t, plan'[t])
  <2>1. Current(t) = BootScript[n] /\ n \in {1, 2, 3, 9}
    BY <1>1, <1>3, Booted
  <2>2. Current(t) # Do("probe") /\ Current(t) # Do("enter")
    BY <2>1, BootStep
  <2>3. plan'[t] = With(t, Rest(t))
    BY <1>1, <2>2
  <2>4. CASE n < 9
    <3>1. Booting(plan'[t], n + 1) /\ n + 1 \in 1..9
      BY <1>3, <2>3, <2>4, Booted
    <3> QED
      BY <3>1 DEF Shaped
  <2>5. CASE n = 9
    BY <1>3, <2>3, <2>5, Booted DEF Shaped
  <2> QED
    BY <2>4, <2>5
<1>4. ASSUME Cutting(plan[t]) PROVE Shaped(t, plan'[t])
  <2>1. \/ Current(t) = Do("pinsLow") /\ With(t, Rest(t)) = <<<<Do("unbooted")>>>>
        \/ Current(t) = Do("unbooted") /\ With(t, Rest(t)) = <<>>
    <3>1. CASE plan[t] = ShutdownPlan
      BY <1>4, <3>1, Cut
    <3>2. CASE plan[t] = <<<<Do("unbooted")>>>>
      BY <1>4, <3>2, Cut
    <3> QED
      BY <1>4, <3>1, <3>2 DEF Cutting
  <2>3. Current(t) \notin {Do("probe"), Do("enter")}
    BY <2>1
  <2>2. plan'[t] = With(t, Rest(t))
    BY <1>1, <2>3
  <2> QED
    BY <2>1, <2>2, NothingCalm DEF Shaped, Cutting
<1> QED
  BY <1>1, <1>2, <1>3, <1>4 DEF PlansInv, Shaped

LEMMA Steadied ==
    ASSUME PlansInv, NEW t \in Tasks,
           DOMAIN plan' = Tasks, Shaped(t, plan'[t]),
           \A u \in Others(t) : plan'[u] = plan[u] /\ waiting'[u] = waiting[u],
           waiting' \in [Tasks -> BOOLEAN], waiting'[t] => Busy(t)',
           booted' \in BOOLEAN, crowded' \in BOOLEAN
    PROVE  PlansInv'
<1>1. ASSUME NEW u \in Others(t) PROVE Shaped(u, plan'[u]) /\ (waiting'[u] => Busy(u)')
  <2>1. plan'[u] = plan[u] /\ waiting'[u] = waiting[u] /\ u \in Tasks
    BY DEF Others
  <2>2. Busy(u) => Busy(u)'
    BY <2>1 DEF Busy, Current
  <2> QED
    BY <2>1, <2>2 DEF PlansInv
<1> QED
  BY <1>1 DEF PlansInv, Others

LEMMA CrowdingTyped == ASSUME NEW t, NEW b, crowded \in BOOLEAN, Crowding(t, b) PROVE crowded' \in BOOLEAN
BY DEF Crowding

LEMMA TaskPlans == ASSUME ShapeInv, NEW t \in Tasks, Task(t) PROVE PlansInv'
<1> USE DEF ShapeInv
<1>0. waiting \in [Tasks -> BOOLEAN] /\ booted \in BOOLEAN /\ crowded \in BOOLEAN
      /\ DOMAIN plan = Tasks /\ Shaped(t, plan[t]) /\ (waiting[t] => Busy(t))
  BY DEF PlansInv
<1>1. CASE Refused(t)
  <2>1. Busy(t) /\ ~waiting[t] /\ Decide(t, "refused")
        /\ waiting' = waiting /\ booted' = booted /\ crowded' = crowded
    BY <1>1 DEF Refused, Ready, Busy, driver
  <2> QED
    BY <1>0, <2>1, DecideShaped, Steadied
<1>2. CASE Exchange(t)
  <2>1. Busy(t) /\ ~waiting[t] /\ Crowding(t, FALSE) /\ waiting' = waiting /\ booted' = booted
    BY <1>2 DEF Exchange, Sends, Ready, Busy, driver
  <2>2. PICK e \in Executions(Current(t).cmd) : Collect(t, rx \o e.answer)
    BY <1>2 DEF Exchange
  <2>3. rx \o e.answer \in Seq(Answers)
    BY <2>1, Commanded, Answered DEF UartInv
  <2>4. PICK r : Decide(t, r)
    BY <2>2, <2>3, Collecting
  <2> QED
    BY <1>0, <2>1, <2>4, DecideShaped, Steadied, CrowdingTyped
<1>3. CASE Send(t)
  <2>1. Busy(t) /\ Crowding(t, FALSE) /\ waiting' = [waiting EXCEPT ![t] = TRUE]
        /\ plan' = plan /\ booted' = booted
    BY <1>3 DEF Send, Sends, Ready, Busy, driver
  <2>2. Busy(t)' /\ \A u \in Others(t) : waiting'[u] = waiting[u]
    BY <1>0, <2>1 DEF Busy, Current, Others
  <2> QED
    BY <1>0, <2>1, <2>2, Steadied, CrowdingTyped
<1>4. CASE Read(t)
  <2>1. waiting[t] /\ Collect(t, rx) /\ waiting' = [waiting EXCEPT ![t] = FALSE]
        /\ booted' = booted /\ crowded' = crowded
    BY <1>4 DEF Read, driver
  <2>2. Busy(t) /\ ~waiting'[t] /\ \A u \in Others(t) : waiting'[u] = waiting[u]
    BY <1>0, <2>1 DEF Others
  <2>3. PICK r : Decide(t, r)
    BY <2>1, Collecting DEF UartInv
  <2> QED
    BY <1>0, <2>1, <2>2, <2>3, DecideShaped, Steadied
<1>5. CASE Acts(t)
  <2>1. /\ Act(t) /\ waiting' = waiting /\ ~waiting[t]
        /\ booted' \in BOOLEAN /\ crowded' \in BOOLEAN
    <3>1. CASE PinsLow(t)
      BY <1>0, <3>1, CrowdingTyped DEF PinsLow, Act, driver
    <3>2. CASE PinsHigh(t)
      BY <1>0, <3>2 DEF PinsHigh, Act, driver
    <3>3. CASE Flush(t)
      <4>1. Crowding(t, Current(t) = Do("probe"))
        BY <3>3 DEF Flush
      <4>2. crowded' \in BOOLEAN
        BY <4>1 DEF Crowding
      <4> QED
        BY <1>0, <3>3, <4>2 DEF Flush, Act, driver
    <3>4. CASE SetBooted(t)
      BY <1>0, <3>4 DEF SetBooted, Act
    <3>5. CASE ClearBooted(t)
      BY <1>0, <3>5 DEF ClearBooted, Act
    <3>6. CASE SetPairing(t)
      BY <1>0, <3>6 DEF SetPairing, Act
    <3>7. CASE LinkIsUp(t)
      BY <1>0, <3>7 DEF LinkIsUp, Act
    <3> QED
      BY <1>5, <3>1, <3>2, <3>3, <3>4, <3>5, <3>6, <3>7 DEF Acts
  <2> QED
    BY <1>0, <2>1, ActShaped, Steadied
<1> QED
  BY <1>1, <1>2, <1>3, <1>4, <1>5 DEF Task

LEMMA BeginsPlans == ASSUME PlansInv, NEW t, NEW p, Begins(t, p) PROVE PlansInv'
<1>1. /\ t \in Tasks /\ t # "retry" /\ booted' = booted /\ waiting' = waiting
      /\ plan[t] = <<>> /\ plan' = [plan EXCEPT ![t] = p] /\ Crowding(t, Powers(p))
  BY DEF Begins, Start
<1>2. Shaped(t, p)
  <2>1. CASE p \in Errands
    BY <1>1, <2>1, ErrandsCalm DEF Shaped
  <2>2. CASE p = BootPlan(<<>>)
    <3>1. Booting(BootPlan(<<>>), 1)
      <4>1. <<>> \in Seq(Tries)
        OBVIOUS
      <4> QED
        BY <4>1, BootStarts
    <3> QED
      BY <2>2, <3>1 DEF Shaped
  <2>3. CASE p = ShutdownPlan
    BY <2>3 DEF Shaped, Cutting
  <2> QED
    BY <2>1, <2>2, <2>3 DEF Begins
<1>3. ~waiting[t]
  BY <1>1 DEF PlansInv, Busy
<1>4. DOMAIN plan' = Tasks /\ plan'[t] = p /\ \A u \in Others(t) : plan'[u] = plan[u]
  BY <1>1 DEF PlansInv, Others
<1>5. crowded' \in BOOLEAN
  BY <1>1 DEF Crowding
<1>6. PlansInv => waiting \in [Tasks -> BOOLEAN] /\ booted \in BOOLEAN
  BY DEF PlansInv
<1> QED
  BY <1>1, <1>2, <1>3, <1>4, <1>5, <1>6, Steadied

LEMMA SamePlans ==
    ASSUME PlansInv, UNCHANGED <<plan, waiting, booted, crowded>> PROVE PlansInv'
<1>1. \A t \in Tasks : Busy(t)' <=> Busy(t)
  BY DEF Busy, Current
<1> QED
  BY <1>1 DEF PlansInv

LEMMA PlansStep == ASSUME ShapeInv, BluetoothNext PROVE PlansInv'
<1>1. CASE CatchUp \/ LinkChanges
  BY <1>1, SamePlans DEF ShapeInv, CatchUp, LinkChanges, driver
<1>2. ASSUME NEW t \in Tasks, Task(t) PROVE PlansInv'
  BY <1>2, TaskPlans
<1>3. CASE Operation
  BY <1>3, Beginnings, BeginsPlans DEF ShapeInv
<1> QED
  BY <1>1, <1>2, <1>3 DEF BluetoothNext, Progress

LEMMA OffTyped == Off \in Chips /\ Off.on = FALSE /\ Off.config = {}
<1>1. Off \in Chips
  <2>1. {} \in SUBSET Config
    OBVIOUS
  <2> QED
    BY <2>1, Zenon DEF Chips, Off, LinkStates
<1> QED
  BY <1>1 DEF Off

LEMMA PoweredOff ==
    ASSUME chip \in Chips
    PROVE  /\ [Off EXCEPT !.auto = chip.auto] \in Chips
           /\ [Off EXCEPT !.auto = chip.auto].on = FALSE
BY OffTyped DEF Chips

LEMMA PoweredOn ==
    ASSUME chip \in Chips
    PROVE  /\ [chip EXCEPT !.on = TRUE] \in Chips
           /\ [chip EXCEPT !.on = TRUE].on
           /\ [chip EXCEPT !.on = TRUE].config = chip.config
BY DEF Chips

\* What is left in the UART by an exchange of a command for its answer.
LEMMA Exchanged ==
    ASSUME ShapeInv, NEW t \in Tasks, Exchange(t)
    PROVE  /\ Busy(t) /\ ~waiting[t] /\ Crowding(t, FALSE) /\ cmds = <<>>
           /\ waiting' = waiting /\ booted' = booted /\ cmds' = cmds /\ off' = off
           /\ \E e \in Executions(Current(t).cmd) :
                /\ chip' = e.chip
                /\ \E r : Decide(t, r) /\ r # "refused" /\ Learns(t, rx \o e.answer, r, rx')
<1>1. /\ Busy(t) /\ ~waiting[t] /\ Crowding(t, FALSE) /\ cmds = <<>>
      /\ waiting' = waiting /\ booted' = booted /\ cmds' = cmds /\ off' = off
  BY DEF Exchange, Sends, Ready, Busy, driver
<1>2. PICK e \in Executions(Current(t).cmd) : chip' = e.chip /\ Collect(t, rx \o e.answer)
  BY DEF Exchange, Execute
<1>3. rx \o e.answer \in Seq(Answers)
  BY <1>1, Commanded, Answered DEF ShapeInv, UartInv
<1>4. \E r : Decide(t, r) /\ r # "refused" /\ Learns(t, rx \o e.answer, r, rx')
  BY <1>2, <1>3, Collecting
<1> QED
  BY <1>1, <1>2, <1>4

LEMMA Sent ==
    ASSUME ShapeInv, NEW t \in Tasks, Send(t)
    PROVE  /\ Busy(t) /\ ~waiting[t] /\ Crowding(t, FALSE) /\ waiting' = [waiting EXCEPT ![t] = TRUE]
           /\ plan' = plan /\ booted' = booted /\ off' = off
           /\ \/ chip' = chip /\ rx' = rx /\ cmds' = Append(cmds, Current(t).cmd)
              \/ /\ cmds = <<>> /\ cmds' = cmds
                 /\ \E e \in Executions(Current(t).cmd) : chip' = e.chip /\ rx' = rx \o e.answer
BY DEF Send, Sends, Ready, Busy, driver

LEMMA HasRead ==
    ASSUME ShapeInv, NEW t \in Tasks, Read(t)
    PROVE  /\ Busy(t) /\ waiting[t] /\ waiting' = [waiting EXCEPT ![t] = FALSE]
           /\ UNCHANGED <<booted, chip, cmds, crowded, off>>
           /\ \E r : Decide(t, r) /\ r # "refused" /\ Learns(t, rx, r, rx')
<1>1. /\ waiting[t] /\ waiting' = [waiting EXCEPT ![t] = FALSE] /\ Collect(t, rx)
      /\ UNCHANGED <<booted, chip, cmds, crowded, off>>
  BY DEF Read, driver, history
<1>2. \E r : Decide(t, r) /\ r # "refused" /\ Learns(t, rx, r, rx')
  BY <1>1, Collecting DEF ShapeInv, UartInv
<1> QED
  BY <1>1, <1>2 DEF ShapeInv, PlansInv

LEMMA CaughtUp ==
    ASSUME ShapeInv, CatchUp
    PROVE  /\ cmds # <<>> /\ cmds' = Tail(cmds) /\ Head(cmds) \in Commands
           /\ UNCHANGED <<plan, waiting, booted, crowded, off>>
           /\ \E e \in Executions(Head(cmds)) : chip' = e.chip /\ rx' = rx \o e.answer
<1>1. /\ cmds # <<>> /\ cmds' = Tail(cmds) /\ UNCHANGED <<plan, waiting, booted, crowded, off>>
      /\ \E e \in Executions(Head(cmds)) : chip' = e.chip /\ rx' = rx \o e.answer
  BY DEF CatchUp, Execute, driver
<1>2. Head(cmds) \in Commands
  BY <1>1 DEF ShapeInv, UartInv
<1> QED
  BY <1>1, <1>2

LEMMA LinkChanged ==
    ASSUME UartInv, LinkChanges
    PROVE  /\ chip.on /\ chip'.on /\ chip'.config = chip.config /\ chip' \in Chips
           /\ UNCHANGED <<plan, waiting, booted, crowded, off, cmds>>
           /\ \E a \in Answers : rx' = Append(rx, a) /\ a.kind = "event" /\ a.body = chip'.link
<1>1. PICK l \in LinkStates : chip' = [chip EXCEPT !.link = l] /\ rx' = Append(rx, Answer("event", l))
  BY DEF LinkChanges
<1>2. chip.on /\ UNCHANGED <<plan, waiting, booted, crowded, off, cmds>>
  BY DEF LinkChanges, driver
<1>3. Answer("event", l) \in Answers /\ Answer("event", l).kind = "event" /\ Answer("event", l).body = l
  BY DEF Answer, Answers
<1>4. chip' \in Chips /\ chip'.on = chip.on /\ chip'.config = chip.config /\ chip'.link = l
  BY <1>1 DEF UartInv, Chips
<1> QED
  BY <1>1, <1>2, <1>3, <1>4

LEMMA AnsweredUart ==
    ASSUME UartInv, NEW c \in Commands, NEW e \in Executions(c)
    PROVE  /\ e.chip \in Chips /\ e.chip.on = chip.on /\ chip.config \subseteq e.chip.config
           /\ rx \o e.answer \in Seq(Answers)
BY Executing, Answered DEF UartInv, Advanced

LEMMA TaskUart == ASSUME ShapeInv, NEW t \in Tasks, Task(t) PROVE UartInv'
<1>0. chip \in Chips /\ cmds \in Seq(Commands) /\ rx \in Seq(Answers)
  BY DEF ShapeInv, UartInv
<1>1. CASE Refused(t)
  BY <1>0, <1>1 DEF Refused, uart, UartInv
<1>2. CASE Exchange(t)
  <2>1. Current(t).cmd \in Commands
    BY <1>2, Exchanged, Commanded DEF ShapeInv
  <2>2. PICK e \in Executions(Current(t).cmd) :
           chip' = e.chip /\ cmds' = cmds /\ \E r : Learns(t, rx \o e.answer, r, rx')
    BY <1>2, Exchanged
  <2> QED
    BY <1>0, <2>1, <2>2, AnsweredUart DEF ShapeInv, UartInv, Learns
<1>3. CASE Send(t)
  <2>1. Current(t).cmd \in Commands
    BY <1>3, Sent, Commanded DEF ShapeInv
  <2>2. CASE chip' = chip /\ rx' = rx /\ cmds' = Append(cmds, Current(t).cmd)
    BY <1>0, <2>1, <2>2 DEF UartInv
  <2>3. ASSUME NEW e \in Executions(Current(t).cmd), chip' = e.chip, rx' = rx \o e.answer, cmds' = cmds
        PROVE  UartInv'
    BY <1>0, <2>1, <2>3, AnsweredUart DEF ShapeInv, UartInv
  <2> QED
    BY <1>3, <2>2, <2>3, Sent
<1>4. CASE Read(t)
  BY <1>0, <1>4, HasRead DEF UartInv, Learns
<1>5. CASE PinsLow(t)
  BY <1>0, <1>5, PoweredOff DEF PinsLow, UartInv
<1>6. CASE PinsHigh(t)
  BY <1>0, <1>6, PoweredOn DEF PinsHigh, UartInv
<1>7. CASE Flush(t)
  <2>1. rx' = rx \/ rx' = <<>>
    BY <1>7 DEF Flush
  <2> QED
    BY <1>0, <1>7, <2>1 DEF Flush, UartInv
<1>8. CASE SetBooted(t) \/ ClearBooted(t) \/ SetPairing(t) \/ LinkIsUp(t)
  BY <1>0, <1>8 DEF SetBooted, ClearBooted, SetPairing, LinkIsUp, uart, UartInv
<1> QED
  BY <1>1, <1>2, <1>3, <1>4, <1>5, <1>6, <1>7, <1>8 DEF Task, Acts

LEMMA UartStep == ASSUME ShapeInv, BluetoothNext PROVE UartInv'
<1>1. CASE CatchUp
  <2>1. PICK e \in Executions(Head(cmds)) : chip' = e.chip /\ rx' = rx \o e.answer
    BY <1>1, CaughtUp
  <2>2. Head(cmds) \in Commands /\ cmds # <<>> /\ cmds' = Tail(cmds)
    BY <1>1, CaughtUp
  <2>3. e.chip \in Chips /\ rx \o e.answer \in Seq(Answers)
    BY <2>2, AnsweredUart DEF ShapeInv
  <2>4. Tail(cmds) \in Seq(Commands)
    BY <2>2 DEF ShapeInv, UartInv
  <2> QED
    BY <2>1, <2>2, <2>3, <2>4 DEF UartInv
<1>2. CASE LinkChanges
  BY <1>2, LinkChanged DEF ShapeInv, UartInv
<1>3. CASE Operation
  BY <1>3, Beginnings DEF Begins, Start, ShapeInv, UartInv, uart
<1> QED
  BY <1>1, <1>2, <1>3, TaskUart DEF BluetoothNext, Progress

LEMMA ShapeInitial == ASSUME BluetoothInit PROVE ShapeInv
<1>1. ASSUME NEW t \in Tasks PROVE Shaped(t, plan[t])
  <2>1. \/ t = "retry" /\ plan[t] = BootPlan(PostBoot)
        \/ t = "reconn" /\ plan[t] = ReconnectPlan(TRUE)
        \/ plan[t] = <<>>
    BY DEF BluetoothInit
  <2>2. Booting(BootPlan(PostBoot), 1)
    BY PostBootTries, BootStarts DEF Scripts
  <2>3. Calm("reconn", ReconnectPlan(TRUE))
    BY ReconnectCalm
  <2>4. 1 \in 1..9
    OBVIOUS
  <2> QED
    BY <2>1, <2>2, <2>3, <2>4, NothingCalm DEF Shaped
<1>2. PlansInv
  BY <1>1 DEF BluetoothInit, PlansInv
<1>3. chip \in Chips
  <2> DEFINE on == [Off EXCEPT !.on = TRUE, !.config = Config, !.auto = TRUE]
  <2>1. on \in Chips
    BY OffTyped DEF Chips
  <2>2. chip = on \/ chip = Off
    BY DEF BluetoothInit
  <2> QED
    BY <2>1, <2>2, OffTyped
<1>4. UartInv
  BY <1>3 DEF BluetoothInit, UartInv
<1> QED
  BY <1>2, <1>4 DEF ShapeInv

-----------------------------------------------------------------------------
(* While nobody interferes, the module is as the driver takes it to be, or   *)
(* one task alone brings it up or shuts it down.                             *)

Lone(t) == \A u \in Others(t) : Calm(u, plan[u]) /\ ~waiting[u]

\* What the module has taken of its configuration when step n of a boot comes next.
Taken(n) ==
    CASE n = 6 -> {"i2sMode"} [] n = 7 -> {"i2sMode", "i2sRole"} [] n >= 8 -> Config
      [] OTHER -> {}

\* The UART holds nothing but the answer to the step the boot is at.
Stage(t, n) ==
    /\ ~booted
    /\ n \in 2..7 /\ ~waiting[t] => cmds = <<>>
    /\ n >= 5 => chip.on
    /\ Taken(n) \subseteq chip.config
    /\ n \in 4..7 /\ ~waiting[t] => Spent(rx)
    /\ n \in 4..7 /\ waiting[t] =>
          \/ cmds = <<BootScript[n].cmd>> /\ Spent(rx)
          \/ /\ cmds = <<>> /\ Single(rx)
             /\ Says(rx) => chip.on /\ Taken(n + 1) \subseteq chip.config

Settled ==
    (\A t \in Tasks : Calm(t, plan[t])) /\ (booted => chip.on /\ chip.config = Config)
Rising(t, n) == Booting(plan[t], n) /\ Lone(t) /\ Stage(t, n)
Falling(t) ==
    Cutting(plan[t]) /\ Lone(t) /\ (plan[t] = <<<<Do("unbooted")>>>> => ~chip.on)

Steady ==
    \/ Settled
    \/ \E t \in Tasks : \E n \in 1..9 : Rising(t, n)
    \/ \E t \in Tasks : Falling(t)

PowerInv == ~crowded => Steady

LEMMA TakenNext ==
    ASSUME NEW n \in 4..7
    PROVE  Taken(n + 1) \subseteq Taken(n) \cup ({BootScript[n].cmd} \cap Config)
<1>1. /\ Taken(5) = {} /\ Taken(6) = {"i2sMode"} /\ Taken(7) = {"i2sMode", "i2sRole"}
      /\ Taken(8) = Config
  BY DEF Taken
<1>2. /\ BootScript[5].cmd = "i2sMode" /\ BootScript[6].cmd = "i2sRole"
      /\ BootScript[7].cmd = "codec"
  BY BootStep
<1>3. n = 4 \/ n = 5 \/ n = 6 \/ n = 7
  OBVIOUS
<1>4. CASE n = 4
  BY <1>1, <1>4
<1>5. CASE n = 5
  <2>1. n + 1 = 6 /\ BootScript[n].cmd = "i2sMode" /\ "i2sMode" \in Config
    BY <1>2, <1>5 DEF Config
  <2> QED
    BY <1>1, <2>1
<1>6. CASE n = 6
  <2>1. n + 1 = 7 /\ BootScript[n].cmd = "i2sRole" /\ "i2sRole" \in Config
    BY <1>2, <1>6 DEF Config
  <2> QED
    BY <1>1, <1>6, <2>1
<1>7. CASE n = 7
  <2>1. n + 1 = 8 /\ BootScript[n].cmd = "codec" /\ Config = {"i2sMode", "i2sRole", "codec"}
    BY <1>2, <1>7 DEF Config
  <2> QED
    BY <1>1, <1>7, <2>1
<1> QED
  BY <1>3, <1>4, <1>5, <1>6, <1>7

\* A task at its boot or its shutdown, and one that has no power.
LEMMA Exclusive ==
    ASSUME NEW t \in Tasks
    PROVE  /\ Calm(t, plan[t]) => ~Powering(t)
           /\ \A n \in 1..9 : Booting(plan[t], n) => Powering(t)
           /\ Cutting(plan[t]) => Powering(t)
BY Powerless, Powerful DEF Powering

\* Whoever uses the UART while another boots or shuts down gives it away.
LEMMA Crowds ==
    ASSUME NEW t, NEW u \in Others(t), Powering(t), t \in Others(u), NEW b, Crowding(u, b)
    PROVE  crowded'
BY DEF Crowding

LEMMA StaysCrowded ==
    ASSUME ShapeInv, BluetoothNext, crowded PROVE crowded'
<1>1. ASSUME NEW t \in Tasks, Task(t) PROVE crowded'
  <2>1. CASE Refused(t) \/ Read(t)
    BY <2>1 DEF Refused, Read
  <2>2. CASE Exchange(t) \/ Send(t)
    BY <2>2 DEF Exchange, Send, Crowding
  <2>3. CASE PinsLow(t) \/ Flush(t)
    <3>1. \E b : Crowding(t, b)
      BY <2>3 DEF PinsLow, Flush
    <3> QED
      BY <3>1 DEF Crowding
  <2>4. CASE PinsHigh(t) \/ SetBooted(t) \/ ClearBooted(t) \/ SetPairing(t) \/ LinkIsUp(t)
    BY <2>4 DEF PinsHigh, SetBooted, ClearBooted, SetPairing, LinkIsUp
  <2> QED
    BY <1>1, <2>1, <2>2, <2>3, <2>4 DEF Task, Acts
<1>2. CASE Operation
  BY <1>2, Beginnings DEF Begins, Start, Crowding
<1>3. CASE CatchUp \/ LinkChanges
  BY <1>3 DEF CatchUp, LinkChanges
<1> QED
  BY <1>1, <1>2, <1>3 DEF BluetoothNext, Progress

\* A task without power takes a step.
LEMMA CalmTask ==
    ASSUME ShapeInv, NEW t \in Tasks, Calm(t, plan[t]), Task(t)
    PROVE  /\ DOMAIN plan' = Tasks /\ \A u \in Others(t) : plan'[u] = plan[u] /\ waiting'[u] = waiting[u]
           /\ booted' = booted /\ off' = off
           /\ chip' \in Chips /\ chip'.on = chip.on /\ chip.config \subseteq chip'.config
           /\ \/ Calm(t, plan'[t])
              \/ /\ Booting(plan'[t], 1) /\ ~booted /\ t = "retry" /\ plan[t] # <<>>
                 /\ Crowding(t, TRUE) /\ ~waiting'[t]
<1>0. PlansInv /\ UartInv /\ waiting \in [Tasks -> BOOLEAN]
  BY DEF ShapeInv, PlansInv
<1>1. ASSUME Busy(t), NEW r, Decide(t, r)
      PROVE  DOMAIN plan' = Tasks /\ (\A u \in Others(t) : plan'[u] = plan[u]) /\ Calm(t, plan'[t])
  <2>1. DOMAIN plan' = Tasks /\ (\A u \in Others(t) : plan'[u] = plan[u]) /\ plan'[t] \in Following(t, r)
    BY <1>0, <1>1, Decided DEF PlansInv
  <2> QED
    BY <1>1, <2>1, CalmFollows DEF Busy
<1>2. CASE Refused(t)
  <2>1. Busy(t) /\ Decide(t, "refused")
    BY <1>2 DEF Refused, Ready, Busy
  <2>2. waiting' = waiting /\ booted' = booted /\ off' = off /\ chip' = chip
    BY <1>2 DEF Refused, driver, uart, history
  <2> QED
    BY <1>0, <1>1, <2>1, <2>2 DEF UartInv
<1>3. CASE Exchange(t)
  <2>1. Busy(t) /\ waiting' = waiting /\ booted' = booted /\ off' = off
    BY <1>3, Exchanged
  <2>2. PICK e \in Executions(Current(t).cmd) : chip' = e.chip /\ \E r : Decide(t, r)
    BY <1>3, Exchanged
  <2>3. e.chip \in Chips /\ e.chip.on = chip.on /\ chip.config \subseteq e.chip.config
    BY <1>0, <2>1, Commanded, AnsweredUart
  <2> QED
    BY <1>1, <2>1, <2>2, <2>3
<1>4. CASE Send(t)
  <2>1. /\ Busy(t) /\ waiting' = [waiting EXCEPT ![t] = TRUE] /\ plan' = plan
        /\ booted' = booted /\ off' = off
        /\ chip' = chip \/ \E e \in Executions(Current(t).cmd) : chip' = e.chip
    BY <1>4, Sent
  <2>2. chip' \in Chips /\ chip'.on = chip.on /\ chip.config \subseteq chip'.config
    BY <1>0, <2>1, Commanded, AnsweredUart DEF UartInv
  <2> QED
    BY <1>0, <2>1, <2>2 DEF PlansInv, Others
<1>5. CASE Read(t)
  <2>1. /\ Busy(t) /\ waiting' = [waiting EXCEPT ![t] = FALSE]
        /\ booted' = booted /\ off' = off /\ chip' = chip
    BY <1>5, HasRead
  <2>2. PICK r : Decide(t, r)
    BY <1>5, HasRead
  <2> QED
    BY <1>0, <1>1, <2>1, <2>2 DEF UartInv, Others
<1>6. CASE Acts(t)
  <2>1. Act(t)
    BY <1>6 DEF Acts, PinsLow, PinsHigh, Flush, SetBooted, ClearBooted, SetPairing, LinkIsUp
  <2>2. /\ Current(t) \in Mild /\ plan[t] # <<>> /\ ~waiting[t]
        /\ \/ Calm(t, plan'[t])
           \/ t = "retry" /\ Current(t) = Do("probe") /\ ~booted /\ Booting(plan'[t], 1)
    BY <1>0, <2>1, ActCalm DEF PlansInv, Act
  <2>3. DOMAIN plan' = Tasks /\ \A u \in Others(t) : plan'[u] = plan[u]
    BY <1>0, <2>1, ActShaped
  <2>4. CASE Flush(t)
    <3>1. /\ waiting' = waiting /\ booted' = booted /\ off' = off /\ chip' = chip
          /\ Crowding(t, Current(t) = Do("probe"))
      BY <2>4 DEF Flush, driver, history
    <3>2. Current(t) = Do("probe") => Crowding(t, TRUE)
      BY <3>1 DEF Crowding
    <3> QED
      BY <1>0, <2>2, <2>3, <3>1, <3>2 DEF UartInv
  <2>5. CASE SetPairing(t) \/ LinkIsUp(t)
    <3>1. waiting' = waiting /\ booted' = booted /\ off' = off /\ chip' = chip
      BY <2>5 DEF SetPairing, LinkIsUp, uart, history
    <3>2. Current(t) # Do("probe")
      <4>1. Current(t) \in {Do("paired"), Do("unpaired"), Do("up"), Do("save")}
        BY <2>5 DEF SetPairing, LinkIsUp
      <4> QED
        BY <4>1
    <3> QED
      BY <1>0, <2>2, <2>3, <3>1, <3>2 DEF UartInv
  <2>6. ~PinsLow(t) /\ ~PinsHigh(t) /\ ~SetBooted(t) /\ ~ClearBooted(t)
    BY <2>2 DEF PinsLow, PinsHigh, SetBooted, ClearBooted, Mild
  <2> QED
    BY <1>6, <2>4, <2>5, <2>6 DEF Acts
<1> QED
  BY <1>2, <1>3, <1>4, <1>5, <1>6 DEF Task

\* A task without power that does not disturb one that has power.
LEMMA Bystander ==
    ASSUME ShapeInv, NEW t \in Tasks, NEW u \in Others(t), Powering(t),
           Calm(u, plan[u]), ~waiting[u], Task(u), ~crowded'
    PROVE  /\ Calm(u, plan'[u]) /\ DOMAIN plan' = Tasks
           /\ \A v \in Others(u) : plan'[v] = plan[v]
           /\ UNCHANGED <<waiting, booted, chip, cmds, rx, off>>
<1>1. u \in Tasks /\ t \in Others(u)
  BY DEF Others
<1>2. ~Exchange(u) /\ ~Send(u)
  BY <1>1, Crowds DEF Exchange, Send
<1>3. ~PinsLow(u) /\ ~Flush(u)
  <2>1. \A b : ~Crowding(u, b)
    BY <1>1, Crowds
  <2> QED
    BY <2>1 DEF PinsLow, Flush
<1>4. ~Read(u)
  BY DEF Read
<1>5. CASE Refused(u)
  <2>1. Busy(u) /\ Decide(u, "refused") /\ UNCHANGED <<waiting, booted, chip, cmds, rx, off>>
    BY <1>5 DEF Refused, Ready, Busy, driver, uart, history
  <2>2. /\ DOMAIN plan' = Tasks /\ \A v \in Others(u) : plan'[v] = plan[v]
        /\ plan'[u] \in Following(u, "refused")
    BY <1>1, <2>1, Decided DEF ShapeInv, PlansInv
  <2> QED
    BY <1>1, <2>1, <2>2, CalmFollows DEF Busy
<1>6. CASE Acts(u)
  <2>1. Act(u)
    BY <1>6 DEF Acts, PinsLow, PinsHigh, Flush, SetBooted, ClearBooted, SetPairing, LinkIsUp
  <2>2. /\ Current(u) \in Mild
        /\ Calm(u, plan'[u]) \/ Current(u) = Do("probe")
    BY <1>1, <2>1, ActCalm DEF ShapeInv, PlansInv
  <2>3. DOMAIN plan' = Tasks /\ \A v \in Others(u) : plan'[v] = plan[v]
    BY <1>1, <2>1, ActShaped DEF ShapeInv
  <2>4. ~PinsHigh(u) /\ ~SetBooted(u) /\ ~ClearBooted(u)
    BY <2>2 DEF PinsHigh, SetBooted, ClearBooted, Mild
  <2>5. SetPairing(u) \/ LinkIsUp(u)
    BY <1>3, <1>6, <2>4 DEF Acts
  <2>6. Current(u) \in {Do("paired"), Do("unpaired"), Do("up"), Do("save")}
    BY <2>5 DEF SetPairing, LinkIsUp
  <2>7. Current(u) # Do("probe")
    BY <2>6
  <2>8. UNCHANGED <<waiting, booted, chip, cmds, rx, off>>
    BY <2>5 DEF SetPairing, LinkIsUp, uart, history
  <2> QED
    BY <2>2, <2>3, <2>7, <2>8
<1> QED
  BY <1>2, <1>4, <1>5, <1>6 DEF Task

\* An operation does not start unnoticed while a task has power.
LEMMA NoBeginning ==
    ASSUME ShapeInv, NEW t \in Tasks, Powering(t), NEW u, NEW p, Begins(u, p), ~crowded'
    PROVE  FALSE
<1>1. u \in Tasks /\ plan[u] = <<>> /\ Crowding(u, Powers(p))
  BY DEF Begins, Start
<1>2. ~Powering(u)
  BY <1>1, NothingCalm, Powerless DEF Powering
<1>3. u \in Others(t) /\ t \in Others(u)
  BY <1>1, <1>2 DEF Others
<1> QED
  BY <1>1, <1>3, Crowds

\* Something of its own that the module tells.
LEMMA EventAppended ==
    ASSUME rx \in Seq(Answers), NEW a \in Answers, a.kind = "event"
    PROVE  /\ Spent(rx) => Spent(Append(rx, a))
           /\ Single(rx) => Single(Append(rx, a))
           /\ Says(Append(rx, a)) => Says(rx)
<1> DEFINE text == Append(rx, a)
           n == Len(rx)
<1>1. n \in Nat /\ Len(text) = n + 1 /\ text[n + 1] = a /\ \A i \in 1..n : text[i] = rx[i]
  OBVIOUS
<1>2. text \in Seq(Answers)
  OBVIOUS
<1>3. DOMAIN text = 1..(n + 1) /\ DOMAIN rx = 1..n
  BY <1>1, <1>2
<1> HIDE DEF text, n
<1>4. \A i \in DOMAIN text : (i \in DOMAIN rx /\ text[i] = rx[i]) \/ text[i] = a
  BY <1>1, <1>3
<1>5. ~Final(a) /\ a.kind # "ok"
  BY DEF Final
<1>6. Spent(rx) => Spent(text)
  BY <1>4, <1>5 DEF Spent
<1>7. Single(rx) => Single(text)
  BY <1>4, <1>5 DEF Single
<1>8. Says(text) => Says(rx)
  BY <1>4, <1>5 DEF Says
<1> QED
  BY <1>6, <1>7, <1>8 DEF text

LEMMA SpentSilent == ASSUME NEW text, Spent(text) PROVE ~Says(text) /\ Single(text)
BY DEF Spent, Says, Single, Final

-----------------------------------------------------------------------------
(* One task alone boots the module.                                         *)

\* The others have not moved.
LEMMA StaysLone ==
    ASSUME NEW t, Lone(t), \A u \in Others(t) : plan'[u] = plan[u] /\ waiting'[u] = waiting[u]
    PROVE  Lone(t)'
BY DEF Lone, Others

LEMMA StaysLoneBy ==
    ASSUME NEW t \in Tasks, Lone(t), NEW u \in Others(t), Calm(u, plan'[u]), waiting' = waiting,
           \A v \in Others(u) : plan'[v] = plan[v]
    PROVE  Lone(t)' /\ plan'[t] = plan[t]
<1>1. ASSUME NEW v \in Others(t) PROVE Calm(v, plan'[v]) /\ ~waiting'[v]
  <2>1. CASE v = u
    BY <2>1 DEF Lone
  <2>2. CASE v # u
    BY <2>2 DEF Lone, Others
  <2> QED
    BY <2>1, <2>2
<1>2. t \in Others(u)
  BY DEF Others
<1> QED
  BY <1>1, <1>2 DEF Lone, Others

LEMMA GivenUp ==
    ASSUME NEW t \in Tasks, Lone(t), plan'[t] = ProbePlan, ~booted',
           \A u \in Others(t) : plan'[u] = plan[u]
    PROVE  Settled'
<1>1. ASSUME NEW u \in Tasks PROVE Calm(u, plan'[u])
  BY <1>1, ProbeCalm DEF Lone, Others
<1> QED
  BY <1>1 DEF Settled

\* A command of the boot is answered: the boot goes on, or is given up.
LEMMA RisingDecides ==
    ASSUME ShapeInv, NEW t \in Tasks, NEW n \in 4..7, Booting(plan[t], n), Lone(t), ~booted', Busy(t),
           NEW text, NEW r, r # "refused", Decide(t, r), Learns(t, text, r, rx'), Single(text),
           Says(text) => cmds' = <<>> /\ chip'.on /\ Taken(n + 1) \subseteq chip'.config,
           ~waiting'[t], \A u \in Others(t) : waiting'[u] = waiting[u]
    PROVE  Steady'
<1>1. /\ \A u \in Others(t) : plan'[u] = plan[u]
      /\ plan'[t] \in Following(t, r)
  BY Decided DEF ShapeInv, PlansInv
<1>2. n \in 1..9 /\ n # 8 /\ n + 1 \in 1..9
  OBVIOUS
<1>3. (Booting(plan'[t], n + 1) /\ r # "failed") \/ plan'[t] = ProbePlan
  BY <1>1, <1>2, BootFollows DEF Busy
<1>4. CASE plan'[t] = ProbePlan
  BY <1>1, <1>4, GivenUp DEF Steady
<1>5. CASE Booting(plan'[t], n + 1) /\ r # "failed"
  <2>1. Lone(t)'
    BY <1>1, StaysLone
  <2>2. Says(text) /\ Spent(rx')
    BY <1>5 DEF Learns
  <2>3. Spent(rx)'
    BY <2>2 DEF Spent
  <2>4. Stage(t, n + 1)'
    BY <2>2, <2>3 DEF Stage
  <2> QED
    BY <1>2, <1>5, <2>1, <2>4 DEF Steady, Rising
<1> QED
  BY <1>3, <1>4, <1>5

\* The last command of the boot, whatever is answered.
LEMMA RisingLast ==
    ASSUME ShapeInv, NEW t \in Tasks, Booting(plan[t], 8), Lone(t), ~booted', Busy(t),
           NEW r, Decide(t, r), chip'.on, Config \subseteq chip'.config,
           ~waiting'[t], \A u \in Others(t) : waiting'[u] = waiting[u]
    PROVE  Steady'
<1>1. /\ \A u \in Others(t) : plan'[u] = plan[u]
      /\ plan'[t] \in Following(t, r)
  BY Decided DEF ShapeInv, PlansInv
<1>2. Booting(plan'[t], 8 + 1)
  BY <1>1, BootFollows DEF Busy
<1>3. Lone(t)'
  BY <1>1, StaysLone
<1>4. Stage(t, 9)'
  BY DEF Stage, Taken
<1>5. 8 + 1 = 9 /\ 9 \in 1..9
  OBVIOUS
<1> QED
  BY <1>2, <1>3, <1>4, <1>5 DEF Steady, Rising

LEMMA BootCommand ==
    ASSUME ShapeInv, NEW t \in Tasks, NEW n \in 1..9, Booting(plan[t], n), Busy(t)
    PROVE  (n \in 4..7 \/ n = 8) /\ Current(t) = BootScript[n] /\ Current(t).cmd \in Commands
<1>1. Current(t) = BootScript[n] /\ n \notin {1, 2, 3, 9}
  BY Booted DEF Busy
<1> QED
  BY <1>1, Commanded DEF ShapeInv

LEMMA RisingExchange ==
    ASSUME ShapeInv, NEW t \in Tasks, NEW n \in 1..9, Rising(t, n), Exchange(t)
    PROVE  Steady'
<1>1. /\ Busy(t) /\ ~waiting[t] /\ cmds' = <<>> /\ waiting' = waiting /\ booted' = booted
      /\ Booting(plan[t], n) /\ Lone(t) /\ ~booted'
  BY Exchanged DEF Rising, Stage
<1>0. PICK e \in Executions(Current(t).cmd) :
         /\ chip' = e.chip
         /\ \E r : Decide(t, r) /\ r # "refused" /\ Learns(t, rx \o e.answer, r, rx')
  BY Exchanged
<1>2. PICK r : chip' = e.chip /\ Decide(t, r) /\ r # "refused" /\ Learns(t, rx \o e.answer, r, rx')
  BY <1>0
<1>3. (n \in 4..7 \/ n = 8) /\ Current(t) = BootScript[n] /\ Current(t).cmd \in Commands
  BY <1>1, BootCommand
<1>4. /\ e.chip.on = chip.on /\ chip.config \subseteq e.chip.config
      /\ Spent(rx) => Single(rx \o e.answer)
      /\ Spent(rx) /\ Says(rx \o e.answer) =>
            chip.on /\ (Current(t).cmd \in Config => Current(t).cmd \in e.chip.config)
  BY <1>3, AnsweredUart, Answered DEF ShapeInv, UartInv
<1>5. CASE n \in 4..7
  <2>1. Spent(rx) /\ Taken(n) \subseteq chip.config
    BY <1>1, <1>5 DEF Rising, Stage
  <2>2. Says(rx \o e.answer) => chip'.on /\ Taken(n + 1) \subseteq chip'.config
    BY <1>2, <1>3, <1>4, <1>5, <2>1, TakenNext
  <2> QED
    BY <1>1, <1>2, <1>4, <1>5, <2>1, <2>2, RisingDecides
<1>6. CASE n = 8
  <2>1. chip.on /\ Config \subseteq chip.config
    BY <1>6 DEF Rising, Stage, Taken
  <2> QED
    BY <1>1, <1>2, <1>4, <1>6, <2>1, RisingLast
<1> QED
  BY <1>3, <1>5, <1>6

LEMMA RisingRead ==
    ASSUME ShapeInv, NEW t \in Tasks, NEW n \in 1..9, Rising(t, n), Read(t)
    PROVE  Steady'
<1>1. /\ Busy(t) /\ waiting[t] /\ waiting' = [waiting EXCEPT ![t] = FALSE] /\ booted' = booted
      /\ chip' = chip /\ cmds' = cmds /\ Booting(plan[t], n) /\ Lone(t) /\ ~booted'
  BY HasRead DEF Rising, Stage
<1>2. PICK r : Decide(t, r) /\ r # "refused" /\ Learns(t, rx, r, rx')
  BY HasRead
<1>3. ~waiting'[t] /\ \A u \in Others(t) : waiting'[u] = waiting[u]
  BY <1>1 DEF ShapeInv, PlansInv, Others
<1>4. n \in 4..7 \/ n = 8
  BY <1>1, BootCommand
<1>5. CASE n \in 4..7
  <2>1. \/ Spent(rx)
        \/ cmds = <<>> /\ Single(rx) /\ (Says(rx) => chip.on /\ Taken(n + 1) \subseteq chip.config)
    BY <1>1, <1>5 DEF Rising, Stage
  <2>2. Single(rx) /\ (Says(rx) => cmds' = <<>> /\ chip'.on /\ Taken(n + 1) \subseteq chip'.config)
    BY <1>1, <2>1, SpentSilent
  <2> QED
    BY <1>1, <1>2, <1>3, <1>5, <2>2, RisingDecides
<1>6. CASE n = 8
  <2>1. chip.on /\ Config \subseteq chip.config
    BY <1>6 DEF Rising, Stage, Taken
  <2> QED
    BY <1>1, <1>2, <1>3, <1>6, <2>1, RisingLast
<1> QED
  BY <1>4, <1>5, <1>6

\* What is in the UART when the module has executed the command of step n.
LEMMA Executed ==
    ASSUME ShapeInv, NEW t \in Tasks, NEW n \in 4..7, Stage(t, n), Spent(rx),
           NEW e \in Executions(BootScript[n].cmd), chip' = e.chip, rx' = rx \o e.answer,
           cmds' = <<>>, booted' = booted, waiting'[t]
    PROVE  Stage(t, n)'
<1>1. BootScript[n].cmd \in Commands
  <2>1. n \in {4, 5, 6, 7}
    OBVIOUS
  <2> QED
    BY <2>1, BootStep DEF Commands
<1>2. /\ e.chip.on = chip.on /\ chip.config \subseteq e.chip.config
      /\ Single(rx \o e.answer)
      /\ Says(rx \o e.answer) =>
            chip.on /\ (BootScript[n].cmd \in Config => BootScript[n].cmd \in e.chip.config)
  BY <1>1, AnsweredUart, Answered DEF ShapeInv, UartInv
<1>3. Says(rx') => chip'.on /\ Taken(n + 1) \subseteq chip'.config
  BY <1>2, TakenNext DEF Stage
<1>4. Single(rx)' /\ (Says(rx)' => chip'.on /\ Taken(n + 1) \subseteq chip'.config)
  BY <1>2, <1>3 DEF Single, Says
<1> QED
  BY <1>2, <1>4 DEF Stage

LEMMA RisingSend ==
    ASSUME ShapeInv, NEW t \in Tasks, NEW n \in 1..9, Rising(t, n), Send(t)
    PROVE  Steady'
<1>1. /\ Busy(t) /\ ~waiting[t] /\ waiting' = [waiting EXCEPT ![t] = TRUE] /\ booted' = booted
      /\ plan' = plan /\ Booting(plan[t], n) /\ Lone(t) /\ Stage(t, n)
  BY Sent DEF Rising
<1>2. (n \in 4..7 \/ n = 8) /\ Current(t) = BootScript[n] /\ Current(t).cmd \in Commands
  BY <1>1, BootCommand
<1>3. waiting'[t] /\ \A u \in Others(t) : plan'[u] = plan[u] /\ waiting'[u] = waiting[u]
  BY <1>1 DEF ShapeInv, PlansInv, Others
<1>4. Stage(t, n)'
  <2>1. CASE n \in 4..7
    <3>1. cmds = <<>> /\ Spent(rx)
      BY <1>1, <2>1 DEF Stage
    <3>2. CASE chip' = chip /\ rx' = rx /\ cmds' = Append(cmds, Current(t).cmd)
      <4>1. cmds' = <<BootScript[n].cmd>>
        BY <1>2, <3>1, <3>2
      <4>2. Spent(rx)'
        BY <3>1, <3>2 DEF Spent
      <4> QED
        BY <1>1, <1>3, <2>1, <3>2, <4>1, <4>2 DEF Stage
    <3>3. ASSUME NEW e \in Executions(Current(t).cmd), chip' = e.chip, rx' = rx \o e.answer, cmds' = cmds
          PROVE  Stage(t, n)'
      BY <1>1, <1>2, <1>3, <2>1, <3>1, <3>3, Executed
    <3> QED
      BY <3>2, <3>3, Sent
  <2>2. CASE n = 8
    <3>1. chip'.on = chip.on /\ chip.config \subseteq chip'.config
      BY <1>2, Sent, AnsweredUart DEF ShapeInv
    <3> QED
      BY <1>1, <2>2, <3>1 DEF Stage
  <2> QED
    BY <1>2, <2>1, <2>2
<1>5. Lone(t)'
  BY <1>1, <1>3, StaysLone
<1> QED
  BY <1>1, <1>4, <1>5 DEF Steady, Rising

\* An act of the driver in its plan.
LEMMA ActsAct ==
    ASSUME PlansInv, NEW t \in Tasks, Acts(t)
    PROVE  /\ Act(t) /\ ~waiting[t] /\ plan[t] # <<>> /\ Current(t).kind = "do" /\ waiting' = waiting
           /\ DOMAIN plan' = Tasks /\ \A u \in Others(t) : plan'[u] = plan[u]
           /\ Current(t) \notin {Do("probe"), Do("enter")} => plan'[t] = With(t, Rest(t))
<1>1. Act(t) /\ waiting' = waiting
  BY DEF Acts, PinsLow, PinsHigh, Flush, SetBooted, ClearBooted, SetPairing, LinkIsUp
<1>2. DOMAIN plan' = Tasks /\ \A u \in Others(t) : plan'[u] = plan[u]
  BY <1>1, ActShaped
<1>3. Current(t) \notin {Do("probe"), Do("enter")} => plan'[t] = With(t, Rest(t))
  <2>1. CASE Current(t) \notin {Do("probe"), Do("enter")}
    <3>1. plan' = [plan EXCEPT ![t] = With(t, Rest(t))]
      BY <1>1, <2>1 DEF Act
    <3> QED
      BY <3>1 DEF PlansInv
  <2> QED
    BY <2>1
<1> QED
  BY <1>1, <1>2, <1>3 DEF Act

LEMMA WhichAct ==
    ASSUME NEW t, Acts(t)
    PROVE  /\ Current(t).cmd = "pinsLow" => PinsLow(t)
           /\ Current(t).cmd = "pinsHigh" => PinsHigh(t)
           /\ Current(t).cmd \in {"flush", "enter", "probe"} => Flush(t)
           /\ Current(t).cmd = "booted" => SetBooted(t)
           /\ Current(t).cmd = "unbooted" => ClearBooted(t)
<1>1. PinsLow(t) => Current(t).cmd = "pinsLow"
  BY DEF PinsLow
<1>2. PinsHigh(t) => Current(t).cmd = "pinsHigh"
  BY DEF PinsHigh
<1>3. Flush(t) => Current(t).cmd \in {"flush", "enter", "probe"}
  BY DEF Flush
<1>4. SetBooted(t) => Current(t).cmd = "booted"
  BY DEF SetBooted
<1>5. ClearBooted(t) => Current(t).cmd = "unbooted"
  BY DEF ClearBooted
<1>6. SetPairing(t) => Current(t).cmd \in {"paired", "unpaired"}
  BY DEF SetPairing
<1>7. LinkIsUp(t) => Current(t).cmd \in {"up", "save"}
  BY DEF LinkIsUp
<1> QED
  BY <1>1, <1>2, <1>3, <1>4, <1>5, <1>6, <1>7 DEF Acts

LEMMA TakenFirst == Taken(1) = {} /\ Taken(2) = {} /\ Taken(3) = {} /\ Taken(4) = {} /\ Taken(5) = {}
BY DEF Taken

LEMMA RisingActs ==
    ASSUME ShapeInv, NEW t \in Tasks, NEW n \in 1..9, Rising(t, n), Acts(t)
    PROVE  Steady'
<1>1. /\ ~waiting[t] /\ waiting' = waiting /\ \A u \in Others(t) : plan'[u] = plan[u]
      /\ Current(t) \notin {Do("probe"), Do("enter")} => plan'[t] = With(t, Rest(t))
  BY ActsAct DEF ShapeInv
<1>2. Booting(plan[t], n) /\ Lone(t) /\ Stage(t, n)
  BY DEF Rising
<1>3. Current(t) = BootScript[n] /\ n \in {1, 2, 3, 9}
  BY <1>2, ActsAct, Booted DEF ShapeInv
<1>4. plan'[t] = With(t, Rest(t)) /\ Lone(t)'
  <2>1. Current(t) \in {Do("pinsLow"), Do("pinsHigh"), Do("flush"), Do("booted")}
    BY <1>3, BootStep
  <2>2. Current(t) \notin {Do("probe"), Do("enter")}
    BY <2>1
  <2> QED
    BY <1>1, <1>2, <2>2, StaysLone
<1>5. n < 9 => Booting(plan'[t], n + 1)
  <2>1. n < 9 => Booting(With(t, Rest(t)), n + 1)
    BY <1>2, Booted
  <2> QED
    BY <1>4, <2>1
<1>6. CASE n = 1
  <2>1. Current(t) = Do("pinsLow")
    BY <1>3, <1>6, BootStep
  <2>2. PinsLow(t)
    BY <2>1, WhichAct
  <2>3. cmds' = <<>> /\ booted' = booted
    BY <2>2 DEF PinsLow, driver
  <2>4. Stage(t, 2)'
    BY <1>2, <2>3, TakenFirst DEF Stage
  <2>5. 2 \in 1..9 /\ 1 + 1 = 2
    OBVIOUS
  <2> QED
    BY <1>4, <1>5, <1>6, <2>4, <2>5 DEF Steady, Rising
<1>7. CASE n = 2
  <2>1. Current(t) = Do("pinsHigh")
    BY <1>3, <1>7, BootStep
  <2>2. PinsHigh(t)
    BY <2>1, WhichAct
  <2>3. cmds' = cmds /\ booted' = booted
    BY <2>2 DEF PinsHigh, driver
  <2>4. cmds = <<>>
    BY <1>1, <1>2, <1>7 DEF Stage
  <2>5. Stage(t, 3)'
    BY <1>2, <2>3, <2>4, TakenFirst DEF Stage
  <2>6. 3 \in 1..9 /\ 2 + 1 = 3
    OBVIOUS
  <2> QED
    BY <1>4, <1>5, <1>7, <2>5, <2>6 DEF Steady, Rising
<1>8. CASE n = 3
  <2>1. Current(t) = Do("flush")
    BY <1>3, <1>8, BootStep
  <2>2. Flush(t)
    BY <2>1, WhichAct
  <2>3. cmds' = cmds /\ booted' = booted /\ rx' = <<>>
    BY <2>1, <2>2 DEF Flush, driver
  <2>4. cmds = <<>>
    BY <1>1, <1>2, <1>8 DEF Stage
  <2>5. Spent(rx)'
    BY <2>3 DEF Spent
  <2>6. Stage(t, 4)'
    BY <1>1, <1>2, <2>3, <2>4, <2>5, TakenFirst DEF Stage
  <2>7. 4 \in 1..9 /\ 3 + 1 = 4
    OBVIOUS
  <2> QED
    BY <1>4, <1>5, <1>8, <2>6, <2>7 DEF Steady, Rising
<1>9. CASE n = 9
  <2>1. Current(t) = Do("booted")
    BY <1>3, <1>9, BootStep
  <2>2. SetBooted(t)
    BY <2>1, WhichAct
  <2>3. chip' = chip
    BY <2>2 DEF SetBooted, uart
  <2>4. chip.on /\ chip.config = Config
    <3>1. Taken(9) = Config
      BY DEF Taken
    <3>2. chip.on /\ Config \subseteq chip.config
      BY <1>2, <1>9, <3>1 DEF Stage
    <3>3. chip.config \subseteq Config
      BY DEF ShapeInv, UartInv, Chips
    <3> QED
      BY <3>2, <3>3
  <2>5. Calm(t, plan'[t])
    BY <1>2, <1>4, <1>9, Booted
  <2>6. \A u \in Tasks : Calm(u, plan'[u])
    BY <1>1, <1>2, <2>5 DEF Lone, Others
  <2> QED
    BY <2>3, <2>4, <2>6 DEF Steady, Settled
<1> QED
  BY <1>3, <1>6, <1>7, <1>8, <1>9

LEMMA RisingTask ==
    ASSUME ShapeInv, NEW t \in Tasks, NEW n \in 1..9, Rising(t, n), NEW u \in Tasks, Task(u), ~crowded'
    PROVE  Steady'
<1>1. Booting(plan[t], n) /\ Lone(t) /\ Stage(t, n)
  BY DEF Rising
<1>2. CASE u # t
  <2>1. u \in Others(t) /\ Calm(u, plan[u]) /\ ~waiting[u] /\ Powering(t)
    BY <1>1, <1>2, Exclusive DEF Lone, Others
  <2>2. /\ Calm(u, plan'[u]) /\ \A v \in Others(u) : plan'[v] = plan[v]
        /\ UNCHANGED <<waiting, booted, chip, cmds, rx>>
    BY <2>1, Bystander
  <2>3. Lone(t)' /\ plan'[t] = plan[t]
    BY <1>1, <2>1, <2>2, StaysLoneBy
  <2>4. Stage(t, n)'
    BY <1>1, <2>2 DEF Stage, Spent, Single, Says
  <2> QED
    BY <1>1, <2>3, <2>4 DEF Steady, Rising
<1>3. CASE u = t
  <2>1. ~Refused(t)
    <3>1. ASSUME Refused(t) PROVE FALSE
      <4>1. Busy(t) /\ ~Sends(t) /\ Ready(t)
        BY <3>1 DEF Refused, Ready, Busy
      <4>2. (n \in 4..7 \/ n = 8) /\ Current(t) = BootScript[n]
        BY <1>1, <4>1, BootCommand
      <4>3. n \in {4, 5, 6, 7, 8}
        BY <4>2
      <4>4. Current(t).kind \in {"must", "raw"}
        BY <4>2, <4>3, BootStep
      <4> QED
        BY <4>1, <4>4 DEF Sends, Guarded
    <3> QED
      BY <3>1
  <2> QED
    BY <1>3, <2>1, RisingExchange, RisingSend, RisingRead, RisingActs DEF Task
<1> QED
  BY <1>2, <1>3

LEMMA RisingCatchUp ==
    ASSUME ShapeInv, NEW t \in Tasks, NEW n \in 1..9, Rising(t, n), CatchUp
    PROVE  Steady'
<1>1. /\ cmds # <<>> /\ cmds' = Tail(cmds) /\ Head(cmds) \in Commands
      /\ UNCHANGED <<plan, waiting, booted>>
  BY CaughtUp
<1>2. PICK e \in Executions(Head(cmds)) : chip' = e.chip /\ rx' = rx \o e.answer
  BY CaughtUp
<1>3. Booting(plan[t], n) /\ Lone(t) /\ Stage(t, n)
  BY DEF Rising
<1>4. chip'.on = chip.on /\ chip.config \subseteq chip'.config
  BY <1>1, <1>2, AnsweredUart DEF ShapeInv
<1>5. Stage(t, n)'
  <2>1. CASE n = 1 \/ n >= 8
    BY <1>1, <1>3, <1>4, <2>1 DEF Stage
  <2>2. CASE n \in 2..7
    <3>1. waiting[t]
      BY <1>1, <1>3, <2>2 DEF Stage
    <3>2. n \in 4..7
      <4>1. Busy(t)
        BY <3>1 DEF ShapeInv, PlansInv
      <4> QED
        BY <1>3, <2>2, <4>1, BootCommand
    <3>3. cmds = <<BootScript[n].cmd>> /\ Spent(rx)
      BY <1>1, <1>3, <3>1, <3>2 DEF Stage
    <3>4. Head(cmds) = BootScript[n].cmd /\ Tail(cmds) = <<>>
      BY <3>3
    <3> QED
      BY <1>1, <1>2, <1>3, <3>1, <3>2, <3>3, <3>4, Executed
  <2>3. n = 1 \/ n >= 8 \/ n \in 2..7
    OBVIOUS
  <2> QED
    BY <2>1, <2>2, <2>3
<1>6. Lone(t)'
  BY <1>1, <1>3, StaysLone
<1> QED
  BY <1>1, <1>3, <1>5, <1>6 DEF Steady, Rising

LEMMA RisingLink ==
    ASSUME ShapeInv, NEW t \in Tasks, NEW n \in 1..9, Rising(t, n), LinkChanges
    PROVE  Steady'
<1>1. /\ chip.on /\ chip'.on /\ chip'.config = chip.config
      /\ UNCHANGED <<plan, waiting, booted, cmds>>
  BY LinkChanged DEF ShapeInv
<1>2. PICK a \in Answers : rx' = Append(rx, a) /\ a.kind = "event"
  BY LinkChanged DEF ShapeInv
<1>3. Booting(plan[t], n) /\ Lone(t) /\ Stage(t, n)
  BY DEF Rising
<1>4. /\ Spent(rx) => Spent(rx')
      /\ Single(rx) => Single(rx')
      /\ Says(rx') => Says(rx)
  BY <1>2, EventAppended DEF ShapeInv, UartInv
<1>5. (Spent(rx)' <=> Spent(rx')) /\ (Single(rx)' <=> Single(rx')) /\ (Says(rx)' <=> Says(rx'))
  BY DEF Spent, Single, Says
<1>6. Stage(t, n)'
  BY <1>1, <1>3, <1>4, <1>5 DEF Stage
<1>7. Lone(t)'
  BY <1>1, <1>3, StaysLone
<1> QED
  BY <1>1, <1>3, <1>6, <1>7 DEF Steady, Rising

LEMMA CutOrBoot == ASSUME NEW p, Cutting(p) PROVE \A n : ~Booting(p, n)
<1>1. ShutdownPlan = <<<<Do("pinsLow"), Do("unbooted")>>>>
  BY DEF ShutdownPlan
<1>2. Tail(p) = <<>>
  <2>1. CASE p = ShutdownPlan
    BY <1>1, <2>1
  <2>2. CASE p = <<<<Do("unbooted")>>>>
    BY <2>2
  <2> QED
    BY <2>1, <2>2 DEF Cutting
<1>3. <<<<Do("probe")>>>> # <<>>
  OBVIOUS
<1> QED
  BY <1>2, <1>3 DEF Booting

LEMMA CalmOrBoot == ASSUME NEW p, NEW t, Calm(t, p) PROVE \A n \in 1..9 : ~Booting(p, n)
BY Powerless, Powerful

\* The shutdown of a task.
LEMMA CutTask ==
    ASSUME ShapeInv, NEW t \in Tasks, Cutting(plan[t]), Task(t)
    PROVE  /\ waiting' = waiting /\ \A u \in Others(t) : plan'[u] = plan[u]
           /\ \/ /\ plan[t] = ShutdownPlan /\ plan'[t] = <<<<Do("unbooted")>>>> /\ ~chip'.on
                 /\ booted' = booted /\ off' = off
              \/ /\ plan[t] = <<<<Do("unbooted")>>>> /\ plan'[t] = <<>> /\ ~booted' /\ chip' = chip
                 /\ ClearBooted(t)
<1>1. ~Busy(t)
  BY Cut DEF Busy
<1>2. Acts(t)
  BY <1>1, Exchanged, Sent, HasRead DEF Task, Refused, Ready, Busy
<1>3. /\ waiting' = waiting /\ \A u \in Others(t) : plan'[u] = plan[u]
      /\ Current(t) \notin {Do("probe"), Do("enter")} => plan'[t] = With(t, Rest(t))
  BY <1>2, ActsAct DEF ShapeInv
<1>4. CASE plan[t] = ShutdownPlan
  <2>1. Current(t) = Do("pinsLow") /\ With(t, Rest(t)) = <<<<Do("unbooted")>>>>
    BY <1>4, Cut
  <2>2. Current(t) \notin {Do("probe"), Do("enter")} /\ Current(t).cmd = "pinsLow"
    BY <2>1
  <2>3. PinsLow(t)
    BY <1>2, <2>2, WhichAct
  <2>4. ~chip'.on /\ booted' = booted /\ off' = off
    BY <2>3, PoweredOff DEF PinsLow, driver, history, ShapeInv, UartInv
  <2> QED
    BY <1>3, <1>4, <2>1, <2>2, <2>4
<1>5. CASE plan[t] = <<<<Do("unbooted")>>>>
  <2>1. Current(t) = Do("unbooted") /\ With(t, Rest(t)) = <<>>
    BY <1>5, Cut
  <2>2. Current(t) \notin {Do("probe"), Do("enter")} /\ Current(t).cmd = "unbooted"
    BY <2>1
  <2>3. ClearBooted(t)
    BY <1>2, <2>2, WhichAct
  <2>4. ~booted' /\ chip' = chip
    BY <2>3 DEF ClearBooted, uart
  <2> QED
    BY <1>3, <1>5, <2>1, <2>2, <2>3, <2>4
<1> QED
  BY <1>4, <1>5 DEF Cutting

LEMMA ShutdownLonger == ShutdownPlan # <<<<Do("unbooted")>>>>
<1>1. Len(Head(ShutdownPlan)) = 2 /\ Len(Head(<<<<Do("unbooted")>>>>)) = 1
  BY DEF ShutdownPlan
<1> QED
  BY <1>1

LEMMA FallingStep ==
    ASSUME ShapeInv, NEW t \in Tasks, Falling(t), BluetoothNext, ~crowded'
    PROVE  Steady'
<1>1. /\ Cutting(plan[t]) /\ Lone(t) /\ Powering(t)
      /\ plan[t] = <<<<Do("unbooted")>>>> => ~chip.on
  BY Exclusive DEF Falling
<1>2. CASE CatchUp
  <2>1. chip'.on = chip.on /\ plan' = plan /\ waiting' = waiting
    BY <1>2, CaughtUp, AnsweredUart DEF ShapeInv
  <2> QED
    BY <1>1, <2>1, StaysLone DEF Steady, Falling
<1>3. CASE LinkChanges
  <2>1. chip.on /\ plan' = plan /\ waiting' = waiting
    BY <1>3, LinkChanged DEF ShapeInv
  <2> QED
    BY <1>1, <2>1, StaysLone DEF Steady, Falling
<1>4. CASE Operation
  BY <1>1, <1>4, Beginnings, NoBeginning
<1>5. ASSUME NEW u \in Tasks, Task(u), u # t PROVE Steady'
  <2>1. u \in Others(t) /\ Calm(u, plan[u]) /\ ~waiting[u]
    BY <1>1, <1>5 DEF Lone, Others
  <2>2. /\ Calm(u, plan'[u]) /\ \A v \in Others(u) : plan'[v] = plan[v]
        /\ UNCHANGED <<waiting, chip>>
    BY <1>1, <1>5, <2>1, Bystander
  <2>3. Lone(t)' /\ plan'[t] = plan[t]
    BY <1>1, <2>1, <2>2, StaysLoneBy
  <2> QED
    BY <1>1, <2>2, <2>3 DEF Steady, Falling
<1>6. CASE Task(t)
  <2>1. Lone(t)'
    BY <1>1, <1>6, CutTask, StaysLone
  <2>2. CASE plan'[t] = <<<<Do("unbooted")>>>> /\ ~chip'.on
    BY <2>1, <2>2 DEF Steady, Falling, Cutting
  <2>3. CASE plan'[t] = <<>> /\ ~booted'
    <3>1. \A u \in Tasks : Calm(u, plan'[u])
      BY <2>1, <2>3, NothingCalm DEF Lone, Others
    <3> QED
      BY <2>3, <3>1 DEF Steady, Settled
  <2> QED
    BY <1>1, <1>6, <2>2, <2>3, CutTask
<1> QED
  BY <1>2, <1>3, <1>4, <1>5, <1>6 DEF BluetoothNext, Progress

LEMMA RisingStep ==
    ASSUME ShapeInv, NEW t \in Tasks, NEW n \in 1..9, Rising(t, n), BluetoothNext, ~crowded'
    PROVE  Steady'
<1>1. Powering(t)
  BY Exclusive DEF Rising
<1>2. CASE Operation
  BY <1>1, <1>2, Beginnings, NoBeginning
<1> QED
  BY <1>2, RisingCatchUp, RisingLink, RisingTask DEF BluetoothNext, Progress

LEMMA SettledStep ==
    ASSUME ShapeInv, Settled, BluetoothNext, ~crowded'
    PROVE  Steady'
<1>1. (\A t \in Tasks : Calm(t, plan[t])) /\ (booted => chip.on /\ chip.config = Config)
  BY DEF Settled
<1>2. CASE CatchUp
  <2>1. PICK e \in Executions(Head(cmds)) : chip' = e.chip
    BY <1>2, CaughtUp
  <2>2. chip' \in Chips /\ chip'.on = chip.on /\ chip.config \subseteq chip'.config
        /\ plan' = plan /\ booted' = booted
    BY <1>2, <2>1, CaughtUp, AnsweredUart DEF ShapeInv
  <2>3. booted' => chip'.on /\ chip'.config = Config
    BY <1>1, <2>2 DEF Chips
  <2> QED
    BY <1>1, <2>2, <2>3 DEF Steady, Settled
<1>3. CASE LinkChanges
  <2>1. chip'.on /\ chip'.config = chip.config /\ plan' = plan /\ booted' = booted
    BY <1>3, LinkChanged DEF ShapeInv
  <2> QED
    BY <1>1, <2>1 DEF Steady, Settled
<1>4. ASSUME NEW t \in Tasks, Task(t) PROVE Steady'
  <2>1. /\ \A u \in Others(t) : plan'[u] = plan[u] /\ waiting'[u] = waiting[u]
        /\ booted' = booted /\ chip' \in Chips /\ chip'.on = chip.on /\ chip.config \subseteq chip'.config
        /\ \/ Calm(t, plan'[t])
           \/ Booting(plan'[t], 1) /\ ~booted /\ Crowding(t, TRUE) /\ ~waiting'[t]
    BY <1>1, <1>4, CalmTask
  <2>2. CASE Calm(t, plan'[t])
    <3>1. \A u \in Tasks : Calm(u, plan'[u])
      BY <1>1, <2>1, <2>2 DEF Others
    <3>2. booted' => chip'.on /\ chip'.config = Config
      BY <1>1, <2>1 DEF Chips
    <3> QED
      BY <3>1, <3>2 DEF Steady, Settled
  <2>3. CASE Booting(plan'[t], 1) /\ ~booted /\ Crowding(t, TRUE)
    <3>1. \A u \in Others(t) : ~waiting[u]
      BY <2>3 DEF Crowding
    <3>2. Lone(t)'
      BY <1>1, <2>1, <3>1 DEF Lone, Others
    <3>3. Stage(t, 1)'
      BY <2>1, <2>3, TakenFirst DEF Stage
    <3>4. 1 \in 1..9
      OBVIOUS
    <3> QED
      BY <2>3, <3>2, <3>3, <3>4 DEF Steady, Rising
  <2> QED
    BY <2>1, <2>2, <2>3
<1>5. ASSUME NEW t, NEW p, Begins(t, p) PROVE Steady'
  <2>1. /\ t \in Tasks /\ t # "retry" /\ plan' = [plan EXCEPT ![t] = p] /\ waiting' = waiting
        /\ booted' = booted /\ chip' = chip /\ Crowding(t, Powers(p))
    BY <1>5 DEF Begins, Start, uart
  <2>2. plan'[t] = p /\ \A u \in Others(t) : plan'[u] = plan[u]
    BY <2>1 DEF ShapeInv, PlansInv, Others
  <2>3. Powers(p) => Lone(t)'
    <3>1. Powers(p) => \A u \in Others(t) : ~waiting[u]
      BY <2>1 DEF Crowding
    <3> QED
      BY <1>1, <2>1, <2>2, <3>1 DEF Lone, Others
  <2>4. CASE p \in Errands
    <3>1. \A u \in Tasks : Calm(u, plan'[u])
      BY <1>1, <2>1, <2>2, <2>4, ErrandsCalm DEF Others
    <3> QED
      BY <1>1, <2>1, <3>1 DEF Steady, Settled
  <2>5. CASE p = BootPlan(<<>>) /\ ~booted
    <3>1. 1 \in 1..9 /\ <<>> \in Seq(Tries)
      OBVIOUS
    <3>2. Booting(p, 1)
      BY <2>5, <3>1, BootStarts
    <3>3. Stage(t, 1)'
      BY <2>1, <2>5, TakenFirst DEF Stage
    <3>4. Lone(t)'
      BY <2>3, <3>1, <3>2, Powerful
    <3> QED
      BY <2>1, <2>2, <3>1, <3>2, <3>3, <3>4 DEF Steady, Rising
  <2>6. CASE p = ShutdownPlan
    <3>1. Cutting(p)
      BY <2>6 DEF Cutting
    <3>2. Lone(t)'
      BY <2>3, <3>1, Powerful
    <3>3. Falling(t)'
      BY <2>2, <2>6, <3>1, <3>2, ShutdownLonger DEF Falling
    <3> QED
      BY <2>1, <3>3 DEF Steady
  <2> QED
    BY <1>5, <2>4, <2>5, <2>6 DEF Begins
<1> QED
  BY <1>2, <1>3, <1>4, <1>5, Beginnings DEF BluetoothNext, Progress

LEMMA PowerStep == ASSUME ShapeInv, PowerInv, BluetoothNext PROVE PowerInv'
<1>1. ASSUME ~crowded' PROVE Steady'
  <2>1. Steady
    BY <1>1, StaysCrowded DEF PowerInv
  <2> QED
    BY <1>1, <2>1, SettledStep, RisingStep, FallingStep DEF Steady
<1> QED
  BY <1>1 DEF PowerInv

LEMMA PowerInitial == ASSUME BluetoothInit PROVE PowerInv
<1>1. waiting = [t \in Tasks |-> FALSE] /\ booted \in BOOLEAN
  BY DEF BluetoothInit
<1>2. ASSUME NEW t \in Tasks, t # "retry" \/ booted PROVE Calm(t, plan[t])
  <2>1. \/ t = "retry" /\ ~booted
        \/ t = "reconn" /\ plan[t] = ReconnectPlan(TRUE)
        \/ plan[t] = <<>>
    BY DEF BluetoothInit
  <2>2. t # "retry" => Calm(t, ReconnectPlan(TRUE))
    BY ReconnectCalm
  <2> QED
    BY <1>2, <2>1, <2>2, NothingCalm
<1>3. CASE booted
  <2> DEFINE on == [Off EXCEPT !.on = TRUE, !.config = Config, !.auto = TRUE]
  <2>1. chip = on
    BY <1>3 DEF BluetoothInit
  <2>2. on.on /\ on.config = Config
    BY OffTyped DEF Chips
  <2> HIDE DEF on
  <2> QED
    BY <1>2, <1>3, <2>1, <2>2 DEF PowerInv, Steady, Settled
<1>4. CASE ~booted
  <2>1. "retry" \in Tasks /\ 1 \in 1..9
    BY DEF Tasks
  <2>2. plan["retry"] = BootPlan(PostBoot)
    BY <1>4, <2>1 DEF BluetoothInit
  <2>3. Booting(plan["retry"], 1)
    BY <2>2, PostBootTries, BootStarts DEF Scripts
  <2>4. Lone("retry")
    BY <1>1, <1>2 DEF Lone, Others
  <2>5. Stage("retry", 1)
    BY <1>4, TakenFirst DEF Stage
  <2> QED
    BY <2>1, <2>3, <2>4, <2>5 DEF PowerInv, Steady, Rising
<1> QED
  BY <1>1, <1>3, <1>4

-----------------------------------------------------------------------------
(* Once it is cut, nothing is left that would bring the power back.         *)

OffInv ==
    off = "cut" =>
      /\ ~booted /\ ~chip.on /\ plan["retry"] = <<>>
      /\ \A t \in Tasks, n \in 1..9 : ~Booting(plan[t], n)

LEMMA TaskBusy == ASSUME PlansInv, NEW t \in Tasks, Task(t) PROVE plan[t] # <<>>
<1>1. Read(t) => Busy(t)
  BY DEF Read, PlansInv
<1>2. Acts(t) => plan[t] # <<>>
  BY ActsAct
<1> QED
  BY <1>1, <1>2 DEF Task, Refused, Exchange, Send, Sends, Ready, Busy

LEMMA StaysOff ==
    ASSUME ShapeInv, OffInv, BluetoothNext, off = "cut", off' = "cut" PROVE OffInv'
<1>0. /\ ~booted /\ ~chip.on /\ plan["retry"] = <<>> /\ "retry" \in Tasks
      /\ \A t \in Tasks, n \in 1..9 : ~Booting(plan[t], n)
  BY DEF OffInv, Tasks
<1>1. CASE CatchUp
  <2>1. chip'.on = chip.on /\ plan' = plan /\ booted' = booted
    BY <1>1, CaughtUp, AnsweredUart DEF ShapeInv
  <2> QED
    BY <1>0, <2>1 DEF OffInv
<1>2. CASE LinkChanges
  BY <1>0, <1>2, LinkChanged DEF ShapeInv
<1>3. ASSUME NEW t \in Tasks, Task(t) PROVE OffInv'
  <2>1. t # "retry" /\ plan[t] # <<>>
    BY <1>0, <1>3, TaskBusy DEF ShapeInv
  <2>2. Calm(t, plan[t]) \/ Cutting(plan[t])
    BY <1>0 DEF ShapeInv, PlansInv, Shaped
  <2>3. /\ ~booted' /\ ~chip'.on /\ \A u \in Others(t) : plan'[u] = plan[u]
        /\ Calm(t, plan'[t]) \/ Cutting(plan'[t])
    <3>1. CASE Calm(t, plan[t])
      BY <1>0, <1>3, <2>1, <3>1, CalmTask
    <3>2. CASE Cutting(plan[t])
      BY <1>0, <1>3, <3>2, CutTask, NothingCalm DEF Cutting
    <3> QED
      BY <2>2, <3>1, <3>2
  <2>4. \A n \in 1..9 : ~Booting(plan'[t], n)
    BY <2>3, CalmOrBoot, CutOrBoot
  <2> QED
    BY <1>0, <2>1, <2>3, <2>4 DEF OffInv, Others
<1>4. ASSUME NEW t, NEW p, Begins(t, p) PROVE OffInv'
  <2>1. /\ t \in Tasks /\ t # "retry" /\ plan' = [plan EXCEPT ![t] = p]
        /\ booted' = booted /\ chip' = chip
    BY <1>4 DEF Begins, Start, uart
  <2>2. p \in Errands
    BY <1>0, <1>4 DEF Begins
  <2>3. \A n \in 1..9 : ~Booting(p, n)
    BY <2>1, <2>2, ErrandsCalm, CalmOrBoot
  <2>4. plan'[t] = p /\ \A u \in Others(t) : plan'[u] = plan[u]
    BY <2>1 DEF ShapeInv, PlansInv, Others
  <2> QED
    BY <1>0, <2>1, <2>3, <2>4 DEF OffInv, Others
<1> QED
  BY <1>1, <1>2, <1>3, <1>4, Beginnings DEF BluetoothNext, Progress

LEMMA CutOff ==
    ASSUME ShapeInv, PowerInv, BluetoothNext, off # "cut", off' = "cut" PROVE OffInv'
<1>1. ~CatchUp /\ ~LinkChanges /\ ~Operation
  BY CaughtUp, LinkChanged, Beginnings DEF ShapeInv, Begins
<1>2. PICK t \in Tasks : Task(t)
  BY <1>1 DEF BluetoothNext, Progress
<1>3. ~Calm(t, plan[t])
  BY <1>2, CalmTask
<1>4. ASSUME NEW n \in 1..9, Booting(plan[t], n) PROVE FALSE
  <2>1. ClearBooted(t)
    BY <1>2 DEF Task, Refused, Exchange, Send, Read, Acts, PinsLow, PinsHigh, Flush, SetBooted,
                SetPairing, LinkIsUp, history
  <2>2. Current(t) = Do("unbooted")
    BY <2>1 DEF ClearBooted
  <2>3. Current(t) = BootScript[n] /\ Current(t).kind = "do"
    <3>1. Current(t) = BootScript[n]
      BY <1>4, Booted
    <3> QED
      BY <2>2, <3>1
  <2>4. n \in {1, 2, 3, 9}
    BY <1>4, <2>3, Booted
  <2>5. Current(t).cmd # "unbooted"
    BY <2>3, <2>4, BootStep
  <2> QED
    BY <2>2, <2>5
<1>5. Cutting(plan[t])
  BY <1>3, <1>4 DEF ShapeInv, PlansInv, Shaped
<1>6. /\ \A u \in Others(t) : plan'[u] = plan[u]
      /\ plan[t] = <<<<Do("unbooted")>>>> /\ plan'[t] = <<>> /\ ~booted' /\ chip' = chip
      /\ ClearBooted(t)
  BY <1>2, <1>5, CutTask
<1>7. ~crowded /\ plan["retry"] = <<>> /\ \A u \in Others(t) : ~Powering(u)
  BY <1>6 DEF ClearBooted
<1>8. ~chip.on
  <2>1. ~Settled
    BY <1>3 DEF Settled
  <2>2. ASSUME NEW u \in Tasks, NEW n \in 1..9, Rising(u, n) PROVE FALSE
    <3>1. u = t
      BY <1>7, <2>2, Exclusive DEF Rising, Others
    <3> QED
      BY <1>4, <2>2, <3>1 DEF Rising
  <2>3. ASSUME NEW u \in Tasks, Falling(u) PROVE ~chip.on
    <3>1. u = t
      BY <1>7, <2>3, Exclusive DEF Falling, Others
    <3> QED
      BY <1>6, <2>3, <3>1 DEF Falling
  <2> QED
    BY <1>7, <2>1, <2>2, <2>3 DEF PowerInv, Steady
<1>9. \A u \in Tasks, n \in 1..9 : ~Booting(plan'[u], n)
  <2>1. ASSUME NEW u \in Others(t), NEW n \in 1..9 PROVE ~Booting(plan'[u], n)
    BY <1>6, <1>7, Exclusive DEF Others
  <2>2. \A n \in 1..9 : ~Booting(plan'[t], n)
    BY <1>6 DEF Booting
  <2> QED
    BY <2>1, <2>2 DEF Others
<1>10. plan'["retry"] = <<>>
  <2>1. "retry" \in Tasks /\ t # "retry"
    BY <1>6, <1>7 DEF Tasks
  <2> QED
    BY <1>6, <1>7, <2>1 DEF Others
<1> QED
  BY <1>6, <1>8, <1>9, <1>10 DEF OffInv

LEMMA OffStep == ASSUME ShapeInv, PowerInv, OffInv, BluetoothNext PROVE OffInv'
<1>1. CASE off' # "cut"
  BY <1>1 DEF OffInv
<1>2. CASE off' = "cut"
  BY <1>2, StaysOff, CutOff
<1> QED
  BY <1>1, <1>2

LEMMA PowerFrame == ASSUME UNCHANGED bluetoothVars, ShapeInv, PowerInv, OffInv PROVE ShapeInv' /\ PowerInv' /\ OffInv'
<1>1. UNCHANGED <<plan, waiting, booted, chip, cmds, rx, crowded, off>>
  BY DEF bluetoothVars
<1>2. PlansInv' /\ UartInv'
  BY <1>1, SamePlans DEF ShapeInv, UartInv
<1>3. ASSUME NEW t, Lone(t) PROVE Lone(t)'
  BY <1>1, <1>3 DEF Lone, Others
<1>4. ASSUME NEW t, NEW n, Stage(t, n) PROVE Stage(t, n)'
  BY <1>1, <1>4 DEF Stage, Spent, Single, Says
<1>5. Settled => Settled'
  BY <1>1 DEF Settled
<1>6. \A t \in Tasks, n \in 1..9 : Rising(t, n) => Rising(t, n)'
  BY <1>1, <1>3, <1>4 DEF Rising
<1>7. \A t \in Tasks : Falling(t) => Falling(t)'
  BY <1>1, <1>3 DEF Falling
<1>8. PowerInv'
  BY <1>1, <1>5, <1>6, <1>7 DEF PowerInv, Steady
<1>9. OffInv'
  BY <1>1 DEF OffInv
<1> QED
  BY <1>2, <1>8, <1>9 DEF ShapeInv

-----------------------------------------------------------------------------
\* Plans, UART and power keep to their shapes, whoever runs when, however late,
\* lost or misread an answer is (Bt1035Driver, BluetoothService,
\* bt1035RetryTask).
THEOREM BluetoothPower == BluetoothSpec => [](ShapeInv /\ PowerInv /\ OffInv)
<1>1. BluetoothInit => ShapeInv /\ PowerInv /\ OffInv
  BY ShapeInitial, PowerInitial DEF BluetoothInit, OffInv
<1>2. ShapeInv /\ PowerInv /\ OffInv /\ [BluetoothNext]_bluetoothVars => (ShapeInv /\ PowerInv /\ OffInv)'
  <2> SUFFICES ASSUME ShapeInv, PowerInv, OffInv, [BluetoothNext]_bluetoothVars
               PROVE  ShapeInv' /\ PowerInv' /\ OffInv'
    OBVIOUS
  <2>1. CASE BluetoothNext
    BY <2>1, PlansStep, UartStep, PowerStep, OffStep DEF ShapeInv
  <2>2. CASE UNCHANGED bluetoothVars
    BY <2>2, PowerFrame
  <2> QED
    BY <2>1, <2>2
<1> QED
  BY <1>1, <1>2, PTL DEF BluetoothSpec

\* Unless another task used the UART amid a boot or a shutdown, a booted module
\* is on and has taken the init sequence (boot, resetAndInitOnce).
THEOREM BootedIsConfiguredHolds == BluetoothSpec => []BootedIsConfigured
<1>1. ShapeInv /\ PowerInv => BootedIsConfigured
  <2> SUFFICES ASSUME ShapeInv, PowerInv, booted, ~crowded, \A t \in Tasks : ~Powering(t)
               PROVE  chip.on /\ chip.config = Config
    BY DEF BootedIsConfigured
  <2>1. Settled
    BY Exclusive DEF PowerInv, Steady, Rising, Falling
  <2> QED
    BY <2>1 DEF Settled
<1> QED
  BY <1>1, BluetoothPower, PTL

\* A disable that has cut the power on its own is undone by nothing but an
\* enable (shutdown, boot, bt1035RetryTask).
THEOREM OffStaysOffHolds == BluetoothSpec => []OffStaysOff
<1>1. OffInv => OffStaysOff
  BY DEF OffInv, OffStaysOff
<1> QED
  BY <1>1, BluetoothPower, PTL

-----------------------------------------------------------------------------
(* A connect comes to its end by way of a link that streams.                *)

In(x, s) == \E i \in DOMAIN s : s[i] = x

\* Before it is up a script waits for the link to stream, and does not flush
\* the UART after that.
Safe(s) ==
    In(Do("up"), s) =>
      \E j \in DOMAIN s :
         /\ s[j] = Poll("streaming")
         /\ \A k \in DOMAIN s : /\ k >= j => s[k] # Do("flush")
                                /\ k <= j => s[k] # Do("up")

\* The steps of a connect that are not skipped, and the waits that flush.
Tame(s) ==
    In(Do("up"), s) =>
      \A i \in DOMAIN s : /\ s[i].kind # "busy"
                          /\ s[i].kind = "playing" => i + 1 \in DOMAIN s /\ s[i + 1] = Poll("streaming")

\* Scripts that have not begun.
Unbegun(s) == Tame(s) /\ Safe(s) /\ (In(Do("up"), s) => In(Do("flush"), s))
UnbegunScripts == {s \in Scripts(Steps) : Unbegun(s)}

Quiet == Steps \ {Do("up")}
Plain == {s \in Quiet : s # Do("flush") /\ s.kind \notin {"busy", "playing"}}

LEMMA QuietNotUp == ASSUME NEW s \in Seq(Quiet) PROVE ~In(Do("up"), s) /\ Tame(s) /\ Safe(s)
<1>1. \A i \in DOMAIN s : s[i] \in Quiet
  OBVIOUS
<1>2. ~In(Do("up"), s)
  BY <1>1 DEF In, Quiet
<1> QED
  BY <1>2 DEF Tame, Safe

LEMMA QuietFresh == ASSUME NEW s \in Scripts(Quiet) PROVE s \in UnbegunScripts
<1>1. s \in Seq(Quiet) /\ s # <<>>
  BY DEF Scripts
<1>2. s \in Seq(Steps)
  BY <1>1, SeqMonotonic DEF Quiet
<1> QED
  BY <1>1, <1>2, QuietNotUp DEF UnbegunScripts, Unbegun, Scripts

\* Plain steps in front of a script.
LEMMA Prefixed ==
    ASSUME NEW b \in Seq(Plain), NEW s \in Seq(Steps)
    PROVE  /\ b \o s \in Seq(Steps)
           /\ In(Do("up"), b \o s) <=> In(Do("up"), s)
           /\ In(Do("flush"), b \o s) <=> In(Do("flush"), s)
           /\ Tame(s) => Tame(b \o s)
           /\ Safe(s) => Safe(b \o s)
<1> DEFINE a == b \o s
           m == Len(b)
           n == Len(s)
<1>0. b \in Seq(Steps)
  BY SeqMonotonic DEF Plain, Quiet
<1>1. /\ m \in Nat /\ n \in Nat /\ a \in Seq(Steps) /\ Len(a) = m + n
      /\ \A i \in 1..m + n : a[i] = IF i <= m THEN b[i] ELSE s[i - m]
  BY <1>0, ConcatProperties
<1>2. DOMAIN a = 1..m + n /\ DOMAIN b = 1..m /\ DOMAIN s = 1..n
  BY <1>1
<1>3. \A i \in 1..m : b[i] \in Plain
  BY <1>2
<1> HIDE DEF a, m, n
<1>4. /\ \A i \in 1..m : i \in DOMAIN a /\ a[i] \in Plain
      /\ \A i \in 1..n : m + i \in DOMAIN a /\ a[m + i] = s[i]
      /\ \A i \in DOMAIN a : i \in 1..m \/ (i - m \in 1..n /\ m + (i - m) = i)
  <2>1. ASSUME NEW i \in 1..m PROVE i \in DOMAIN a /\ a[i] \in Plain
    BY <1>1, <1>2, <1>3
  <2>2. ASSUME NEW i \in 1..n PROVE m + i \in DOMAIN a /\ a[m + i] = s[i]
    <3>1. m + i \in 1..m + n /\ ~(m + i <= m) /\ (m + i) - m = i
      BY <1>1
    <3> QED
      BY <1>1, <1>2, <3>1
  <2>3. ASSUME NEW i \in DOMAIN a PROVE i \in 1..m \/ (i - m \in 1..n /\ m + (i - m) = i)
    BY <1>1, <1>2
  <2> QED
    BY <2>1, <2>2, <2>3
<1>5. \A p \in Plain : p # Do("up") /\ p # Do("flush") /\ p.kind \notin {"busy", "playing"}
  BY DEF Plain, Quiet
<1>6. ASSUME NEW x, x \notin Plain PROVE In(x, a) <=> In(x, s)
  <2>1. ASSUME NEW i \in DOMAIN a, a[i] = x PROVE In(x, s)
    <3>1. i - m \in 1..n /\ a[m + (i - m)] = s[i - m]
      BY <1>4, <1>6, <2>1
    <3> QED
      BY <1>2, <1>4, <1>6, <2>1, <3>1 DEF In
  <2>2. ASSUME NEW i \in DOMAIN s, s[i] = x PROVE In(x, a)
    BY <1>2, <1>4, <2>2 DEF In
  <2> QED
    BY <2>1, <2>2 DEF In
<1>7. (In(Do("up"), a) <=> In(Do("up"), s)) /\ (In(Do("flush"), a) <=> In(Do("flush"), s))
  BY <1>5, <1>6
<1>8. ASSUME Tame(s) PROVE Tame(a)
  <2>1. SUFFICES ASSUME In(Do("up"), a), NEW i \in DOMAIN a
                 PROVE  /\ a[i].kind # "busy"
                        /\ a[i].kind = "playing" => i + 1 \in DOMAIN a /\ a[i + 1] = Poll("streaming")
    BY DEF Tame
  <2>2. CASE i \in 1..m
    BY <1>4, <1>5, <2>2
  <2>3. CASE i - m \in 1..n /\ m + (i - m) = i
    <3> DEFINE k == i - m
    <3>1. k \in DOMAIN s /\ a[i] = s[k]
      BY <1>2, <1>4, <2>3
    <3>2. /\ s[k].kind # "busy"
          /\ s[k].kind = "playing" => k + 1 \in DOMAIN s /\ s[k + 1] = Poll("streaming")
      BY <1>7, <1>8, <2>1, <3>1 DEF Tame
    <3>3. m + (k + 1) = i + 1
      BY <1>1, <1>2, <2>1
    <3>4. k + 1 \in DOMAIN s => i + 1 \in DOMAIN a /\ a[i + 1] = s[k + 1]
      BY <1>2, <1>4, <3>3
    <3> HIDE DEF k
    <3> QED
      BY <3>1, <3>2, <3>4
  <2> QED
    BY <1>4, <2>2, <2>3
<1>9. ASSUME Safe(s) PROVE Safe(a)
  <2>1. SUFFICES ASSUME In(Do("up"), a)
                 PROVE  \E j \in DOMAIN a :
                           /\ a[j] = Poll("streaming")
                           /\ \A k \in DOMAIN a : /\ k >= j => a[k] # Do("flush")
                                                  /\ k <= j => a[k] # Do("up")
    BY DEF Safe
  <2>2. PICK j \in DOMAIN s :
           /\ s[j] = Poll("streaming")
           /\ \A k \in DOMAIN s : /\ k >= j => s[k] # Do("flush")
                                  /\ k <= j => s[k] # Do("up")
    BY <1>7, <1>9, <2>1 DEF Safe
  <2>3. m + j \in DOMAIN a /\ a[m + j] = Poll("streaming")
    BY <1>2, <1>4, <2>2
  <2>4. ASSUME NEW k \in DOMAIN a
        PROVE  (k >= m + j => a[k] # Do("flush")) /\ (k <= m + j => a[k] # Do("up"))
    <3>1. CASE k \in 1..m
      BY <1>4, <1>5, <3>1
    <3>2. CASE k - m \in 1..n /\ m + (k - m) = k
      <4>1. k - m \in DOMAIN s /\ a[k] = s[k - m]
        BY <1>2, <1>4, <3>2
      <4>2. (k >= m + j => k - m >= j) /\ (k <= m + j => k - m <= j)
        BY <1>1, <1>2
      <4> QED
        BY <2>2, <4>1, <4>2
    <3> QED
      BY <1>4, <3>1, <3>2
  <2> QED
    BY <2>3, <2>4
<1> QED
  BY <1>1, <1>7, <1>8, <1>9 DEF a

\* A script without the step it begins with.
LEMMA Dropped ==
    ASSUME NEW s \in Scripts(Steps)
    PROVE  /\ Tail(s) \in Seq(Steps)
           /\ In(Do("up"), Tail(s)) => In(Do("up"), s)
           /\ In(Do("flush"), Tail(s)) => In(Do("flush"), s)
           /\ In(Do("flush"), s) /\ Head(s) # Do("flush") => In(Do("flush"), Tail(s))
           /\ Tame(s) => Tame(Tail(s))
           /\ Safe(s) => \/ Safe(Tail(s))
                         \/ Head(s) = Poll("streaming") /\ In(Do("up"), s) /\ ~In(Do("flush"), s)
<1> DEFINE a == Tail(s)
           n == Len(s)
<1>1. /\ n \in Nat /\ s # <<>> /\ a \in Seq(Steps) /\ Len(a) = n - 1 /\ n >= 1
      /\ Head(s) = s[1] /\ \A i \in 1..n - 1 : a[i] = s[i + 1]
  BY Rests DEF Scripts
<1>2. DOMAIN a = 1..n - 1 /\ DOMAIN s = 1..n
  BY <1>1 DEF Scripts
<1> HIDE DEF a, n
<1>3. /\ \A i \in DOMAIN a : i + 1 \in DOMAIN s /\ a[i] = s[i + 1]
      /\ \A i \in DOMAIN s : i = 1 \/ (i - 1 \in DOMAIN a /\ a[i - 1] = s[i])
  <2>1. ASSUME NEW i \in DOMAIN a PROVE i + 1 \in DOMAIN s /\ a[i] = s[i + 1]
    BY <1>1, <1>2
  <2>2. ASSUME NEW i \in DOMAIN s, i # 1 PROVE i - 1 \in DOMAIN a /\ a[i - 1] = s[i]
    <3>1. i - 1 \in 1..n - 1 /\ (i - 1) + 1 = i
      BY <1>1, <1>2, <2>2
    <3> QED
      BY <1>1, <1>2, <3>1
  <2> QED
    BY <2>1, <2>2
<1>4. ASSUME NEW x, In(x, a) PROVE In(x, s)
  BY <1>3, <1>4 DEF In
<1>5. ASSUME NEW x, In(x, s), s[1] # x PROVE In(x, a)
  BY <1>3, <1>5 DEF In
<1>6. ASSUME Tame(s) PROVE Tame(a)
  <2>1. SUFFICES ASSUME In(Do("up"), a), NEW i \in DOMAIN a
                 PROVE  /\ a[i].kind # "busy"
                        /\ a[i].kind = "playing" => i + 1 \in DOMAIN a /\ a[i + 1] = Poll("streaming")
    BY DEF Tame
  <2>2. i + 1 \in DOMAIN s /\ a[i] = s[i + 1]
    BY <1>3, <2>1
  <2>3. /\ s[i + 1].kind # "busy"
        /\ s[i + 1].kind = "playing" => (i + 1) + 1 \in DOMAIN s /\ s[(i + 1) + 1] = Poll("streaming")
    BY <1>4, <1>6, <2>1, <2>2 DEF Tame
  <2>4. (i + 1) + 1 \in DOMAIN s => i + 1 \in DOMAIN a /\ a[i + 1] = s[(i + 1) + 1]
    BY <1>1, <1>2, <2>1
  <2> QED
    BY <2>2, <2>3, <2>4
<1>7. ASSUME Safe(s), ~Safe(a)
      PROVE  s[1] = Poll("streaming") /\ In(Do("up"), s) /\ ~In(Do("flush"), s)
  <2>1. In(Do("up"), a) /\ In(Do("up"), s)
    BY <1>4, <1>7 DEF Safe
  <2>2. PICK j \in DOMAIN s :
           /\ s[j] = Poll("streaming")
           /\ \A k \in DOMAIN s : /\ k >= j => s[k] # Do("flush")
                                  /\ k <= j => s[k] # Do("up")
    BY <1>7, <2>1 DEF Safe
  <2>3. CASE j = 1
    <3>1. \A k \in DOMAIN s : k >= j
      BY <1>2, <2>3
    <3> QED
      BY <2>1, <2>2, <2>3, <3>1 DEF In
  <2>4. CASE j # 1
    <3>1. j - 1 \in DOMAIN a /\ a[j - 1] = Poll("streaming")
      BY <1>3, <2>2, <2>4
    <3>2. ASSUME NEW k \in DOMAIN a
          PROVE  (k >= j - 1 => a[k] # Do("flush")) /\ (k <= j - 1 => a[k] # Do("up"))
      <4>1. k + 1 \in DOMAIN s /\ a[k] = s[k + 1]
        BY <1>3
      <4>2. (k >= j - 1 => k + 1 >= j) /\ (k <= j - 1 => k + 1 <= j)
        BY <1>1, <1>2
      <4> QED
        BY <2>2, <4>1, <4>2
    <3>3. Safe(a)
      BY <3>1, <3>2 DEF Safe
    <3> QED
      BY <1>7, <3>3
  <2> QED
    BY <2>3, <2>4
<1> QED
  BY <1>1, <1>4, <1>5, <1>6, <1>7 DEF a

-----------------------------------------------------------------------------
(* How a plan follows another.                                              *)

GoodPlan(p) == p # <<>> => Head(p) \in Scripts(Steps) /\ Tame(Head(p)) /\ Tail(p) \in Seq(UnbegunScripts)
Proven(p) == p # <<>> => Safe(Head(p))

\* The plan p goes on with the script s.
Leads(p, s) ==
    \/ s = <<>> /\ p = <<>>
    \/ s \in Scripts(Steps) /\ p # <<>> /\ Head(p) = s /\ Tail(p) \in Seq(UnbegunScripts)

\* p may follow q after an outcome r.
Fits(p, q, r) ==
    /\ GoodPlan(p) /\ (Connecting(p) => Connecting(q))
    /\ Proven(p) \/ (Connecting(p) /\ (~Proven(q) \/ r = "streaming"))

LEMMA NothingIn == ASSUME NEW x PROVE ~In(x, <<>>)
BY DEF In

LEMMA Leading ==
    ASSUME NEW p, NEW s \in Seq(Steps), Leads(p, s)
    PROVE  /\ Tame(s) => GoodPlan(p)
           /\ Safe(s) <=> Proven(p)
           /\ Connecting(p) <=> In(Do("up"), s) /\ ~In(Do("flush"), s)
<1>1. CASE s = <<>> /\ p = <<>>
  <2>1. Safe(s) /\ Tame(s) /\ ~In(Do("up"), s)
    BY <1>1, NothingIn DEF Safe, Tame
  <2> QED
    BY <1>1, <2>1 DEF GoodPlan, Proven, Connecting, Has
<1>2. CASE s \in Scripts(Steps) /\ p # <<>> /\ Head(p) = s /\ Tail(p) \in Seq(UnbegunScripts)
  BY <1>2 DEF GoodPlan, Proven, Connecting, Has, In
<1> QED
  BY <1>1, <1>2 DEF Leads

LEMMA WithLeads ==
    ASSUME NEW t, NEW s \in Seq(Steps), Tail(plan[t]) \in Seq(UnbegunScripts)
    PROVE  Leads(With(t, s), s)
<1>1. CASE s = <<>>
  BY <1>1 DEF With, Leads
<1>2. CASE s # <<>>
  <2>1. UnbegunScripts \subseteq Seq(Steps)
    BY DEF UnbegunScripts, Scripts
  <2>2. Tail(plan[t]) \in Seq(Seq(Steps))
    BY <2>1, SeqMonotonic
  <2> DEFINE p == <<s>> \o Tail(plan[t])
  <2>3. p # <<>> /\ Head(p) = s /\ Tail(p) = Tail(plan[t])
    BY <2>2
  <2>4. With(t, s) = p
    BY <1>2 DEF With
  <2> HIDE DEF p
  <2> QED
    BY <1>2, <2>3, <2>4 DEF Leads, Scripts
<1> QED
  BY <1>1, <1>2

LEMMA OnlyLeads == ASSUME NEW s \in Seq(Steps) PROVE Leads(Only(s), s)
<1>1. CASE s = <<>>
  BY <1>1 DEF Only, Leads
<1>2. CASE s # <<>>
  <2>1. Only(s) = <<s>>
    BY <1>2 DEF Only
  <2>2. <<s>> # <<>> /\ Head(<<s>>) = s /\ Tail(<<s>>) = <<>> /\ <<>> \in Seq(UnbegunScripts)
    OBVIOUS
  <2> QED
    BY <1>2, <2>1, <2>2 DEF Leads, Scripts
<1> QED
  BY <1>1, <1>2

\* The connect of a plan is safe, or has flushed the UART and is known to be up.
Backed(q) == q # <<>> /\ GoodPlan(q) /\ (Proven(q) \/ Connecting(q))

\* Another alternative.
LEMMA FreshFits ==
    ASSUME NEW p \in Seq(UnbegunScripts), NEW q, NEW r PROVE Fits(p, q, r)
<1>1. CASE p = <<>>
  BY <1>1 DEF Fits, GoodPlan, Proven, Connecting, Has
<1>2. CASE p # <<>>
  <2>1. Head(p) \in UnbegunScripts /\ Tail(p) \in Seq(UnbegunScripts)
    BY <1>2
  <2>2. /\ Head(p) \in Scripts(Steps) /\ Tame(Head(p)) /\ Safe(Head(p))
        /\ In(Do("up"), Head(p)) => In(Do("flush"), Head(p))
    BY <2>1 DEF UnbegunScripts, Unbegun
  <2> QED
    BY <2>1, <2>2 DEF Fits, GoodPlan, Proven, Connecting, Has, In
<1> QED
  BY <1>1, <1>2

\* The script goes on with what is behind the current step.
LEMMA AdvanceFits ==
    ASSUME NEW p, NEW q, NEW r, Backed(q), NEW b \in Seq(Plain), Leads(p, b \o Tail(Head(q))),
           Head(Head(q)) # Do("flush"), Head(Head(q)) = Poll("streaming") => r = "streaming"
    PROVE  Fits(p, q, r)
<1> DEFINE s == Head(q)
           a == Tail(s)
<1>1. /\ s \in Scripts(Steps) /\ Tame(s) /\ Head(s) # Do("flush")
      /\ Safe(s) <=> Proven(q)
      /\ Connecting(q) <=> In(Do("up"), s) /\ ~In(Do("flush"), s)
      /\ Proven(q) \/ Connecting(q)
      /\ Head(s) = Poll("streaming") => r = "streaming"
  BY DEF Backed, GoodPlan, Proven, Connecting, Has, In
<1>2. Leads(p, b \o a)
  OBVIOUS
<1> HIDE DEF s
<1>3. /\ a \in Seq(Steps) /\ Tame(a)
      /\ In(Do("up"), a) => In(Do("up"), s)
      /\ In(Do("flush"), a) <=> In(Do("flush"), s)
      /\ Safe(s) => \/ Safe(a)
                    \/ Head(s) = Poll("streaming") /\ In(Do("up"), s) /\ ~In(Do("flush"), s)
  BY <1>1, Dropped
<1> HIDE DEF a
<1>4. /\ b \o a \in Seq(Steps) /\ Tame(b \o a)
      /\ In(Do("up"), b \o a) <=> In(Do("up"), a)
      /\ In(Do("flush"), b \o a) <=> In(Do("flush"), a)
      /\ Safe(a) => Safe(b \o a)
  BY <1>3, Prefixed
<1>5. /\ GoodPlan(p) /\ (Safe(b \o a) <=> Proven(p))
      /\ Connecting(p) <=> In(Do("up"), a) /\ ~In(Do("flush"), a)
  BY <1>2, <1>4, Leading
<1>6. Connecting(p) => Connecting(q)
  BY <1>1, <1>3, <1>5
<1>7. ASSUME ~Proven(p) PROVE Connecting(p) /\ (~Proven(q) \/ r = "streaming")
  <2>1. ~Safe(a) /\ In(Do("up"), a)
    BY <1>4, <1>5, <1>7 DEF Safe
  <2>2. ~In(Do("flush"), s) /\ (~Proven(q) \/ r = "streaming")
    BY <1>1, <1>3, <2>1
  <2> QED
    BY <1>3, <1>5, <2>1, <2>2
<1> QED
  BY <1>5, <1>6, <1>7 DEF Fits

\* The script comes to the current step again, after a few others.
LEMMA RepeatFits ==
    ASSUME NEW p, NEW q, NEW r, Backed(q), NEW b \in Seq(Steps), Leads(p, b \o Head(q)),
           b \in Seq(Plain) \/ (b \in Seq(Quiet) /\ Head(Head(q)).kind = "busy")
    PROVE  Fits(p, q, r)
<1> DEFINE s == Head(q)
<1>1. /\ s \in Scripts(Steps) /\ Tame(s)
      /\ Safe(s) <=> Proven(q)
      /\ Connecting(q) <=> In(Do("up"), s) /\ ~In(Do("flush"), s)
      /\ Proven(q) \/ Connecting(q)
      /\ Leads(p, b \o s)
      /\ b \in Seq(Plain) \/ (b \in Seq(Quiet) /\ Head(s).kind = "busy")
  BY DEF Backed, GoodPlan, Proven, Connecting, Has, In
<1>2. s \in Seq(Steps)
  BY <1>1 DEF Scripts
<1> HIDE DEF s
<1>3. CASE b \in Seq(Plain)
  <2>1. /\ b \o s \in Seq(Steps) /\ Tame(b \o s)
        /\ In(Do("up"), b \o s) <=> In(Do("up"), s)
        /\ In(Do("flush"), b \o s) <=> In(Do("flush"), s)
        /\ Safe(s) => Safe(b \o s)
    BY <1>1, <1>2, <1>3, Prefixed
  <2>2. /\ GoodPlan(p) /\ (Safe(b \o s) <=> Proven(p))
        /\ Connecting(p) <=> In(Do("up"), b \o s) /\ ~In(Do("flush"), b \o s)
    BY <1>1, <2>1, Leading
  <2> QED
    BY <1>1, <2>1, <2>2 DEF Fits
<1>4. CASE b \in Seq(Quiet) /\ Head(s).kind = "busy"
  <2>1. 1 \in DOMAIN s /\ s[1] = Head(s)
    BY <1>1, Rests DEF Scripts
  <2>2. ~In(Do("up"), s)
    BY <1>1, <1>4, <2>1 DEF Tame
  <2>3. s \in Seq(Quiet)
    <3>1. \A i \in 1..Len(s) : s[i] \in Quiet
      BY <1>2, <2>2 DEF In, Quiet
    <3>2. s \in [1..Len(s) -> Steps] /\ Len(s) \in Nat
      BY <1>2, LenProperties
    <3>3. s \in [1..Len(s) -> Quiet]
      BY <3>1, <3>2
    <3> QED
      BY <3>2, <3>3, SeqDef
  <2>4. b \o s \in Seq(Quiet)
    BY <1>4, <2>3, ConcatProperties
  <2>5. b \o s \in Seq(Steps)
    BY <2>4, SeqMonotonic DEF Quiet
  <2>6. ~In(Do("up"), b \o s) /\ Tame(b \o s) /\ Safe(b \o s)
    BY <2>4, QuietNotUp
  <2>7. GoodPlan(p) /\ Proven(p) /\ ~Connecting(p)
    BY <1>1, <2>5, <2>6, Leading
  <2> QED
    BY <2>7 DEF Fits
<1> QED
  BY <1>1, <1>3, <1>4

\* A script that does not come up.
LEMMA DownFits ==
    ASSUME NEW p, NEW q, NEW r, NEW s \in Seq(Steps), ~In(Do("up"), s), Leads(p, s)
    PROVE  Fits(p, q, r)
<1>1. Tame(s) /\ Safe(s)
  BY DEF Tame, Safe
<1> QED
  BY <1>1, Leading DEF Fits

\* The link streams already, so that the next step is left out.
LEMMA SkipFits ==
    ASSUME NEW p, NEW q, Backed(q), Head(Head(q)).kind = "playing", Leads(p, Tail(Tail(Head(q))))
    PROVE  Fits(p, q, "streaming")
<1> DEFINE s == Head(q)
           a == Tail(s)
           b == Tail(a)
<1>1. /\ s \in Scripts(Steps) /\ Tame(s) /\ Head(s).kind = "playing"
      /\ Safe(s) <=> Proven(q)
      /\ Connecting(q) <=> In(Do("up"), s) /\ ~In(Do("flush"), s)
      /\ Proven(q) \/ Connecting(q)
  BY DEF Backed, GoodPlan, Proven, Connecting, Has, In
<1>2. Leads(p, b)
  OBVIOUS
<1> HIDE DEF s
<1>3. /\ a \in Seq(Steps) /\ Tame(a)
      /\ In(Do("up"), a) => In(Do("up"), s)
      /\ In(Do("flush"), a) <=> In(Do("flush"), s)
      /\ Safe(s) => Safe(a)
      /\ Head(s) = s[1] /\ Len(s) \in Nat \ {0} /\ Len(a) = Len(s) - 1
      /\ \A i \in 1..Len(s) - 1 : a[i] = s[i + 1]
  BY <1>1, Dropped, Rests
<1> HIDE DEF a
<1>4. In(Do("up"), s) => a # <<>> /\ Head(a) = Poll("streaming")
  <2>1. SUFFICES ASSUME In(Do("up"), s) PROVE a # <<>> /\ Head(a) = Poll("streaming")
    OBVIOUS
  <2>2. 1 \in DOMAIN s /\ DOMAIN s = 1..Len(s)
    BY <1>1, <1>3 DEF Scripts
  <2>3. 1 + 1 \in DOMAIN s /\ s[1 + 1] = Poll("streaming")
    BY <1>1, <1>3, <2>1, <2>2 DEF Tame
  <2>4. 1 \in 1..Len(s) - 1
    BY <1>3, <2>2, <2>3
  <2>5. a[1] = Poll("streaming") /\ Len(a) # 0
    BY <1>3, <2>3, <2>4
  <2> QED
    BY <1>3, <2>5
<1>5. CASE a = <<>>
  <2>1. b \in Seq(Steps) /\ b = <<>>
    BY <1>5
  <2> QED
    BY <1>2, <2>1, NothingIn, DownFits
<1>6. CASE a # <<>>
  <2>1. a \in Scripts(Steps)
    BY <1>3, <1>6 DEF Scripts
  <2>2. /\ b \in Seq(Steps) /\ Tame(b)
        /\ In(Do("up"), b) => In(Do("up"), a)
        /\ In(Do("flush"), b) => In(Do("flush"), a)
        /\ In(Do("flush"), a) /\ Head(a) # Do("flush") => In(Do("flush"), b)
    BY <1>3, <2>1, Dropped
  <2> HIDE DEF b
  <2>3. CASE ~In(Do("up"), b)
    BY <1>2, <2>2, <2>3, DownFits
  <2>4. CASE In(Do("up"), b)
    <3>1. In(Do("up"), s) /\ Head(a) # Do("flush")
      BY <1>3, <1>4, <2>2, <2>4
    <3>2. In(Do("flush"), b) <=> In(Do("flush"), s)
      BY <1>3, <2>2, <3>1
    <3>3. Safe(s) => Safe(b) \/ ~In(Do("flush"), s)
      BY <1>3, <2>1, Dropped DEF b
    <3>4. /\ GoodPlan(p) /\ (Safe(b) <=> Proven(p))
          /\ Connecting(p) <=> In(Do("up"), b) /\ ~In(Do("flush"), b)
      BY <1>2, <2>2, Leading
    <3> QED
      BY <1>1, <2>4, <3>1, <3>2, <3>3, <3>4 DEF Fits
  <2> QED
    BY <2>3, <2>4
<1> QED
  BY <1>5, <1>6

\* The waits put plain steps before the script, or quiet ones.
LEMMA PlainPreambles ==
    /\ <<>> \in Seq(Plain) /\ <<Try("enc")>> \in Seq(Plain) /\ <<Try("audio")>> \in Seq(Plain)
    /\ <<Raw("scan0")>> \in Seq(Plain)
    /\ <<Raw("disc"), Raw("dsca"), Do("flush")>> \in Seq(Quiet)
    /\ Plain \subseteq Quiet /\ Quiet \subseteq Steps
<1>1. Plain \subseteq Quiet /\ Quiet \subseteq Steps
  BY DEF Plain, Quiet
<1>2. {Try("enc"), Try("audio"), Raw("scan0"), Raw("disc"), Raw("dsca"), Do("flush")} \subseteq Quiet
  BY DEF Quiet, Steps, Kinds, Commands, Deeds
<1>3. {Try("enc"), Try("audio"), Raw("scan0")} \subseteq Plain
  BY <1>2 DEF Plain
<1> QED
  BY <1>1, <1>2, <1>3

-----------------------------------------------------------------------------
(* The scripts of the operations.                                           *)

LEMMA ConnectStep ==
    /\ ConnectScript \in Seq(Steps) /\ Len(ConnectScript) = 9
    /\ ConnectScript[1] = Enter("linkcfg") /\ ConnectScript[2] = Raw("auto0")
    /\ ConnectScript[3] = Do("flush") /\ ConnectScript[4] = Try("scan0")
    /\ ConnectScript[5] = Must("conn") /\ ConnectScript[6] = Poll("linked")
    /\ ConnectScript[7] = Poll("playing") /\ ConnectScript[8] = Poll("streaming")
    /\ ConnectScript[9] = Do("up")
<1> DEFINE first == <<Enter("linkcfg"), Raw("auto0"), Do("flush"), Try("scan0"),
                      Must("conn"), Poll("linked")>>
           last  == <<Do("up")>>
           both  == first \o Ensure
           all   == both \o last
<1>1. /\ first \in Seq(Steps) /\ Len(first) = 6
      /\ first[1] = Enter("linkcfg") /\ first[2] = Raw("auto0") /\ first[3] = Do("flush")
      /\ first[4] = Try("scan0") /\ first[5] = Must("conn") /\ first[6] = Poll("linked")
  BY DEF Steps, Kinds, Commands, Deeds
<1>2. /\ last \in Seq(Steps) /\ Len(last) = 1 /\ last[1] = Do("up")
  BY DEF Steps, Deeds
<1>3. /\ Ensure \in Seq(Steps) /\ Len(Ensure) = 2
      /\ Ensure[1] = Poll("playing") /\ Ensure[2] = Poll("streaming")
  BY DEF Ensure, Steps, Kinds, Commands
<1>4. ConnectScript = all
  BY DEF ConnectScript
<1> HIDE DEF first, last
<1>5. /\ both \in Seq(Steps) /\ Len(both) = 8
      /\ \A i \in 1..8 : both[i] = IF i <= 6 THEN first[i] ELSE Ensure[i - 6]
  <2>1. /\ both \in Seq(Steps) /\ Len(both) = Len(first) + Len(Ensure)
        /\ \A i \in 1..Len(first) + Len(Ensure) :
              both[i] = IF i <= Len(first) THEN first[i] ELSE Ensure[i - Len(first)]
    BY <1>1, <1>3, ConcatProperties
  <2> HIDE DEF both
  <2> QED
    BY <1>1, <1>3, <2>1
<1> HIDE DEF both
<1>6. /\ all \in Seq(Steps) /\ Len(all) = 9
      /\ \A i \in 1..9 : all[i] = IF i <= 8 THEN both[i] ELSE last[i - 8]
  <2>1. /\ all \in Seq(Steps) /\ Len(all) = Len(both) + Len(last)
        /\ \A i \in 1..Len(both) + Len(last) :
              all[i] = IF i <= Len(both) THEN both[i] ELSE last[i - Len(both)]
    BY <1>2, <1>5, ConcatProperties
  <2> HIDE DEF all
  <2> QED
    BY <1>2, <1>5, <2>1
<1> HIDE DEF all
<1>7. /\ all[1] = both[1] /\ all[2] = both[2] /\ all[3] = both[3] /\ all[4] = both[4]
      /\ all[5] = both[5] /\ all[6] = both[6] /\ all[7] = both[7] /\ all[8] = both[8]
      /\ all[9] = last[1]
  BY <1>6
<1>8. /\ both[1] = first[1] /\ both[2] = first[2] /\ both[3] = first[3] /\ both[4] = first[4]
      /\ both[5] = first[5] /\ both[6] = first[6] /\ both[7] = Ensure[1] /\ both[8] = Ensure[2]
  BY <1>5
<1> QED
  BY <1>1, <1>2, <1>3, <1>4, <1>6, <1>7, <1>8

LEMMA ConnectFresh ==
    ASSUME NEW e \in Seq({Do("save")}) PROVE ConnectScript \o e \in UnbegunScripts
<1> DEFINE s == ConnectScript \o e
<1>1. e \in Seq(Steps) /\ \A i \in 1..Len(e) : e[i] = Do("save")
  <2>1. {Do("save")} \subseteq Steps
    BY DEF Steps, Deeds
  <2> QED
    BY <2>1, SeqMonotonic
<1>2. /\ s \in Seq(Steps) /\ Len(s) = 9 + Len(e) /\ Len(e) \in Nat
      /\ \A i \in 1..Len(s) : s[i] = IF i <= 9 THEN ConnectScript[i] ELSE e[i - 9]
  <2>1. /\ s \in Seq(Steps) /\ Len(s) = Len(ConnectScript) + Len(e)
        /\ \A i \in 1..Len(ConnectScript) + Len(e) :
              s[i] = IF i <= Len(ConnectScript) THEN ConnectScript[i] ELSE e[i - Len(ConnectScript)]
    BY <1>1, ConnectStep, ConcatProperties
  <2> HIDE DEF s
  <2> QED
    BY <2>1, ConnectStep
<1> HIDE DEF s
<1>3. DOMAIN s = 1..Len(s)
  BY <1>2
<1>4. \A i \in 1..9 : i \in DOMAIN s /\ s[i] = ConnectScript[i]
  BY <1>2, <1>3
<1>5. /\ s[1] = Enter("linkcfg") /\ s[2] = Raw("auto0") /\ s[3] = Do("flush")
      /\ s[4] = Try("scan0") /\ s[5] = Must("conn") /\ s[6] = Poll("linked")
      /\ s[7] = Poll("playing") /\ s[8] = Poll("streaming") /\ s[9] = Do("up")
  BY <1>4, ConnectStep
<1>6. ASSUME NEW i \in DOMAIN s, i \notin 1..9 PROVE i > 9 /\ s[i] = Do("save")
  <2>1. ~(i <= 9) /\ i - 9 \in 1..Len(e)
    BY <1>2, <1>3, <1>6
  <2> QED
    BY <1>1, <1>2, <1>3, <2>1
<1>7. \A i \in 1..9 : i \in {1, 2, 3, 4, 5, 6, 7, 8, 9}
  OBVIOUS
<1>8. Tame(s)
  <2>1. ASSUME NEW i \in DOMAIN s
        PROVE  /\ s[i].kind # "busy"
               /\ s[i].kind = "playing" => i + 1 \in DOMAIN s /\ s[i + 1] = Poll("streaming")
    <3>1. CASE i \in 1..9
      <4>1. i = 7 \/ s[i].kind \notin {"busy", "playing"}
        BY <1>5, <1>7, <3>1
      <4>2. 7 + 1 = 8 /\ 8 \in DOMAIN s
        BY <1>4
      <4> QED
        BY <1>5, <4>1, <4>2
    <3>2. CASE i \notin 1..9
      BY <1>6, <3>2
    <3> QED
      BY <3>1, <3>2
  <2> QED
    BY <2>1 DEF Tame
<1>9. Safe(s)
  <2>1. ASSUME NEW k \in DOMAIN s PROVE (k >= 8 => s[k] # Do("flush")) /\ (k <= 8 => s[k] # Do("up"))
    <3>1. CASE k \in 1..9
      <4>1. k \in {1, 2, 3, 4, 5, 6, 7, 8, 9}
        BY <1>7, <3>1
      <4> QED
        BY <1>5, <4>1
    <3>2. CASE k \notin 1..9
      BY <1>6, <3>2
    <3> QED
      BY <3>1, <3>2
  <2>2. 8 \in DOMAIN s
    BY <1>4
  <2> QED
    BY <1>5, <2>1, <2>2 DEF Safe
<1>10. In(Do("flush"), s)
  <2>1. 3 \in DOMAIN s
    BY <1>4
  <2> QED
    BY <1>5, <2>1 DEF In
<1>11. s # <<>>
  BY <1>2
<1> QED
  BY <1>2, <1>8, <1>9, <1>10, <1>11 DEF UnbegunScripts, Unbegun, Scripts, s

\* A script that boots the module does not come up.
LEMMA BootFresh ==
    ASSUME NEW setup \in Seq(Tries)
    PROVE  BootPlan(setup) \in Seq(UnbegunScripts)
<1> DEFINE p == BootPlan(setup)
           s == Head(p)
<1>1. BootingAt(s, 1) /\ p = <<BootScript \o setup, <<Do("probe")>>>>
  BY BootStarts DEF Booting, BootPlan
<1>2. s = BootScript \o setup
  BY <1>1
<1> HIDE DEF p, s
<1>3. s \in Scripts(Steps)
  BY <1>1, BootStepping
<1>4. ASSUME NEW i \in 1..Len(s) PROVE s[i] \in Quiet
  <2>0. s[i] \in Steps
    BY <1>3 DEF Scripts
  <2>1. CASE i <= 9
    <3>1. i \in {1, 2, 3, 4, 5, 6, 7, 8, 9} /\ s[i] = BootScript[1 + i - 1] /\ 1 + i - 1 = i
      BY <1>1, <2>1 DEF BootingAt
    <3>2. s[i] # Do("up")
      BY <3>1, BootStep
    <3> QED
      BY <2>0, <3>2 DEF Quiet
  <2>2. CASE ~(i <= 9)
    <3>1. s[i] \in Tries
      BY <1>1, <2>2 DEF BootingAt
    <3> QED
      BY <2>0, <3>1 DEF Quiet, Tries
  <2> QED
    BY <2>1, <2>2
<1>5. s \in Scripts(Quiet)
  <2>1. s \in Seq(Steps) /\ s # <<>>
    BY <1>3 DEF Scripts
  <2>2. s \in [1..Len(s) -> Steps] /\ Len(s) \in Nat
    BY <2>1, LenProperties
  <2>3. s \in [1..Len(s) -> Quiet]
    BY <1>4, <2>2
  <2> QED
    BY <2>1, <2>2, <2>3, SeqDef DEF Scripts
<1>6. <<Do("probe")>> \in Scripts(Quiet)
  BY DEF Scripts, Quiet, Steps, Deeds
<1>7. s \in UnbegunScripts /\ <<Do("probe")>> \in UnbegunScripts
  BY <1>5, <1>6, QuietFresh
<1>8. p = <<s, <<Do("probe")>>>>
  BY <1>1, <1>2
<1> QED
  BY <1>7, <1>8 DEF p

LEMMA RetryFresh == RetryPlan \in Seq(UnbegunScripts)
<1>1. PostBoot \in Scripts(Quiet)
  BY DEF PostBoot, Scripts, Quiet, Steps, Kinds, Commands
<1>2. PostBoot \in UnbegunScripts
  BY <1>1, QuietFresh
<1>3. <<PostBoot>> \in Seq(UnbegunScripts)
  BY <1>2
<1>4. BootPlan(PostBoot) \in Seq(UnbegunScripts)
  BY PostBootTries, BootFresh DEF Scripts
<1> QED
  BY <1>3, <1>4 DEF RetryPlan

LEMMA ReconnectFresh == ASSUME NEW fallback \in BOOLEAN PROVE ReconnectPlan(fallback) \in Seq(UnbegunScripts)
<1>1. ASSUME NEW w \in {"isLinked", "auto"} PROVE <<Poll(w)>> \o Ensure \in UnbegunScripts
  <2>1. <<Poll(w)>> \in Seq(Quiet) /\ Ensure \in Scripts(Quiet)
    BY DEF Ensure, Scripts, Quiet, Steps, Kinds, Commands
  <2> QED
    BY <2>1, Prepended, QuietFresh
<1>2. IfLinked \in UnbegunScripts /\ AutoScript \in UnbegunScripts
  BY <1>1 DEF IfLinked, AutoScript
<1>3. ConnectScript \in UnbegunScripts
  <2>1. <<>> \in Seq({Do("save")}) /\ ConnectScript \o <<>> = ConnectScript
    BY ConnectStep, ConcatEmptySeq
  <2> QED
    BY <2>1, ConnectFresh
<1> DEFINE first == <<IfLinked, ConnectScript, IfLinked, AutoScript>>
           last  == IF fallback THEN <<ConnectScript, IfLinked>> ELSE <<>>
<1>4. first \in Seq(UnbegunScripts) /\ last \in Seq(UnbegunScripts)
  BY <1>2, <1>3
<1> HIDE DEF first, last
<1>5. first \o last \in Seq(UnbegunScripts)
  BY <1>4, ConcatProperties
<1> QED
  BY <1>5 DEF ReconnectPlan, first, last

LEMMA ErrandsFresh == ASSUME NEW p \in Errands PROVE p \in Seq(UnbegunScripts)
<1>0. ASSUME NEW s \in Scripts(Quiet) PROVE <<s>> \in Seq(UnbegunScripts)
  <2>1. s \in UnbegunScripts
    BY QuietFresh
  <2> QED
    BY <2>1
<1>1. CASE p = <<>>
  BY <1>1
<1>2. CASE p = ScanPlan
  <2> DEFINE s == <<Try("pair0"), Try("scan0"), Do("enter"), Raw("print"),
        Raw("linkcfg"), Raw("auto0"), Raw("plist0"), Raw("disc"), Raw("dsca"),
        Raw("pair0"), Raw("scan0"), Do("flush"), Poll("busy"), Try("plistQ"),
        Do("flush"), Raw("inquiry"), Raw("disc"), Raw("dsca"), Raw("scan0")>>
  <2>1. s \in Scripts(Quiet)
    BY DEF Scripts, Quiet, Steps, Kinds, Commands, Deeds
  <2>2. p = <<s>>
    BY <1>2 DEF ScanPlan
  <2> HIDE DEF s
  <2> QED
    BY <1>0, <2>1, <2>2
<1>3. CASE p = StatusPlan
  <2> DEFINE s == <<Need("nameQ"), Need("autoQ"), Need("stat")>>
  <2>1. s \in Scripts(Quiet)
    BY DEF Scripts, Quiet, Steps, Kinds, Commands, Deeds
  <2>2. p = <<s>>
    BY <1>3 DEF StatusPlan
  <2> HIDE DEF s
  <2> QED
    BY <1>0, <2>1, <2>2
<1>4. CASE p = WakePlan
  <2> DEFINE s == <<Need("nameQ"), Need("autoQ"), Poll("awake")>>
  <2>1. s \in Scripts(Quiet)
    BY DEF Scripts, Quiet, Steps, Kinds, Commands, Deeds
  <2>2. p = <<s>>
    BY <1>4 DEF WakePlan
  <2> HIDE DEF s
  <2> QED
    BY <1>0, <2>1, <2>2
<1>5. ASSUME NEW b \in BOOLEAN, p = ReconnectPlan(b) PROVE p \in Seq(UnbegunScripts)
  BY <1>5, ReconnectFresh
<1>6. ASSUME NEW s \in {<<>>, <<Do("save")>>}, p = <<ConnectScript \o s>> PROVE p \in Seq(UnbegunScripts)
  <2>1. <<>> \in Seq({Do("save")}) /\ <<Do("save")>> \in Seq({Do("save")})
    OBVIOUS
  <2>2. s \in Seq({Do("save")})
    BY <2>1
  <2>3. ConnectScript \o s \in UnbegunScripts
    BY <2>2, ConnectFresh
  <2> QED
    BY <1>6, <2>3
<1>7. ASSUME NEW c \in {"disc", "auto3", "plistQ", "enc", "codec"}, p = <<<<Need(c)>>>>
      PROVE  p \in Seq(UnbegunScripts)
  <2>1. <<Need(c)>> \in Scripts(Quiet)
    BY DEF Scripts, Quiet, Steps, Kinds, Commands, Deeds
  <2> QED
    BY <1>0, <1>7, <2>1
<1>8. CASE p \in {<<<<Need("pair1"), Do("paired")>>>>, <<<<Need("pair0"), Do("unpaired")>>>>}
  <2>1. <<Need("pair1"), Do("paired")>> \in Scripts(Quiet) /\ <<Need("pair0"), Do("unpaired")>> \in Scripts(Quiet)
    BY DEF Scripts, Quiet, Steps, Kinds, Commands, Deeds
  <2> QED
    BY <1>0, <1>8, <2>1
<1> QED
  BY <1>1, <1>2, <1>3, <1>4, <1>5, <1>6, <1>7, <1>8 DEF Errands

LEMMA BeginningsFresh == ASSUME NEW t, NEW p, Begins(t, p) PROVE p \in Seq(UnbegunScripts)
<1>1. BootPlan(<<>>) \in Seq(UnbegunScripts)
  <2>1. <<>> \in Seq(Tries)
    OBVIOUS
  <2> QED
    BY <2>1, BootFresh
<1>2. ShutdownPlan \in Seq(UnbegunScripts)
  <2> DEFINE s == <<Do("pinsLow"), Do("unbooted")>>
  <2>1. s \in Scripts(Quiet)
    BY DEF Scripts, Quiet, Steps, Deeds
  <2>2. ShutdownPlan = <<s>>
    BY DEF ShutdownPlan
  <2> HIDE DEF s
  <2>3. s \in UnbegunScripts
    BY <2>1, QuietFresh
  <2> QED
    BY <2>2, <2>3
<1> QED
  BY <1>1, <1>2, ErrandsFresh DEF Begins

LEMMA InsteadFits ==
    ASSUME NEW t, Backed(plan[t]), NEW r PROVE Fits(Instead(t), plan[t], r)
<1>1. Tail(plan[t]) \in Seq(UnbegunScripts)
  BY DEF Backed, GoodPlan
<1>2. Instead(t) \in Seq(UnbegunScripts)
  BY <1>1, RetryFresh DEF Instead
<1> QED
  BY <1>2, FreshFits

\* The script goes on, after some plain steps of a wait.
LEMMA GoOnFits ==
    ASSUME NEW t, Backed(plan[t]), NEW r, NEW b \in Seq(Plain),
           Current(t) # Do("flush"), Current(t) = Poll("streaming") => r = "streaming"
    PROVE  Fits(With(t, b \o Rest(t)), plan[t], r)
<1>1. Head(plan[t]) \in Scripts(Steps) /\ Tail(plan[t]) \in Seq(UnbegunScripts)
  BY DEF Backed, GoodPlan
<1>2. Rest(t) \in Seq(Steps)
  BY <1>1, Rests DEF Rest
<1>3. b \o Rest(t) \in Seq(Steps)
  BY <1>2, Prefixed
<1>4. Leads(With(t, b \o Rest(t)), b \o Rest(t))
  BY <1>1, <1>3, WithLeads
<1> QED
  BY <1>4, AdvanceFits DEF Rest, Current

\* The same with nothing before it.
LEMMA NextFits ==
    ASSUME NEW t, Backed(plan[t]), NEW r,
           Current(t) # Do("flush"), Current(t) = Poll("streaming") => r = "streaming"
    PROVE  Fits(With(t, Rest(t)), plan[t], r) /\ Fits(Only(Rest(t)), plan[t], r)
<1>1. Head(plan[t]) \in Scripts(Steps)
  BY DEF Backed, GoodPlan
<1>2. Rest(t) \in Seq(Steps) /\ <<>> \in Seq(Plain)
  BY <1>1, Rests DEF Rest
<1>3. <<>> \o Rest(t) = Rest(t)
  BY <1>2, ConcatEmptySeq
<1>4. Fits(With(t, Rest(t)), plan[t], r)
  BY <1>2, <1>3, GoOnFits
<1>5. Leads(Only(Rest(t)), Rest(t))
  BY <1>2, OnlyLeads
<1>6. Leads(Only(Rest(t)), <<>> \o Tail(Head(plan[t])))
  BY <1>3, <1>5 DEF Rest
<1>7. Fits(Only(Rest(t)), plan[t], r)
  BY <1>2, <1>6, AdvanceFits DEF Current
<1> QED
  BY <1>4, <1>7

LEMMA AgainFits ==
    ASSUME NEW t, Backed(plan[t]), NEW r, NEW b \in Seq(Steps),
           b \in Seq(Plain) \/ (b \in Seq(Quiet) /\ Current(t).kind = "busy"),
           NEW p \in Again(t, b)
    PROVE  Fits(p, plan[t], r)
<1>1. Head(plan[t]) \in Scripts(Steps) /\ Tail(plan[t]) \in Seq(UnbegunScripts)
  BY DEF Backed, GoodPlan
<1>2. p = With(t, b \o Head(plan[t]))
  BY DEF Again
<1>3. b \o Head(plan[t]) \in Seq(Steps)
  BY <1>1, Prepended DEF Scripts
<1>4. Leads(p, b \o Head(plan[t]))
  BY <1>1, <1>2, <1>3, WithLeads
<1> QED
  BY <1>4, RepeatFits DEF Current

LEMMA WaitFits ==
    ASSUME NEW t, Backed(plan[t]),
           Current(t).kind \in {"isLinked", "auto", "linked", "playing", "streaming", "busy", "awake"},
           NEW r, NEW p \in Waited(t, r)
    PROVE  Fits(p, plan[t], r)
<1> DEFINE w == Current(t).kind
<1>0. Current(t) # Do("flush") /\ (Current(t) = Poll("streaming") => w = "streaming")
  OBVIOUS
<1>1. Fits(Instead(t), plan[t], r)
  BY InsteadFits
<1>2. w # "streaming" \/ r = "streaming" =>
         Fits(With(t, Rest(t)), plan[t], r) /\ Fits(Only(Rest(t)), plan[t], r)
  BY <1>0, NextFits
<1>3. \A q \in Again(t, <<>>) \cup Again(t, <<Try("audio")>>) : Fits(q, plan[t], r)
  <2>1. /\ <<>> \in Seq(Plain) /\ <<Try("audio")>> \in Seq(Plain)
        /\ <<>> \in Seq(Steps) /\ <<Try("audio")>> \in Seq(Steps)
    <3>1. Plain \subseteq Steps
      BY PlainPreambles
    <3> QED
      BY <3>1, PlainPreambles, SeqMonotonic
  <2> QED
    BY <2>1, AgainFits
<1>4. CASE w = "isLinked"
  BY <1>1, <1>2, <1>4 DEF Waited
<1>5. CASE w = "auto"
  <2>1. p \in {Only(Rest(t)), Instead(t)} \cup Again(t, <<>>)
    BY <1>5 DEF Waited
  <2> QED
    BY <1>1, <1>2, <1>3, <1>5, <2>1
<1>6. CASE w = "linked"
  <2>1. p \in {With(t, Rest(t)), Instead(t)} \cup Again(t, <<>>)
    BY <1>6 DEF Waited
  <2> QED
    BY <1>1, <1>2, <1>3, <1>6, <2>1
<1>7. CASE w = "playing"
  <2>1. IF r = "streaming" THEN p = With(t, Tail(Rest(t))) ELSE p = With(t, Rest(t))
    BY <1>7 DEF Waited
  <2>2. CASE r = "streaming"
    <3>1. Head(plan[t]) \in Scripts(Steps) /\ Tail(plan[t]) \in Seq(UnbegunScripts)
      BY DEF Backed, GoodPlan
    <3>2. Rest(t) \in Seq(Steps)
      BY <3>1, Rests DEF Rest
    <3>3. Tail(Rest(t)) \in Seq(Steps)
      <4>1. CASE Rest(t) = <<>>
        BY <4>1
      <4>2. CASE Rest(t) # <<>>
        BY <3>2, <4>2
      <4> QED
        BY <4>1, <4>2
    <3>4. Leads(p, Tail(Rest(t)))
      BY <2>1, <2>2, <3>1, <3>3, WithLeads
    <3> QED
      BY <1>7, <2>2, <3>4, SkipFits DEF Current, Rest
  <2>3. CASE r # "streaming"
    BY <1>2, <1>7, <2>1, <2>3
  <2> QED
    BY <2>2, <2>3
<1>8. CASE w = "streaming"
  <2>1. \/ r = "streaming" /\ p = With(t, <<Try("enc")>> \o Rest(t))
        \/ p = Instead(t)
        \/ p \in Again(t, <<>>) \cup Again(t, <<Try("audio")>>)
    BY <1>8 DEF Waited
  <2>2. r = "streaming" => Fits(With(t, <<Try("enc")>> \o Rest(t)), plan[t], r)
    BY <1>0, PlainPreambles, GoOnFits
  <2> QED
    BY <1>1, <1>3, <2>1, <2>2
<1>9. CASE w = "busy"
  <2> DEFINE b == <<Raw("disc"), Raw("dsca"), Do("flush")>>
  <2>1. \/ p = With(t, Rest(t))
        \/ p \in Again(t, b) \cup Again(t, <<>>)
    BY <1>9 DEF Waited
  <2>2. b \in Seq(Quiet) /\ Quiet \subseteq Steps
    BY PlainPreambles
  <2> HIDE DEF b
  <2>3. b \in Seq(Steps)
    BY <2>2, SeqMonotonic
  <2>4. \A q \in Again(t, b) : Fits(q, plan[t], r)
    BY <1>9, <2>2, <2>3, AgainFits
  <2> QED
    BY <1>2, <1>3, <1>9, <2>1, <2>4
<1>10. CASE w = "awake"
  <2>1. p = <<>> \/ p = ReconnectPlan(FALSE)
    BY <1>10 DEF Waited
  <2>2. <<>> \in Seq(UnbegunScripts)
    OBVIOUS
  <2>3. ReconnectPlan(FALSE) \in Seq(UnbegunScripts)
    BY ReconnectFresh, Zenon
  <2> QED
    BY <2>1, <2>2, <2>3, FreshFits
<1> QED
  BY <1>4, <1>5, <1>6, <1>7, <1>8, <1>9, <1>10

LEMMA FollowFits ==
    ASSUME NEW t, Backed(plan[t]), Current(t).kind # "do", NEW r, NEW p \in Following(t, r)
    PROVE  Fits(p, plan[t], r)
<1>1. Current(t) \in Steps
  BY Rests DEF Backed, GoodPlan, Current
<1>2. Fits(Instead(t), plan[t], r)
  BY InsteadFits
<1>3. CASE Current(t).kind \in {"need", "must", "enter", "try", "raw"}
  <2>0. Do("flush").kind = "do" /\ Poll("streaming").kind = "streaming"
    OBVIOUS
  <2>1. Current(t) # Do("flush") /\ Current(t) # Poll("streaming")
    BY <1>3, <2>0
  <2>2. p \in {Instead(t), With(t, Rest(t)), With(t, <<Raw("scan0")>> \o Rest(t))}
    BY <1>3 DEF Following
  <2>3. Fits(With(t, Rest(t)), plan[t], r) /\ Fits(With(t, <<Raw("scan0")>> \o Rest(t)), plan[t], r)
    BY <2>1, PlainPreambles, NextFits, GoOnFits
  <2> QED
    BY <1>2, <2>2, <2>3
<1>4. CASE Current(t).kind \notin {"need", "must", "enter", "try", "raw"}
  <2>1. p \in Waited(t, r)
    BY <1>4 DEF Following
  <2>2. Current(t).kind \in {"isLinked", "auto", "linked", "playing", "streaming", "busy", "awake"}
    BY <1>1, <1>4 DEF Steps, Kinds
  <2> QED
    BY <2>1, <2>2, WaitFits
<1> QED
  BY <1>3, <1>4

-----------------------------------------------------------------------------
(* Who believes that the link streams has seen it.                          *)

\* The connect of a task waits for the link to stream, or has seen it do so.
Sound(t) == GoodPlan(plan[t]) /\ (Proven(plan[t]) \/ t \in seen)

TrueInv ==
    /\ \A t \in Tasks : Sound(t)
    /\ seen \subseteq {t \in Tasks : Connecting(plan[t])}
    /\ Holds(rx, "streaming") => \A t \in Tasks : Connecting(plan[t]) => t \in seen

LEMMA SoundBacked == ASSUME TrueInv, NEW t \in Tasks, plan[t] # <<>> PROVE Backed(plan[t])
BY DEF TrueInv, Sound, Backed

LEMMA Onward ==
    ASSUME TrueInv, Witness, NEW t \in Tasks,
           \A u \in Others(t) : plan'[u] = plan[u],
           Holds(rx', "streaming") => Holds(rx, "streaming") \/ chip'.link = "streaming",
           GoodPlan(plan'[t]),
           Proven(plan'[t]) \/ (Connecting(plan'[t]) /\ (t \in seen \/ chip'.link = "streaming")),
           Connecting(plan'[t]) => Connecting(plan[t]) \/ ~Holds(rx', "streaming")
    PROVE  TrueInv'
<1>1. seen' = {u \in Tasks : Connecting(plan'[u]) /\ (u \in seen \/ chip'.link = "streaming")}
  BY DEF Witness
<1>2. Sound(t)'
  BY <1>1 DEF Sound
<1>3. ASSUME NEW u \in Others(t) PROVE Sound(u)'
  <2>1. u \in Tasks /\ Sound(u) /\ plan'[u] = plan[u] /\ (u \in seen => Connecting(plan[u]))
    BY DEF TrueInv, Others
  <2> QED
    BY <1>1, <2>1 DEF Sound
<1>4. ASSUME Holds(rx', "streaming"), NEW u \in Tasks, Connecting(plan'[u]) PROVE u \in seen'
  <2>1. Connecting(plan[u])
    BY <1>4 DEF Others
  <2>2. chip'.link = "streaming" \/ u \in seen
    BY <1>4, <2>1 DEF TrueInv
  <2> QED
    BY <1>1, <1>4, <2>2
<1> QED
  BY <1>1, <1>2, <1>3, <1>4 DEF TrueInv, Others

LEMMA FitsOn ==
    ASSUME TrueInv, Witness, NEW t \in Tasks,
           \A u \in Others(t) : plan'[u] = plan[u],
           Holds(rx', "streaming") => Holds(rx, "streaming") \/ chip'.link = "streaming",
           NEW r, Fits(plan'[t], plan[t], r),
           r = "streaming" => Holds(rx, "streaming") \/ chip'.link = "streaming"
    PROVE  TrueInv'
<1>1. /\ GoodPlan(plan'[t]) /\ (Connecting(plan'[t]) => Connecting(plan[t]))
      /\ Proven(plan'[t]) \/ (Connecting(plan'[t]) /\ (~Proven(plan[t]) \/ r = "streaming"))
  BY DEF Fits
<1>2. ~Proven(plan[t]) => t \in seen
  BY DEF TrueInv, Sound
<1>3. r = "streaming" /\ Connecting(plan[t]) => t \in seen \/ chip'.link = "streaming"
  BY DEF TrueInv
<1>4. Proven(plan'[t]) \/ (Connecting(plan'[t]) /\ (t \in seen \/ chip'.link = "streaming"))
  BY <1>1, <1>2, <1>3
<1> QED
  BY <1>1, <1>4, Onward

\* What a task learns from the UART, and what it leaves there.
LEMMA DecideTrue ==
    ASSUME ShapeInv, TrueInv, Witness, NEW t \in Tasks, Busy(t), NEW r, Decide(t, r),
           Holds(rx', "streaming") => Holds(rx, "streaming") \/ chip'.link = "streaming",
           r = "streaming" => Holds(rx, "streaming") \/ chip'.link = "streaming"
    PROVE  TrueInv'
<1>1. plan'[t] \in Following(t, r) /\ \A u \in Others(t) : plan'[u] = plan[u]
  BY Decided DEF ShapeInv, PlansInv
<1>2. Backed(plan[t]) /\ Current(t).kind # "do"
  BY SoundBacked DEF Busy
<1>3. Fits(plan'[t], plan[t], r)
  BY <1>1, <1>2, FollowFits
<1> QED
  BY <1>1, <1>3, FitsOn

LEMMA LearnTrue ==
    ASSUME ShapeInv, TrueInv, Witness, NEW t \in Tasks, Busy(t), NEW r, Decide(t, r),
           NEW text, Learns(t, text, r, rx'),
           Holds(text, "streaming") => Holds(rx, "streaming") \/ chip'.link = "streaming"
    PROVE  TrueInv'
<1>1. Holds(rx', "streaming") => Holds(text, "streaming")
  BY DEF Learns, Holds
<1>2. r = "streaming" => Holds(text, "streaming")
  BY DEF Learns
<1> QED
  BY <1>1, <1>2, DecideTrue

LEMMA ActTrue == ASSUME ShapeInv, TrueInv, Witness, NEW t \in Tasks, Acts(t) PROVE TrueInv'
<1>1. /\ Act(t) /\ plan[t] # <<>> /\ Current(t).kind = "do"
      /\ \A u \in Others(t) : plan'[u] = plan[u]
      /\ Current(t) \notin {Do("probe"), Do("enter")} => plan'[t] = With(t, Rest(t))
  BY ActsAct DEF ShapeInv
<1>2. Backed(plan[t])
  BY <1>1, SoundBacked
<1>3. rx' = rx \/ rx' = <<>>
  <2>1. Flush(t) => rx' = rx \/ rx' = <<>>
    BY DEF Flush
  <2>2. ~Flush(t) => rx' = rx
    BY DEF Acts, PinsLow, PinsHigh, SetBooted, ClearBooted, SetPairing, LinkIsUp, uart
  <2> QED
    BY <2>1, <2>2
<1>4. Holds(rx', "streaming") => Holds(rx, "streaming")
  BY <1>3 DEF Holds
<1>5. CASE Current(t) # Do("flush")
  <2>1. Current(t) # Poll("streaming")
    BY <1>1
  <2>2. Fits(With(t, Rest(t)), plan[t], "ok") /\ Fits(Instead(t), plan[t], "ok")
    BY <1>2, <1>5, <2>1, NextFits, InsteadFits
  <2>3. plan'[t] = With(t, Rest(t)) \/ plan'[t] = Instead(t)
    <3>1. "retry" \in Tasks /\ DOMAIN plan = Tasks
      BY DEF Tasks, ShapeInv, PlansInv
    <3> QED
      BY <1>1, <3>1 DEF Act
  <2>4. Fits(plan'[t], plan[t], "ok")
    BY <2>2, <2>3
  <2> QED
    BY <1>1, <1>4, <2>4, FitsOn
<1>6. CASE Current(t) = Do("flush")
  <2> DEFINE s == Head(plan[t])
  <2>1. Do("flush") \notin {Do("probe"), Do("enter")} /\ Do("flush") # Poll("streaming")
    OBVIOUS
  <2>2. plan'[t] = With(t, Tail(s)) /\ Head(s) = Do("flush")
    BY <1>1, <1>6, <2>1 DEF Rest, Current
  <2>3. /\ s \in Scripts(Steps) /\ Tame(s) /\ Tail(plan[t]) \in Seq(UnbegunScripts)
        /\ Safe(s) <=> Proven(plan[t])
        /\ Connecting(plan[t]) <=> In(Do("up"), s) /\ ~In(Do("flush"), s)
    BY <1>2 DEF Backed, GoodPlan, Proven, Connecting, Has, In
  <2>4. rx' = <<>>
    <3>1. Current(t).cmd = "flush" /\ Current(t) # Do("enter")
      BY <1>6
    <3>2. Flush(t)
      BY <3>1, WhichAct
    <3> QED
      BY <3>1, <3>2 DEF Flush
  <2> HIDE DEF s
  <2>5. In(Do("flush"), s)
    <3>1. s[1] = Do("flush") /\ 1 \in DOMAIN s
      BY <2>2, <2>3, Rests DEF Scripts
    <3> QED
      BY <3>1 DEF In
  <2>6. Safe(s)
    BY <2>3, <2>5 DEF TrueInv, Sound
  <2>7. Tail(s) \in Seq(Steps) /\ Tame(Tail(s)) /\ Safe(Tail(s))
    BY <2>1, <2>2, <2>3, <2>6, Dropped
  <2>8. Leads(plan'[t], Tail(s))
    BY <2>2, <2>3, <2>7, WithLeads
  <2>9. GoodPlan(plan'[t]) /\ Proven(plan'[t])
    BY <2>7, <2>8, Leading
  <2>10. ~Holds(rx', "streaming")
    BY <2>4 DEF Holds
  <2> QED
    BY <1>1, <2>9, <2>10, Onward
<1> QED
  BY <1>5, <1>6

LEMMA TaskTrue == ASSUME ShapeInv, TrueInv, Witness, NEW t \in Tasks, Task(t) PROVE TrueInv'
<1>0. PlansInv /\ UartInv /\ chip \in Chips /\ rx \in Seq(Answers)
  BY DEF ShapeInv, UartInv
<1>1. CASE Refused(t)
  <2>1. Busy(t) /\ Decide(t, "refused") /\ rx' = rx
    BY <1>1 DEF Refused, Ready, Busy, uart
  <2> QED
    BY <2>1, DecideTrue
<1>2. CASE Exchange(t)
  <2>1. Busy(t)
    BY <1>2, Exchanged
  <2>2. Current(t).cmd \in Commands
    BY <1>0, <2>1, Commanded
  <2>3. PICK e \in Executions(Current(t).cmd) :
           chip' = e.chip /\ \E r : Decide(t, r) /\ Learns(t, rx \o e.answer, r, rx')
    BY <1>2, Exchanged
  <2>4. Holds(rx \o e.answer, "streaming") => Holds(rx, "streaming") \/ chip'.link = "streaming"
    BY <1>0, <2>2, <2>3, Answered
  <2> QED
    BY <2>1, <2>3, <2>4, LearnTrue
<1>3. CASE Send(t)
  <2>1. Busy(t) /\ plan' = plan
    BY <1>3, Sent
  <2>2. Current(t).cmd \in Commands
    BY <1>0, <2>1, Commanded
  <2>3. rx' = rx \/ \E e \in Executions(Current(t).cmd) : chip' = e.chip /\ rx' = rx \o e.answer
    BY <1>3, Sent
  <2>4. Holds(rx', "streaming") => Holds(rx, "streaming") \/ chip'.link = "streaming"
    BY <1>0, <2>2, <2>3, Answered
  <2>5. GoodPlan(plan[t]) /\ (Proven(plan[t]) \/ t \in seen) /\ (t \in seen => Connecting(plan[t]))
    BY DEF TrueInv, Sound
  <2> QED
    BY <2>1, <2>4, <2>5, Onward
<1>4. CASE Read(t)
  <2>1. Busy(t) /\ \E r : Decide(t, r) /\ Learns(t, rx, r, rx')
    BY <1>4, HasRead
  <2> QED
    BY <2>1, LearnTrue
<1>5. CASE Acts(t)
  BY <1>5, ActTrue
<1> QED
  BY <1>1, <1>2, <1>3, <1>4, <1>5 DEF Task

\* The module speaks of its own accord.
LEMMA ToldTrue ==
    ASSUME TrueInv, Witness, plan' = plan,
           Holds(rx', "streaming") => Holds(rx, "streaming") \/ chip'.link = "streaming"
    PROVE  TrueInv'
<1>1. "http" \in Tasks
  BY DEF Tasks
<1>2. /\ GoodPlan(plan["http"]) /\ (Proven(plan["http"]) \/ "http" \in seen)
      /\ ("http" \in seen => Connecting(plan["http"]))
  BY <1>1 DEF TrueInv, Sound
<1> QED
  BY <1>1, <1>2, Onward

LEMMA TrueStep == ASSUME ShapeInv, TrueInv, BluetoothNext PROVE TrueInv'
<1>0. Witness /\ UartInv /\ chip \in Chips /\ rx \in Seq(Answers) /\ DOMAIN plan = Tasks
  BY DEF BluetoothNext, Progress, ShapeInv, PlansInv, UartInv
<1>1. CASE CatchUp
  <2>1. Head(cmds) \in Commands /\ plan' = plan
    BY <1>1, CaughtUp
  <2>2. \E e \in Executions(Head(cmds)) : chip' = e.chip /\ rx' = rx \o e.answer
    BY <1>1, CaughtUp
  <2>3. Holds(rx', "streaming") => Holds(rx, "streaming") \/ chip'.link = "streaming"
    BY <1>0, <2>1, <2>2, Answered
  <2> QED
    BY <1>0, <2>1, <2>3, ToldTrue
<1>2. CASE LinkChanges
  <2>1. plan' = plan
    BY <1>0, <1>2, LinkChanged
  <2>2. PICK a \in Answers : rx' = Append(rx, a) /\ a.body = chip'.link
    BY <1>0, <1>2, LinkChanged
  <2>3. \A i \in DOMAIN rx' : rx'[i] = a \/ (i \in DOMAIN rx /\ rx'[i] = rx[i])
    BY <1>0, <2>2
  <2>4. Holds(rx', "streaming") => Holds(rx, "streaming") \/ chip'.link = "streaming"
    BY <2>2, <2>3 DEF Holds
  <2> QED
    BY <1>0, <2>1, <2>4, ToldTrue
<1>3. ASSUME NEW t \in Tasks, Task(t) PROVE TrueInv'
  BY <1>0, <1>3, TaskTrue
<1>4. ASSUME NEW t, NEW p, Begins(t, p) PROVE TrueInv'
  <2>1. t \in Tasks /\ plan[t] = <<>> /\ plan' = [plan EXCEPT ![t] = p] /\ rx' = rx
    BY <1>4 DEF Begins, Start, uart
  <2>2. plan'[t] = p /\ \A u \in Others(t) : plan'[u] = plan[u]
    BY <1>0, <2>1 DEF Others
  <2>3. p \in Seq(UnbegunScripts)
    BY <1>4, BeginningsFresh
  <2>4. Fits(plan'[t], plan[t], "ok")
    BY <2>2, <2>3, FreshFits
  <2> QED
    BY <1>0, <2>1, <2>2, <2>4, FitsOn
<1> QED
  BY <1>1, <1>2, <1>3, <1>4, Beginnings DEF BluetoothNext, Progress

LEMMA TrueInitial == ASSUME BluetoothInit PROVE TrueInv
<1>1. ASSUME NEW t \in Tasks PROVE Sound(t)
  <2>1. plan[t] = BootPlan(PostBoot) \/ plan[t] = ReconnectPlan(TRUE) \/ plan[t] = <<>>
    BY DEF BluetoothInit
  <2>2. BootPlan(PostBoot) \in Seq(UnbegunScripts)
    BY PostBootTries, BootFresh DEF Scripts
  <2>3. ReconnectPlan(TRUE) \in Seq(UnbegunScripts)
    BY ReconnectFresh, Zenon
  <2>4. plan[t] \in Seq(UnbegunScripts)
    <3>1. <<>> \in Seq(UnbegunScripts)
      OBVIOUS
    <3> QED
      BY <2>1, <2>2, <2>3, <3>1
  <2>5. Fits(plan[t], <<>>, "ok")
    BY <2>4, FreshFits
  <2>6. ~Connecting(<<>>)
    BY DEF Connecting, Has
  <2> QED
    BY <2>5, <2>6 DEF Fits, Sound
<1>2. seen = {} /\ ~Holds(rx, "streaming")
  BY DEF BluetoothInit, Holds
<1> QED
  BY <1>1, <1>2 DEF TrueInv

LEMMA TrueFrame == ASSUME TrueInv, UNCHANGED bluetoothVars PROVE TrueInv'
BY DEF TrueInv, Sound, GoodPlan, Proven, Connecting, bluetoothVars

\* A connect that succeeds has seen the link stream since its own flush, whosever
\* answers it read (connectDirect, waitForA2dpConnected, ensureA2dpStreaming).
THEOREM ConnectIsTrueHolds == BluetoothSpec => []ConnectIsTrue
<1>1. BluetoothInit => TrueInv
  BY TrueInitial
<1>2. ShapeInv /\ TrueInv /\ [BluetoothNext]_bluetoothVars => TrueInv'
  BY TrueStep, TrueFrame
<1>3. TrueInv => ConnectIsTrue
  <2> SUFFICES ASSUME TrueInv, NEW t \in Tasks, plan[t] # <<>>, Current(t) = Do("up"), t \notin seen
               PROVE  FALSE
    BY DEF ConnectIsTrue
  <2> DEFINE s == Head(plan[t])
  <2>1. s \in Scripts(Steps) /\ Safe(s) /\ Head(s) = Do("up")
    BY DEF TrueInv, Sound, GoodPlan, Proven, Current
  <2> HIDE DEF s
  <2>2. s[1] = Do("up") /\ DOMAIN s = 1..Len(s) /\ Len(s) \in Nat \ {0}
    BY <2>1, Rests DEF Scripts
  <2>3. 1 \in DOMAIN s /\ \A j \in DOMAIN s : 1 <= j
    BY <2>2
  <2>4. In(Do("up"), s)
    BY <2>2, <2>3 DEF In
  <2> QED
    BY <2>1, <2>2, <2>3, <2>4 DEF Safe
<1> QED
  BY <1>1, <1>2, <1>3, BluetoothPower, PTL DEF BluetoothSpec
=============================================================================
