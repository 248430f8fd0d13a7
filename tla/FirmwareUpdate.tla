--------------------------- MODULE FirmwareUpdate ---------------------------
(***************************************************************************)
(* The radio's firmware and the Si4684 images it boots the tuner with: two *)
(* OTA slots (OtaService, POST /api/system/ota), the probation of a new    *)
(* image (system_diag), and the flash store that keeps the three tuner     *)
(* images outside the application (Si4684ImageStore).                      *)
(*                                                                         *)
(* A full build carries its own tuner images and copies them to the store; *)
(* a bare build carries none and cannot start without the store.  ESP-IDF  *)
(* and its bootloader, with rollback enabled and no factory slot, are      *)
(* external: a new image boots once as pending, and any reset before it is *)
(* confirmed returns to the other slot.                                    *)
(***************************************************************************)
EXTENDS Integers, FiniteSets

CONSTANTS
    Versions,     \* the full builds, each with images of its own
    Flashed,      \* the full build flashed over USB
    Bare,         \* a build without embedded images
    Foreign,      \* an upload whose descriptor is not DigiRadio's
    None,         \* nothing: blank flash, an incomplete image
    MaxUploads,   \* bound on uploads begun
    MaxResets,    \* bound on panics, watchdogs and power cuts
    MaxFailures   \* bound on flash, partition and task calls that fail

Builds == Versions \cup {Bare}
Slots  == {0, 1}
Blobs  == 1..3    \* kBlobCount: ROM patch, DAB and FM image

ASSUME FirmwareUpdateAssumption ==
    /\ Flashed \in Versions /\ Bare \notin Versions
    /\ Foreign \notin Builds /\ None \notin Builds \cup {Foreign}
    /\ MaxUploads \in Nat /\ MaxResets \in Nat /\ MaxFailures \in Nat

VARIABLES
    slot,       \* the application slots: the build held, its otadata state
    selected,   \* the slot otadata selects
    running,    \* esp_ota_get_running_partition
    mode,       \* how far the boot has come
    header,     \* the store's header: the version it names, or None
    image,      \* the store's images: the version each belongs to, or None
    copier,     \* the si_store task: where it is, the image it is at
    token,      \* Si4684ImageStore::state_
    active,     \* OtaService::active_
    upload,     \* otaPostHandler: where it is, the image it receives
    rebooting,  \* is a rebootTask counting down?
    probation,  \* system_diag: the timer, the 60 s, the health request, the heap
    uploads, resets, failures,   \* bounds
    cutOff      \* history: a reset cut the last copy off

vars == <<slot, selected, running, mode, header, image, copier, token, active,
          upload, rebooting, probation, uploads, resets, failures, cutOff>>

slotVars  == <<slot, selected, running>>
flashVars == <<header, image>>
storeVars == <<copier, token, cutOff>>
otaVars   == <<active, upload, rebooting, uploads>>
bootVars  == <<mode, resets>>

CopierPCs == {"none", "open", "mark", "eraseHeader", "eraseImages", "copy",
              "header", "verify"}
Writing   == {"eraseHeader", "eraseImages", "copy", "header", "verify"}
NoCopy    == [pc |-> "none", at |-> 1]
NoUpload  == [pc |-> "idle", build |-> None]
Fresh     == [timer |-> FALSE, over |-> FALSE, health |-> FALSE, heapLow |-> FALSE]

TypeOK ==
    /\ slot \in [Slots -> [build : Builds \cup {None},
                           state : {"undefined", "new", "pending", "valid",
                                    "invalid", "aborted"}]]
    /\ selected \in Slots /\ running \in Slots
    /\ mode \in {"off", "loaded", "ready", "up", "halted"}
    /\ header \in Versions \cup {None}
    /\ image \in [Blobs -> Versions \cup {None}]
    /\ copier \in [pc : CopierPCs, at : Blobs]
    /\ token \in {"unknown", "missing", "writing", "ready"}
    /\ active \in BOOLEAN /\ rebooting \in BOOLEAN /\ cutOff \in BOOLEAN
    /\ upload \in [pc : {"idle", "header", "body", "end", "select"},
                   build : Builds \cup {Foreign, None}]
    /\ probation \in [timer : BOOLEAN, over : BOOLEAN, health : BOOLEAN,
                      heapLow : BOOLEAN]
    /\ uploads \in 0..MaxUploads /\ resets \in 0..MaxResets
    /\ failures \in 0..MaxFailures

\* A radio flashed over USB with a full build, before its first boot.  Its
\* otadata is blank, which boots and counts like a confirmed image.
Init ==
    /\ slot = [s \in Slots |-> IF s = 0 THEN [build |-> Flashed, state |-> "valid"]
                               ELSE [build |-> None, state |-> "undefined"]]
    /\ selected = 0 /\ running = 0 /\ mode = "off"
    /\ header = None /\ image = [b \in Blobs |-> None]
    /\ copier = NoCopy /\ token = "unknown" /\ cutOff = FALSE
    /\ active = FALSE /\ upload = NoUpload /\ rebooting = FALSE
    /\ probation = Fresh
    /\ uploads = 0 /\ resets = 0 /\ failures = 0

Other(s) == 1 - s
Build    == slot[running].build
Pending  == slot[running].state = "pending"
Serving  == mode \in {"ready", "up"}      \* the web server runs
Fail     == failures < MaxFailures /\ failures' = failures + 1

\* open() finds the header of version v and every image CRC right.
StoreHolds(v) == header = v /\ \A b \in Blobs : image[b] = v

StoreIsValid == \E v \in Versions : StoreHolds(v)

(***************************************************************************)
(* Reset and boot.                                                         *)
(***************************************************************************)
\* What any reset does: RAM is lost, the flash stays as it is.
Restart ==
    /\ mode' = "off"
    /\ copier' = NoCopy /\ token' = "unknown"
    /\ cutOff' = (cutOff \/ copier.pc \in Writing)
    /\ active' = FALSE /\ upload' = NoUpload /\ rebooting' = FALSE
    /\ probation' = Fresh

\* A panic, a watchdog, a power cut.
Reset ==
    /\ mode # "off"
    /\ resets < MaxResets /\ resets' = resets + 1
    /\ Restart
    /\ UNCHANGED <<slotVars, flashVars, uploads, failures>>

\* rebootTask, kRebootDelaySec after an upload was stored.
RebootTask ==
    /\ rebooting
    /\ Restart
    /\ UNCHANGED <<slotVars, flashVars, uploads, resets, failures>>

\* The bootloader: an image still pending is aborted; the selected slot is
\* taken unless its state or its image is bad; a new image becomes pending.
Bootloader ==
    /\ mode = "off" /\ mode' = "loaded"
    /\ LET aborted == [s \in Slots |-> IF slot[s].state = "pending"
                           THEN [slot[s] EXCEPT !.state = "aborted"] ELSE slot[s]]
           choice  == IF aborted[selected].state \in {"invalid", "aborted"}
                      THEN Other(selected) ELSE selected
       IN /\ slot' = [aborted EXCEPT ![choice].state =
                          IF @ = "new" THEN "pending" ELSE @]
          /\ selected' = choice
          /\ running' = IF slot[choice].build # None THEN choice ELSE Other(choice)
    /\ UNCHANGED <<flashVars, storeVars, otaVars, probation, resets, failures>>

\* HardwareBootstrap::boot of a full build: the tuner gets the embedded
\* images, and the si_store task is created last.
BootFull ==
    /\ mode = "loaded" /\ Build \in Versions
    /\ mode' = "ready"
    /\ \/ copier' = [NoCopy EXCEPT !.pc = "open"] /\ UNCHANGED failures
       \/ Fail /\ UNCHANGED copier
    /\ UNCHANGED <<slotVars, flashVars, token, cutOff, otaVars, probation, resets>>

\* The boot of a bare build that finds the images in the store.
BootBare ==
    /\ mode = "loaded" /\ Build = Bare /\ StoreIsValid
    /\ mode' = "ready" /\ token' = "ready"
    /\ UNCHANGED <<slotVars, flashVars, copier, cutOff, otaVars, probation,
                   resets, failures>>

\* open() failed: an image on probation is given up (rollBackIfUnconfirmed);
\* when ESP-IDF refuses, app_main ends.
RollBackIfUnconfirmed ==
    /\ mode = "loaded" /\ Build = Bare /\ ~StoreIsValid
    /\ Pending
    /\ \/ /\ slot' = [slot EXCEPT ![running].state = "invalid"]
          /\ Restart
          /\ UNCHANGED failures
       \/ /\ Fail
          /\ mode' = "halted" /\ token' = "missing"
          /\ UNCHANGED <<slot, copier, cutOff, active, upload, rebooting, probation>>
    /\ UNCHANGED <<selected, running, flashVars, uploads, resets>>

\* The DSP or the tuner does not boot: app_main ends, whatever the build.
BootFails ==
    /\ mode = "loaded" /\ mode' = "halted"
    /\ Fail
    /\ token' \in {token} \cup (IF Build = Bare /\ StoreIsValid THEN {"ready"} ELSE {})
    /\ UNCHANGED <<slotVars, flashVars, copier, cutOff, otaVars, probation, resets>>

\* A confirmed one ends app_main: no tuner, no network, no web server.
BootHalts ==
    /\ mode = "loaded" /\ Build = Bare /\ ~StoreIsValid
    /\ ~Pending
    /\ mode' = "halted" /\ token' = "missing"
    /\ UNCHANGED <<slotVars, flashVars, copier, cutOff, otaVars, probation,
                   resets, failures>>

(***************************************************************************)
(* imageStoreTask: Si4684ImageStore::fillFrom in a full build.             *)
(***************************************************************************)
Copier(pc) == Serving /\ copier.pc = pc

\* A flash call fails: fillFrom returns, and state_ stays as it is.
CopyFails ==
    /\ copier.pc \in {"eraseHeader", "eraseImages", "copy", "header"}
    /\ Fail
    /\ copier' = NoCopy
    /\ UNCHANGED <<slotVars, flashVars, token, cutOff, otaVars, probation, bootVars>>

\* open(), and the comparison of the stored header with the wanted one; or
\* the region cannot be registered.
StoreOpen ==
    /\ Copier("open")
    /\ \/ /\ token' = IF StoreIsValid THEN "ready" ELSE "missing"
          /\ copier' = IF StoreHolds(Build) THEN NoCopy
                       ELSE [copier EXCEPT !.pc = "mark"]
          /\ UNCHANGED failures
       \/ Fail /\ token' = "missing" /\ copier' = NoCopy
    /\ UNCHANGED <<slotVars, flashVars, cutOff, otaVars, probation, bootVars>>

\* Mutant: state_ keeps what open() said.
MutantMarkWriting ==
    /\ Copier("mark")
    /\ copier' = [copier EXCEPT !.pc = "eraseHeader"]
    /\ UNCHANGED <<slotVars, flashVars, token, cutOff, otaVars, probation,
                   bootVars, failures>>

MarkWriting ==
    /\ Copier("mark")
    /\ token' = "writing"
    /\ copier' = [copier EXCEPT !.pc = "eraseHeader"]
    /\ UNCHANGED <<slotVars, flashVars, cutOff, otaVars, probation, bootVars,
                   failures>>

\* esp_partition_erase_range goes through the sectors from the first, which
\* holds the header, to the end of the last image.
EraseHeader ==
    /\ Copier("eraseHeader")
    /\ header' = None
    /\ copier' = [copier EXCEPT !.pc = "eraseImages"]
    /\ UNCHANGED <<slotVars, image, token, cutOff, otaVars, probation, bootVars,
                   failures>>

EraseImage ==
    /\ Copier("eraseImages")
    /\ image' = [image EXCEPT ![copier.at] = None]
    /\ copier' = IF copier.at < Cardinality(Blobs)
                 THEN [copier EXCEPT !.at = @ + 1]
                 ELSE [pc |-> "copy", at |-> 1]
    /\ UNCHANGED <<slotVars, header, token, cutOff, otaVars, probation, bootVars,
                   failures>>

\* copyImage.
CopyImage ==
    /\ Copier("copy")
    /\ image' = [image EXCEPT ![copier.at] = Build]
    /\ copier' = IF copier.at < Cardinality(Blobs)
                 THEN [copier EXCEPT !.at = @ + 1]
                 ELSE [pc |-> "header", at |-> 1]
    /\ UNCHANGED <<slotVars, header, token, cutOff, otaVars, probation, bootVars,
                   failures>>

WriteHeader ==
    /\ Copier("header")
    /\ header' = Build
    /\ copier' = [copier EXCEPT !.pc = "verify"]
    /\ UNCHANGED <<slotVars, image, token, cutOff, otaVars, probation, bootVars,
                   failures>>

\* The closing open().
Verify ==
    /\ Copier("verify")
    /\ token' = IF StoreIsValid THEN "ready" ELSE "missing"
    /\ cutOff' = (cutOff /\ ~StoreIsValid)
    /\ copier' = NoCopy
    /\ UNCHANGED <<slotVars, flashVars, otaVars, probation, bootVars, failures>>

(***************************************************************************)
(* otaPostHandler and OtaService, on the one thread of the web server.     *)
(***************************************************************************)
Upload(pc) == Serving /\ upload.pc = pc
Abandon    == active' = FALSE /\ upload' = NoUpload    \* resetSession

\* Mutant: the refusal of esp_ota_begin is overlooked.
MutantBeginStream ==
    /\ Upload("idle") /\ uploads < MaxUploads /\ ~active
    /\ \E build \in Builds \cup {Foreign} :
          upload' = [pc |-> "header", build |-> build]
    /\ active' = TRUE /\ uploads' = uploads + 1
    /\ UNCHANGED <<slotVars, flashVars, storeVars, rebooting, probation, bootVars,
                   failures>>

\* beginStream.  esp_ota_begin refuses while the running image is pending.
BeginStream ==
    /\ Upload("idle") /\ uploads < MaxUploads
    /\ ~active /\ ~Pending
    /\ \E build \in Builds \cup {Foreign} :
          upload' = [pc |-> "header", build |-> build]
    /\ active' = TRUE /\ uploads' = uploads + 1
    /\ UNCHANGED <<slotVars, flashVars, storeVars, rebooting, probation, bootVars,
                   failures>>

\* The chunk that completes the descriptor: a foreign one aborts the upload
\* before anything is written, any other is the first to reach the slot.
WriteFirstChunk ==
    /\ Upload("header")
    /\ \/ /\ upload.build = Foreign
          /\ Abandon
          /\ UNCHANGED slot
       \/ /\ upload.build # Foreign
          /\ slot' = [slot EXCEPT ![Other(running)].build = None]
          /\ upload' = [upload EXCEPT !.pc = "body"]
          /\ UNCHANGED active
    /\ UNCHANGED <<selected, running, flashVars, storeVars, rebooting, uploads,
                   probation, bootVars, failures>>

\* The other chunks; with the last one the counts agree.
WriteBody ==
    /\ Upload("body")
    /\ upload' = [upload EXCEPT !.pc = "end"]
    /\ UNCHANGED <<slotVars, flashVars, storeVars, active, rebooting, uploads,
                   probation, bootVars, failures>>

\* The client goes away, or esp_ota_write fails.
AbortUpload ==
    /\ Upload("header") \/ Upload("body")
    /\ Fail
    /\ Abandon
    /\ UNCHANGED <<slotVars, flashVars, storeVars, rebooting, uploads, probation,
                   bootVars>>

\* finishStream, esp_ota_end: the image is whole, or it is refused.
EndUpload ==
    /\ Upload("end")
    /\ \/ /\ slot' = [slot EXCEPT ![Other(running)].build = upload.build]
          /\ upload' = [upload EXCEPT !.pc = "select"]
          /\ UNCHANGED <<active, failures>>
       \/ Fail /\ Abandon /\ UNCHANGED slot
    /\ UNCHANGED <<selected, running, flashVars, storeVars, rebooting, uploads,
                   probation, bootVars>>

\* finishStream, esp_ota_set_boot_partition, and the answer to the client; the
\* result of the creation of rebootTask is not looked at.
SelectSlot ==
    /\ Upload("select")
    /\ Abandon
    /\ \/ /\ slot' = [slot EXCEPT ![Other(running)].state = "new"]
          /\ selected' = Other(running)
          /\ \/ rebooting' = TRUE /\ UNCHANGED failures
             \/ Fail /\ UNCHANGED rebooting
       \/ Fail /\ UNCHANGED <<slot, selected, rebooting>>
    /\ UNCHANGED <<running, flashVars, storeVars, uploads, probation, bootVars>>

(***************************************************************************)
(* system_diag: the probation of a new image.                              *)
(***************************************************************************)
Confirmed == [slot EXCEPT ![running].state = IF @ = "pending" THEN "valid" ELSE @]

\* confirmOtaAfterProbation, at the end of app_main; without a timer the
\* image is confirmed at once.
StartProbation ==
    /\ mode = "ready" /\ mode' = "up"
    /\ \/ probation' = [probation EXCEPT !.timer = TRUE]
          /\ UNCHANGED <<slot, failures>>
       \/ Fail /\ slot' = Confirmed /\ UNCHANGED probation
    /\ UNCHANGED <<selected, running, flashVars, storeVars, otaVars, resets>>

\* The first kProbationSeconds are over.
ProbationOver ==
    /\ Serving /\ ~probation.over
    /\ probation' = [probation EXCEPT !.over = TRUE]
    /\ UNCHANGED <<slotVars, flashVars, storeVars, otaVars, bootVars, failures>>

\* heap_min_free falls below kMinHealthyHeapBytes.
HeapDips ==
    /\ Serving /\ ~probation.heapLow
    /\ Fail
    /\ probation' = [probation EXCEPT !.heapLow = TRUE]
    /\ UNCHANGED <<slotVars, flashVars, storeVars, otaVars, bootVars>>

\* GET /api/health (json()), between two other requests.
ReadHealth ==
    /\ Upload("idle") /\ probation.over /\ ~probation.health
    /\ probation' = [probation EXCEPT !.health = TRUE]
    /\ UNCHANGED <<slotVars, flashVars, storeVars, otaVars, bootVars, failures>>

\* Mutant: the timer does not wait for the health request.
MutantProbationCheck ==
    /\ mode = "up" /\ probation.timer
    /\ probation' = [probation EXCEPT !.timer = FALSE]
    /\ slot' = IF probation.health /\ ~probation.heapLow THEN Confirmed ELSE slot
    /\ UNCHANGED <<selected, running, flashVars, storeVars, otaVars, bootVars,
                   failures>>

\* probationCheck, every kProbationCheckUs while the timer runs; confirmBoot
\* may fail, and the timer is stopped all the same.
ProbationCheck ==
    /\ mode = "up" /\ probation.timer
    /\ ~Pending \/ probation.health
    /\ probation' = [probation EXCEPT !.timer = FALSE]
    /\ \/ Pending /\ ~probation.heapLow /\ slot' = Confirmed /\ UNCHANGED failures
       \/ Pending /\ ~probation.heapLow /\ Fail /\ UNCHANGED slot
       \/ (~Pending \/ probation.heapLow) /\ UNCHANGED <<slot, failures>>
    /\ UNCHANGED <<selected, running, flashVars, storeVars, otaVars, bootVars>>

-----------------------------------------------------------------------------
Boot    == \/ Bootloader \/ BootFull \/ BootBare \/ RollBackIfUnconfirmed
           \/ BootHalts \/ BootFails
FillStep == \/ StoreOpen \/ MarkWriting \/ EraseHeader \/ EraseImage \/ CopyImage
            \/ WriteHeader \/ Verify
Handler == \/ WriteFirstChunk \/ WriteBody \/ AbortUpload \/ EndUpload
           \/ SelectSlot
Next ==
    \/ Reset \/ RebootTask \/ Boot \/ FillStep \/ CopyFails \/ BeginStream
    \/ Handler \/ StartProbation \/ ProbationOver \/ HeapDips \/ ReadHealth
    \/ ProbationCheck

Spec == Init /\ [][Next]_vars

\* Tasks run and the clock passes 60 s; an upload goes on; a client looks at
\* the health page now and then.  No fairness for resets and new uploads.
FairSpec ==
    /\ Spec
    /\ WF_vars(Boot) /\ WF_vars(FillStep) /\ WF_vars(Handler)
    /\ WF_vars(RebootTask) /\ WF_vars(StartProbation) /\ WF_vars(ProbationOver)
    /\ SF_vars(ReadHealth) /\ WF_vars(ProbationCheck)

(***************************************************************************)
(* Properties.                                                             *)
(***************************************************************************)
\* While the running image is on probation, the other slot holds a whole and
\* confirmed image: whatever reset comes, there is something to return to.
\* At any time at least one slot does.
RollbackTargetWhole ==
    LET good(s) == slot[s].build \in Builds /\ slot[s].state = "valid"
    IN  /\ \E s \in Slots : good(s)
        /\ Pending => good(Other(running))

\* What /api/health calls "ready" is a store a bare build can start from, at
\* any moment of a copy and after any reset.
ReadyIsSound == token = "ready" => StoreIsValid

\* Without failures a served, healthy image does not stay on probation.
HealthyIsConfirmed == []<>(Serving /\ Pending => failures > 0)

\* Si4684ImageStore.hpp: "an interrupted copy leaves an invalid store that
\* the next boot redoes": a radio whose copy was cut off does not end up
\* with a build that cannot redo it.
InterruptedCopyRedone == cutOff => mode # "halted"
=============================================================================
