--------------------------- MODULE FirmwareProofs ---------------------------
(***************************************************************************)
(* Theorems about Firmware: an upload leaves nothing open, an answered     *)
(* update is what boots, there is always something to boot, and the        *)
(* restart leaves the answer its time; for every set of image slots, size, *)
(* delay and set of failing calls.                                         *)
(***************************************************************************)
EXTENDS Firmware, TLAPS

Contents == Bootable \cup {"empty", "torn", "files"}
States == {"undefined", "new", "pending", "valid", "invalid", "aborted"}
Stages == {"IDLE", "STARTING", "IN_PROGRESS", "COMPLETE", "FAILED"}
AfterEnd == {"idle", "flag", "time"}
Places == AfterEnd \cup {"receive", "close", "project", "erase", "setboot", "finish"}
Images == Firmwares \cup Companions \cup {"files"}

Job == [pc : Places, kind : {"app", "image", "fs"}, target : Partitions, image : Images,
        left : Nat, written : Nat, open : BOOLEAN, timeouts : Nat, ok : BOOLEAN]

Typed ==
    /\ content \in [Partitions -> Contents] /\ otaState \in [AppSlots -> States]
    /\ bootSlot \in AppSlots /\ running \in AppSlots
    /\ upload \in Job /\ stage \in Stages
    /\ handle \in BOOLEAN /\ pending \in BOOLEAN /\ rebootRequested \in BOOLEAN
    /\ rebootTime \in Nat /\ now \in Nat /\ reportedAt \in Nat

(* What an upload holds at each step of its handler.                       *)
UploadInv ==
    /\ handle => upload.pc \in {"receive", "close"}
    /\ callbacks = IF upload.pc \in AfterEnd THEN 0 ELSE 1
    /\ Busy <=> upload.pc \notin AfterEnd
    /\ upload.pc \in {"flag", "time"} => stage = "COMPLETE"

(* What it writes: never the running slot, and not before it is opened.    *)
TargetInv ==
    /\ upload.pc # "idle" => \/ upload.kind = "app" /\ upload.target = Other(running)
                             \/ upload.kind = "image" /\ upload.target \in ImageSlots
                             \/ upload.kind = "fs" /\ upload.target = "fs" /\ upload.image = "files"
    /\ upload.pc = "setboot" => upload.kind = "app"
    /\ upload.pc \in {"project", "erase"} => upload.kind = "image"
    /\ upload.written > 0 => upload.open
    /\ upload.pc \in {"project", "setboot"} => upload.ok
    /\ upload.pc \in {"close", "project", "setboot", "finish"} /\ upload.ok => upload.open

(* The running image stays whole, and during a probation the other one too. *)
ProbationInv ==
    /\ content[running] \in Bootable /\ otaState[running] \in {"undefined", "valid", "pending"}
    /\ pending => otaState[running] = "pending"
    /\ otaState[running] = "pending" =>
          /\ bootSlot = running /\ content[Other(running)] \in Bootable
          /\ otaState[Other(running)] \in {"undefined", "valid"}
          /\ upload.pc # "idle" /\ upload.kind = "app" => ~upload.open

(* The other slot is made the one to boot with a whole image in it, and    *)
(* then nothing writes it before the restart.                              *)
StagedInv ==
    /\ bootSlot # running =>
          /\ otaState[bootSlot] = "new" /\ content[bootSlot] \in Bootable
          /\ stage = "COMPLETE" \/ (upload.pc = "finish" /\ upload.ok)
    /\ upload.pc = "setboot" => content[upload.target] = upload.image /\ upload.image \in Bootable
    /\ upload.pc = "finish" /\ upload.ok /\ upload.kind = "app" =>
          bootSlot = upload.target /\ content[upload.target] = upload.image
    /\ reported.slot \in AppSlots =>
          /\ stage = "COMPLETE" /\ bootSlot = reported.slot /\ reported.slot # running
          /\ content[reported.slot] = reported.image

(* The restart is dated no earlier than the answer.                        *)
RestartInv ==
    /\ reportedAt <= now
    /\ loopPc = "time" => rebootRequested
    /\ rebootRequested => stage = "COMPLETE" /\ upload.pc \in {"idle", "time"}
    /\ rebootRequested /\ upload.pc # "time" => reportedAt <= rebootTime

FirmwareInv == Typed /\ UploadInv /\ TargetInv /\ ProbationInv /\ StagedInv /\ RestartInv

-----------------------------------------------------------------------------
(* A step that neither uploads nor boots: time, the network, loop() looking *)
(* at the request, a roll-back that is refused.                            *)
Watches ==
    /\ UNCHANGED <<flash, running, otaVars, reported, reportedAt>>
    /\ pending' \in {pending, FALSE} /\ now' \in {now, now + 1}
    /\ loopPc' = "time" => rebootRequested \/ loopPc = "time"

(* The two restarts: any reset, and the end of a probation.                *)
Boots ==
    \/ BootFrom(StatesAtReset)
    \/ pending /\ CanBoot(Other(running), otaState) /\ BootFrom([otaState EXCEPT ![running] = "invalid"])

(* Every step uploads, confirms, watches or boots.                         *)
LEMMA EveryStep ==
    ASSUME FirmwareInv, [Next]_vars
    PROVE  handleOTAUpload \/ Handler \/ Confirm \/ Watches \/ Boots
<1> now \in Nat /\ pending \in BOOLEAN BY DEF FirmwareInv, Typed
<1>1. CASE Loop
    BY <1>1 DEF Loop, Watches, Boots, reports
<1>2. CASE BeginEnds
    BY <1>2 DEF BeginEnds, Watches, reports
<1>3. CASE LinkChanges
    BY <1>3 DEF LinkChanges, Watches, reports
<1>4. CASE RollBack
    <2>1. CASE UNCHANGED <<flash, running, otaVars, loopPc, net, now, reported, reportedAt>> /\ pending' = FALSE
        BY <2>1 DEF Watches
    <2> QED BY <1>4, <2>1, Zenon DEF RollBack, Boots
<1>5. CASE Tick
    BY <1>5 DEF Tick, Watches, reports
<1>6. CASE Reset
    BY <1>6 DEF Reset, Boots
<1>7. CASE UNCHANGED vars
    BY <1>7 DEF vars, Watches, reports
<1> QED BY <1>1, <1>2, <1>3, <1>4, <1>5, <1>6, <1>7 DEF Next

-----------------------------------------------------------------------------
(* The steps between two restarts.                                         *)

(* A job stays one when its place, its outcome or its counters change.     *)
LEMMA JobMoves ==
    ASSUME upload \in Job
    PROVE  /\ \A p \in Places, b \in BOOLEAN :
                /\ [upload EXCEPT !.pc = p] \in Job /\ [upload EXCEPT !.pc = p, !.ok = b] \in Job
                /\ [upload EXCEPT !.pc = p, !.ok = b, !.open = TRUE] \in Job
           /\ \A l, w, n \in Nat :
                /\ [upload EXCEPT !.timeouts = n] \in Job /\ [upload EXCEPT !.left = l, !.timeouts = n] \in Job
                /\ [upload EXCEPT !.left = l, !.timeouts = n, !.open = TRUE, !.written = w] \in Job
BY DEF Job

LEMMA NoUploadTyped ==
    /\ NoUpload \in Job
    /\ \A u \in Uploads, l \in Nat :
          [NoUpload EXCEPT !.pc = "receive", !.kind = u.kind, !.target = u.target, !.image = u.image, !.left = l] \in Job
<1>1. NoUpload \in Job BY DEF NoUpload, Job, Places, Images, Partitions, AppSlots, AfterEnd, Firmwares
<1>2. \A u \in Uploads : u.kind \in {"app", "image", "fs"} /\ u.target \in Partitions /\ u.image \in Images
    BY DEF Uploads, Partitions, Images
<1> QED BY <1>1, <1>2 DEF Job, Places

LEMMA UploadTyped ==
    ASSUME FirmwareInv, handleOTAUpload \/ Handler
    PROVE  upload' \in Job
<1> upload \in Job BY DEF FirmwareInv, Typed
<1>0. /\ \A p \in Places, b \in BOOLEAN :
             /\ [upload EXCEPT !.pc = p] \in Job /\ [upload EXCEPT !.pc = p, !.ok = b] \in Job
             /\ [upload EXCEPT !.pc = p, !.ok = b, !.open = TRUE] \in Job
     /\ \A l, w, n \in Nat :
             /\ [upload EXCEPT !.timeouts = n] \in Job /\ [upload EXCEPT !.left = l, !.timeouts = n] \in Job
             /\ [upload EXCEPT !.left = l, !.timeouts = n, !.open = TRUE, !.written = w] \in Job
    BY JobMoves
<1>a. {"close", "finish", "project", "setboot", "erase", "flag", "time"} \subseteq Places BY DEF Places, AfterEnd
<1>b. Fails \in Job BY <1>0, <1>a DEF Fails
<1>c. upload.left \in Nat /\ upload.written \in Nat /\ upload.timeouts \in Nat BY DEF Job
<1>d. upload.written + 1 \in Nat /\ upload.timeouts + 1 \in Nat /\ (upload.left > 0 => upload.left - 1 \in Nat)
    BY <1>c
<1>1. CASE handleOTAUpload
    <2>1. PICK u \in Uploads, size \in 1..(PartitionSize + FRAMING) :
             upload' = [NoUpload EXCEPT !.pc = "receive", !.kind = u.kind, !.target = u.target, !.image = u.image, !.left = size]
        BY <1>1 DEF handleOTAUpload
    <2>2. size \in Nat BY SizesAssumption
    <2> QED BY <2>1, <2>2, NoUploadTyped
<1>2. CASE ReceiveTimeout BY <1>2, <1>0, <1>b, <1>d DEF ReceiveTimeout
<1>3. CASE ReceiveError BY <1>3, <1>b DEF ReceiveError
<1>4. CASE ReceiveFraming
    BY <1>4, <1>0, <1>b, <1>d DEF ReceiveFraming, Receiving
<1>5. CASE ReceiveImage
    <2>1. CASE upload' = [Received EXCEPT !.open = TRUE, !.written = @ + 1]
        <3>1. upload' = [upload EXCEPT !.left = upload.left - 1, !.timeouts = 0, !.open = TRUE, !.written = upload.written + 1]
            BY <2>1 DEF Received, Job
        <3> QED BY <3>1, <1>5, <1>0, <1>d DEF ReceiveImage, Receiving
    <2>2. CASE upload' = [Fails EXCEPT !.open = TRUE]
        <3>1. upload' = [upload EXCEPT !.pc = "close", !.ok = FALSE, !.open = TRUE]
            BY <2>2 DEF Fails, Job
        <3> QED BY <3>1, <1>0, <1>a
    <2> QED BY <2>1, <2>2, <1>5, <1>b DEF ReceiveImage
<1>6. CASE ReceiveEnd BY <1>6, <1>0, <1>a, <1>b DEF ReceiveEnd
<1>7. CASE CloseOk BY <1>7, <1>0, <1>a DEF CloseOk
<1>8. CASE CloseFailed BY <1>8, <1>0, <1>a DEF CloseFailed
<1>9. CASE CheckProject BY <1>9, <1>0, <1>a DEF CheckProject
<1>10. CASE EraseStranger BY <1>10, <1>0, <1>a DEF EraseStranger
<1>11. CASE SetBoot BY <1>11, <1>0, <1>a DEF SetBoot
<1>12. CASE Finish BY <1>12, <1>0, <1>a, NoUploadTyped, ChoicesAssumption, Zenon DEF Finish
<1>13. CASE RequestReboot BY <1>13, <1>0, <1>a, NoUploadTyped DEF RequestReboot
<1> QED BY <1>1, <1>2, <1>3, <1>4, <1>5, <1>6, <1>7, <1>8, <1>9, <1>10, <1>11, <1>12, <1>13 DEF Handler

LEMMA UploadStarted ==
    ASSUME handleOTAUpload
    PROVE  /\ upload.pc = "idle" /\ ~Busy /\ ~AwaitingRestart
           /\ upload'.pc = "receive" /\ ~upload'.open /\ upload'.written = 0
           /\ \/ upload'.kind = "app" /\ upload'.target = Other(running)
              \/ upload'.kind = "image" /\ upload'.target \in ImageSlots
              \/ upload'.kind = "fs" /\ upload'.target = "fs" /\ upload'.image = "files"
           /\ stage' = "STARTING" /\ callbacks' = callbacks + 1
           /\ UNCHANGED <<flash, running, handle, rebootRequested, rebootTime, loopPc, pending, now, reports>>
<1>1. PICK u \in Uploads, size \in 1..(PartitionSize + FRAMING) :
         /\ u.kind = "app" => u.target = Other(running)
         /\ upload' = [NoUpload EXCEPT !.pc = "receive", !.kind = u.kind, !.target = u.target, !.image = u.image, !.left = size]
    BY DEF handleOTAUpload, firmwareTarget
<1>2. \/ u.kind = "app"
      \/ u.kind = "image" /\ u.target \in ImageSlots
      \/ u.kind = "fs" /\ u.target = "fs" /\ u.image = "files"
    BY DEF Uploads
<1>3. /\ upload'.pc = "receive" /\ ~upload'.open /\ upload'.written = 0
      /\ upload'.kind = u.kind /\ upload'.target = u.target /\ upload'.image = u.image
    BY <1>1 DEF NoUpload
<1> QED BY <1>1, <1>2, <1>3 DEF handleOTAUpload, At

LEMMA ImageReceived ==
    ASSUME FirmwareInv, ReceiveImage
    PROVE  /\ upload.pc = "receive" /\ UNCHANGED <<otaState, bootSlot, running, pending, reports>>
           /\ upload'.kind = upload.kind /\ upload'.target = upload.target /\ upload'.image = upload.image
           /\ \/ upload'.pc = "close" /\ ~upload'.ok /\ upload'.open = upload.open /\ upload'.written = upload.written
                 /\ UNCHANGED <<content, stage>>
              \/ /\ upload'.pc = "receive" \/ (upload'.pc = "close" /\ ~upload'.ok)
                 /\ upload'.open
                 /\ upload.open \/ ~BeginRefused
                 /\ content' = [content EXCEPT ![upload.target] = "torn"] /\ stage' = "IN_PROGRESS"
<1> upload \in Job BY DEF FirmwareInv, Typed
<1> upload.pc = "receive" /\ UNCHANGED <<otaState, bootSlot, running, pending, reports>>
    BY DEF ReceiveImage, Receiving, At, Frame
<1>1. CASE /\ upload' = Fails /\ UNCHANGED <<content, stage, handle>>
    BY <1>1 DEF Fails, Job
<1>2. CASE /\ upload.open \/ ~BeginRefused
           /\ content' = [content EXCEPT ![upload.target] = "torn"] /\ stage' = "IN_PROGRESS"
           /\ \/ upload' = [Received EXCEPT !.open = TRUE, !.written = @ + 1]
              \/ upload' = [Fails EXCEPT !.open = TRUE]
    BY <1>2 DEF Fails, Received, Job
<1> QED BY <1>1, <1>2 DEF ReceiveImage

LEMMA ImageClosed ==
    ASSUME FirmwareInv, CloseOk
    PROVE  /\ upload.pc = "close" /\ upload.ok /\ UNCHANGED <<otaState, bootSlot, running, pending, reports, stage>>
           /\ upload'.kind = upload.kind /\ upload'.target = upload.target /\ upload'.image = upload.image
           /\ upload'.open = upload.open /\ upload'.written = upload.written
           /\ \/ /\ upload.kind = "fs" /\ content' = [content EXCEPT !["fs"] = upload.image]
                 /\ upload'.pc = "finish"
              \/ /\ upload.kind # "fs" /\ upload.image \in Bootable
                 /\ content' = [content EXCEPT ![upload.target] = upload.image]
                 /\ upload'.pc = (IF upload.kind = "image" THEN "project" ELSE "setboot") /\ upload'.ok
              \/ upload'.pc = "finish" /\ ~upload'.ok /\ UNCHANGED content
<1> upload \in Job BY DEF FirmwareInv, Typed
<1> upload.pc = "close" /\ upload.ok /\ UNCHANGED <<otaState, bootSlot, running, pending, reports, stage>>
    BY DEF CloseOk, At, Frame
<1>1. CASE /\ upload.kind = "fs" /\ content' = [content EXCEPT !["fs"] = upload.image]
           /\ upload' = [upload EXCEPT !.pc = "finish"]
    BY <1>1 DEF Job
<1>2. CASE /\ upload.kind # "fs" /\ upload.image \in Bootable
           /\ content' = [content EXCEPT ![upload.target] = upload.image]
           /\ upload' = [upload EXCEPT !.pc = IF upload.kind = "image" THEN "project" ELSE "setboot"]
    BY <1>2 DEF Job
<1>3. CASE /\ upload' = [upload EXCEPT !.pc = "finish", !.ok = FALSE] /\ UNCHANGED content
    BY <1>3 DEF Job
<1> QED BY <1>1, <1>2, <1>3 DEF CloseOk


LEMMA TypedNext == ASSUME FirmwareInv, handleOTAUpload \/ Handler \/ Confirm \/ Watches PROVE Typed'
<1> USE DEF FirmwareInv, Typed
<1>1. CASE handleOTAUpload
    BY <1>1, UploadTyped DEF handleOTAUpload, At, Frame, MayFail, Busy, flash, otaVars, reports, Contents, Stages
<1>2. CASE ReceiveTimeout
    BY <1>2, UploadTyped DEF ReceiveTimeout, At, Frame, MayFail, Busy, flash, otaVars, reports, Contents, Bootable,
       States, Handler
<1>3. CASE ReceiveError
    BY <1>3, UploadTyped DEF ReceiveError, At, Frame, MayFail, Busy, flash, otaVars, reports, Contents, Bootable,
       States, Handler
<1>4. CASE ReceiveFraming
    BY <1>4, UploadTyped DEF ReceiveFraming, At, Frame, MayFail, Busy, flash, otaVars, reports, Contents, Bootable,
       States, Handler
<1>5. CASE ReceiveImage
    BY <1>5, UploadTyped, ImageReceived DEF ReceiveImage, At, Frame, MayFail, Busy, flash, otaVars, reports, Contents,
       Bootable, States, Stages, Handler
<1>6. CASE ReceiveEnd
    BY <1>6, UploadTyped DEF ReceiveEnd, At, Frame, MayFail, Busy, flash, otaVars, reports, Contents, Bootable,
       States, Handler
<1>7. CASE CloseOk
    <2>1. upload.kind = "fs" => upload.image \in Contents BY <1>7 DEF TargetInv, CloseOk, At, Contents
    <2>2. content' \in [Partitions -> Contents] BY <2>1, <1>7, ImageClosed DEF Contents
    <2>3. handle' \in BOOLEAN /\ upload' \in Job BY <1>7, UploadTyped DEF CloseOk, Handler
    <2> QED BY <2>2, <2>3, <1>7 DEF CloseOk, Frame, reports
<1>8. CASE CloseFailed
    BY <1>8, UploadTyped DEF CloseFailed, At, Frame, MayFail, Busy, flash, otaVars, reports, Contents, Bootable,
       States, Handler
<1>9. CASE CheckProject
    BY <1>9, UploadTyped DEF CheckProject, At, Frame, MayFail, Busy, flash, otaVars, reports, Contents, Bootable,
       States, Handler
<1>10. CASE EraseStranger
    BY <1>10, UploadTyped DEF EraseStranger, At, Frame, MayFail, Busy, flash, otaVars, reports, Contents, Bootable,
       States, Handler
<1>11. CASE SetBoot
    BY <1>11, UploadTyped DEF SetBoot, At, Frame, MayFail, Busy, flash, otaVars, reports, Contents, Bootable, States,
       AppSlots, Other, Handler, TargetInv
<1>12. CASE Finish
    BY <1>12, UploadTyped DEF Finish, At, Frame, MayFail, Busy, flash, otaVars, reports, Contents, Bootable, States,
       Stages, Handler
<1>13. CASE RequestReboot
    BY <1>13, UploadTyped DEF RequestReboot, At, Frame, MayFail, Busy, flash, otaVars, reports, Contents, Bootable,
       States, Handler
<1>14. CASE Confirm
    BY <1>14 DEF Confirm, At, Frame, MayFail, Busy, flash, otaVars, reports, Contents, States
<1>15. CASE Watches
    <2>1. now' = now \/ now' = now + 1 BY <1>15 DEF Watches
    <2>2. now' \in Nat BY <2>1
    <2>3. pending' \in BOOLEAN BY <1>15, Zenon DEF Watches
    <2> QED BY <2>2, <2>3, <1>15 DEF Watches, flash, otaVars
<1> QED BY <1>1, <1>2, <1>3, <1>4, <1>5, <1>6, <1>7, <1>8, <1>9, <1>10, <1>11, <1>12, <1>13, <1>14, <1>15 DEF Handler

LEMMA UploadNext == ASSUME FirmwareInv, handleOTAUpload \/ Handler \/ Confirm \/ Watches PROVE UploadInv'
<1>1. CASE handleOTAUpload
    BY <1>1, UploadStarted, SlotsAssumption DEF FirmwareInv, Typed, UploadInv, UploadInv, AfterEnd, Busy
<1>2. CASE ReceiveTimeout
    BY <1>2, SizesAssumption, SlotsAssumption, ChoicesAssumption DEF FirmwareInv, Typed, UploadInv, TargetInv,
       ProbationInv, StagedInv, RestartInv, ReceiveTimeout, At, Frame, Fails, MayFail, Received, Receiving, Fits,
       BeginRefused, Busy, AwaitingRestart, firmwareTarget, Uploads, NoUpload, AppSlots, Partitions, flash, otaVars,
       reports, Bootable, Firmwares, Companions, Contents, States, Stages, AfterEnd
<1>3. CASE ReceiveError
    BY <1>3, SizesAssumption, SlotsAssumption, ChoicesAssumption DEF FirmwareInv, Typed, UploadInv, TargetInv,
       ProbationInv, StagedInv, RestartInv, ReceiveError, At, Frame, Fails, MayFail, Received, Receiving, Fits,
       BeginRefused, Busy, AwaitingRestart, firmwareTarget, Uploads, NoUpload, AppSlots, Partitions, flash, otaVars,
       reports, Bootable, Firmwares, Companions, Contents, States, Stages, AfterEnd
<1>4. CASE ReceiveFraming
    BY <1>4, SizesAssumption, SlotsAssumption, ChoicesAssumption DEF FirmwareInv, Typed, UploadInv, TargetInv,
       ProbationInv, StagedInv, RestartInv, ReceiveFraming, At, Frame, Fails, MayFail, Received, Receiving, Fits,
       BeginRefused, Busy, AwaitingRestart, firmwareTarget, Uploads, NoUpload, AppSlots, Partitions, flash, otaVars,
       reports, Bootable, Firmwares, Companions, Contents, States, Stages, AfterEnd, Job
<1>5. CASE ReceiveImage
    BY <1>5, SizesAssumption, SlotsAssumption, ChoicesAssumption DEF FirmwareInv, Typed, UploadInv, TargetInv,
       ProbationInv, StagedInv, RestartInv, ReceiveImage, At, Frame, Fails, MayFail, Received, Receiving, Fits,
       BeginRefused, Busy, AwaitingRestart, firmwareTarget, Uploads, NoUpload, AppSlots, Partitions, flash, otaVars,
       reports, Bootable, Firmwares, Companions, Contents, States, Stages, AfterEnd, Job
<1>6. CASE ReceiveEnd
    BY <1>6, SizesAssumption, SlotsAssumption, ChoicesAssumption DEF FirmwareInv, Typed, UploadInv, TargetInv,
       ProbationInv, StagedInv, RestartInv, ReceiveEnd, At, Frame, Fails, MayFail, Received, Receiving, Fits,
       BeginRefused, Busy, AwaitingRestart, firmwareTarget, Uploads, NoUpload, AppSlots, Partitions, flash, otaVars,
       reports, Bootable, Firmwares, Companions, Contents, States, Stages, AfterEnd, Job
<1>7. CASE CloseOk
    BY <1>7, SizesAssumption, SlotsAssumption, ChoicesAssumption DEF FirmwareInv, Typed, UploadInv, TargetInv,
       ProbationInv, StagedInv, RestartInv, CloseOk, At, Frame, Fails, MayFail, Received, Receiving, Fits,
       BeginRefused, Busy, AwaitingRestart, firmwareTarget, Uploads, NoUpload, AppSlots, Partitions, flash, otaVars,
       reports, Bootable, Firmwares, Companions, Contents, States, Stages, AfterEnd, Job
<1>8. CASE CloseFailed
    BY <1>8, SizesAssumption, SlotsAssumption, ChoicesAssumption DEF FirmwareInv, Typed, UploadInv, TargetInv,
       ProbationInv, StagedInv, RestartInv, CloseFailed, At, Frame, Fails, MayFail, Received, Receiving, Fits,
       BeginRefused, Busy, AwaitingRestart, firmwareTarget, Uploads, NoUpload, AppSlots, Partitions, flash, otaVars,
       reports, Bootable, Firmwares, Companions, Contents, States, Stages, AfterEnd
<1>9. CASE CheckProject
    BY <1>9, SizesAssumption, SlotsAssumption, ChoicesAssumption DEF FirmwareInv, Typed, UploadInv, TargetInv,
       ProbationInv, StagedInv, RestartInv, CheckProject, At, Frame, Fails, MayFail, Received, Receiving, Fits,
       BeginRefused, Busy, AwaitingRestart, firmwareTarget, Uploads, NoUpload, AppSlots, Partitions, flash, otaVars,
       reports, Bootable, Firmwares, Companions, Contents, States, Stages, AfterEnd
<1>10. CASE EraseStranger
    BY <1>10, SizesAssumption, SlotsAssumption, ChoicesAssumption DEF FirmwareInv, Typed, UploadInv, TargetInv,
       ProbationInv, StagedInv, RestartInv, EraseStranger, At, Frame, Fails, MayFail, Received, Receiving, Fits,
       BeginRefused, Busy, AwaitingRestart, firmwareTarget, Uploads, NoUpload, AppSlots, Partitions, flash, otaVars,
       reports, Bootable, Firmwares, Companions, Contents, States, Stages, AfterEnd
<1>11. CASE SetBoot
    BY <1>11, SizesAssumption, SlotsAssumption, ChoicesAssumption DEF FirmwareInv, Typed, UploadInv, TargetInv,
       ProbationInv, StagedInv, RestartInv, SetBoot, At, Frame, Fails, MayFail, Received, Receiving, Fits,
       BeginRefused, Busy, AwaitingRestart, firmwareTarget, Uploads, NoUpload, AppSlots, Partitions, flash, otaVars,
       reports, Bootable, Firmwares, Companions, Contents, States, Stages, AfterEnd, Job
<1>12. CASE Finish
    BY <1>12, SizesAssumption, SlotsAssumption, ChoicesAssumption DEF FirmwareInv, Typed, UploadInv, TargetInv,
       ProbationInv, StagedInv, RestartInv, Finish, At, Frame, Fails, MayFail, Received, Receiving, Fits,
       BeginRefused, Busy, AwaitingRestart, firmwareTarget, Uploads, NoUpload, AppSlots, Partitions, flash, otaVars,
       reports, Bootable, Firmwares, Companions, Contents, States, Stages, AfterEnd, Job
<1>13. CASE RequestReboot
    BY <1>13, SizesAssumption, SlotsAssumption, ChoicesAssumption DEF FirmwareInv, Typed, UploadInv, TargetInv,
       ProbationInv, StagedInv, RestartInv, RequestReboot, At, Frame, Fails, MayFail, Received, Receiving, Fits,
       BeginRefused, Busy, AwaitingRestart, firmwareTarget, Uploads, NoUpload, AppSlots, Partitions, flash, otaVars,
       reports, Bootable, Firmwares, Companions, Contents, States, Stages, AfterEnd, Job
<1>14. CASE Confirm
    BY <1>14, SizesAssumption, SlotsAssumption, ChoicesAssumption DEF FirmwareInv, Typed, UploadInv, TargetInv,
       ProbationInv, StagedInv, RestartInv, Confirm, At, Frame, Fails, MayFail, Received, Receiving, Fits,
       BeginRefused, Busy, AwaitingRestart, firmwareTarget, Uploads, NoUpload, AppSlots, Partitions, flash, otaVars,
       reports, Bootable, Firmwares, Companions, Contents, States, Stages, AfterEnd
<1>15. CASE Watches
    BY <1>15 DEF FirmwareInv, Typed, UploadInv, Watches, otaVars, Busy
<1> QED BY <1>1, <1>2, <1>3, <1>4, <1>5, <1>6, <1>7, <1>8, <1>9, <1>10, <1>11, <1>12, <1>13, <1>14, <1>15 DEF Handler

LEMMA TargetNext == ASSUME FirmwareInv, handleOTAUpload \/ Handler \/ Confirm \/ Watches PROVE TargetInv'
<1>1. CASE handleOTAUpload
    BY <1>1, UploadStarted, SlotsAssumption DEF FirmwareInv, Typed, TargetInv, UploadInv, AfterEnd, Busy
<1>2. CASE ReceiveTimeout
    BY <1>2, SizesAssumption, SlotsAssumption, ChoicesAssumption DEF FirmwareInv, Typed, UploadInv, TargetInv,
       ProbationInv, StagedInv, RestartInv, ReceiveTimeout, At, Frame, Fails, MayFail, Received, Receiving, Fits,
       BeginRefused, Busy, AwaitingRestart, firmwareTarget, Uploads, NoUpload, AppSlots, Partitions, flash, otaVars,
       reports, Bootable, Firmwares, Companions, Contents, States, Stages, AfterEnd
<1>3. CASE ReceiveError
    BY <1>3, SizesAssumption, SlotsAssumption, ChoicesAssumption DEF FirmwareInv, Typed, UploadInv, TargetInv,
       ProbationInv, StagedInv, RestartInv, ReceiveError, At, Frame, Fails, MayFail, Received, Receiving, Fits,
       BeginRefused, Busy, AwaitingRestart, firmwareTarget, Uploads, NoUpload, AppSlots, Partitions, flash, otaVars,
       reports, Bootable, Firmwares, Companions, Contents, States, Stages, AfterEnd
<1>4. CASE ReceiveFraming
    BY <1>4, SizesAssumption, SlotsAssumption, ChoicesAssumption DEF FirmwareInv, Typed, UploadInv, TargetInv,
       ProbationInv, StagedInv, RestartInv, ReceiveFraming, At, Frame, Fails, MayFail, Received, Receiving, Fits,
       BeginRefused, Busy, AwaitingRestart, firmwareTarget, Uploads, NoUpload, AppSlots, Partitions, flash, otaVars,
       reports, Bootable, Firmwares, Companions, Contents, States, Stages, AfterEnd, Job
<1>5. CASE ReceiveImage
    BY <1>5, ImageReceived DEF FirmwareInv, TargetInv
<1>6. CASE ReceiveEnd
    BY <1>6, SizesAssumption, SlotsAssumption, ChoicesAssumption DEF FirmwareInv, Typed, UploadInv, TargetInv,
       ProbationInv, StagedInv, RestartInv, ReceiveEnd, At, Frame, Fails, MayFail, Received, Receiving, Fits,
       BeginRefused, Busy, AwaitingRestart, firmwareTarget, Uploads, NoUpload, AppSlots, Partitions, flash, otaVars,
       reports, Bootable, Firmwares, Companions, Contents, States, Stages, AfterEnd, Job, Other
<1>7. CASE CloseOk
    BY <1>7, ImageClosed DEF FirmwareInv, TargetInv
<1>8. CASE CloseFailed
    BY <1>8, SizesAssumption, SlotsAssumption, ChoicesAssumption DEF FirmwareInv, Typed, UploadInv, TargetInv,
       ProbationInv, StagedInv, RestartInv, CloseFailed, At, Frame, Fails, MayFail, Received, Receiving, Fits,
       BeginRefused, Busy, AwaitingRestart, firmwareTarget, Uploads, NoUpload, AppSlots, Partitions, flash, otaVars,
       reports, Bootable, Firmwares, Companions, Contents, States, Stages, AfterEnd
<1>9. CASE CheckProject
    BY <1>9, SizesAssumption, SlotsAssumption, ChoicesAssumption DEF FirmwareInv, Typed, UploadInv, TargetInv,
       ProbationInv, StagedInv, RestartInv, CheckProject, At, Frame, Fails, MayFail, Received, Receiving, Fits,
       BeginRefused, Busy, AwaitingRestart, firmwareTarget, Uploads, NoUpload, AppSlots, Partitions, flash, otaVars,
       reports, Bootable, Firmwares, Companions, Contents, States, Stages, AfterEnd
<1>10. CASE EraseStranger
    BY <1>10, SizesAssumption, SlotsAssumption, ChoicesAssumption DEF FirmwareInv, Typed, UploadInv, TargetInv,
       ProbationInv, StagedInv, RestartInv, EraseStranger, At, Frame, Fails, MayFail, Received, Receiving, Fits,
       BeginRefused, Busy, AwaitingRestart, firmwareTarget, Uploads, NoUpload, AppSlots, Partitions, flash, otaVars,
       reports, Bootable, Firmwares, Companions, Contents, States, Stages, AfterEnd
<1>11. CASE SetBoot
    BY <1>11, SizesAssumption, SlotsAssumption, ChoicesAssumption DEF FirmwareInv, Typed, UploadInv, TargetInv,
       ProbationInv, StagedInv, RestartInv, SetBoot, At, Frame, Fails, MayFail, Received, Receiving, Fits,
       BeginRefused, Busy, AwaitingRestart, firmwareTarget, Uploads, NoUpload, AppSlots, Partitions, flash, otaVars,
       reports, Bootable, Firmwares, Companions, Contents, States, Stages, AfterEnd, Job, Other
<1>12. CASE Finish
    BY <1>12, SizesAssumption, SlotsAssumption, ChoicesAssumption DEF FirmwareInv, Typed, UploadInv, TargetInv,
       ProbationInv, StagedInv, RestartInv, Finish, At, Frame, Fails, MayFail, Received, Receiving, Fits,
       BeginRefused, Busy, AwaitingRestart, firmwareTarget, Uploads, NoUpload, AppSlots, Partitions, flash, otaVars,
       reports, Bootable, Firmwares, Companions, Contents, States, Stages, AfterEnd, Job
<1>13. CASE RequestReboot
    BY <1>13, SizesAssumption, SlotsAssumption, ChoicesAssumption DEF FirmwareInv, Typed, UploadInv, TargetInv,
       ProbationInv, StagedInv, RestartInv, RequestReboot, At, Frame, Fails, MayFail, Received, Receiving, Fits,
       BeginRefused, Busy, AwaitingRestart, firmwareTarget, Uploads, NoUpload, AppSlots, Partitions, flash, otaVars,
       reports, Bootable, Firmwares, Companions, Contents, States, Stages, AfterEnd, Job
<1>14. CASE Confirm
    BY <1>14, SizesAssumption, SlotsAssumption, ChoicesAssumption DEF FirmwareInv, Typed, UploadInv, TargetInv,
       ProbationInv, StagedInv, RestartInv, Confirm, At, Frame, Fails, MayFail, Received, Receiving, Fits,
       BeginRefused, Busy, AwaitingRestart, firmwareTarget, Uploads, NoUpload, AppSlots, Partitions, flash, otaVars,
       reports, Bootable, Firmwares, Companions, Contents, States, Stages, AfterEnd
<1>15. CASE Watches
    BY <1>15 DEF FirmwareInv, Typed, TargetInv, Watches, otaVars
<1> QED BY <1>1, <1>2, <1>3, <1>4, <1>5, <1>6, <1>7, <1>8, <1>9, <1>10, <1>11, <1>12, <1>13, <1>14, <1>15 DEF Handler

LEMMA ProbationNext == ASSUME FirmwareInv, handleOTAUpload \/ Handler \/ Confirm \/ Watches PROVE ProbationInv'
<1>1. CASE handleOTAUpload
    BY <1>1, UploadStarted, SlotsAssumption DEF FirmwareInv, Typed, ProbationInv, UploadInv, AfterEnd, Busy, flash
<1>2. CASE ReceiveTimeout
    BY <1>2, SizesAssumption, SlotsAssumption, ChoicesAssumption DEF FirmwareInv, Typed, UploadInv, TargetInv,
       ProbationInv, StagedInv, RestartInv, ReceiveTimeout, At, Frame, Fails, MayFail, Received, Receiving, Fits,
       BeginRefused, Busy, AwaitingRestart, firmwareTarget, Uploads, NoUpload, AppSlots, Partitions, flash, otaVars,
       reports, Bootable, Firmwares, Companions, Contents, States, Stages, AfterEnd
<1>3. CASE ReceiveError
    BY <1>3, SizesAssumption, SlotsAssumption, ChoicesAssumption DEF FirmwareInv, Typed, UploadInv, TargetInv,
       ProbationInv, StagedInv, RestartInv, ReceiveError, At, Frame, Fails, MayFail, Received, Receiving, Fits,
       BeginRefused, Busy, AwaitingRestart, firmwareTarget, Uploads, NoUpload, AppSlots, Partitions, flash, otaVars,
       reports, Bootable, Firmwares, Companions, Contents, States, Stages, AfterEnd
<1>4. CASE ReceiveFraming
    BY <1>4, SizesAssumption, SlotsAssumption, ChoicesAssumption DEF FirmwareInv, Typed, UploadInv, TargetInv,
       ProbationInv, StagedInv, RestartInv, ReceiveFraming, At, Frame, Fails, MayFail, Received, Receiving, Fits,
       BeginRefused, Busy, AwaitingRestart, firmwareTarget, Uploads, NoUpload, AppSlots, Partitions, flash, otaVars,
       reports, Bootable, Firmwares, Companions, Contents, States, Stages, AfterEnd, Job
<1>5. CASE ReceiveImage
    BY <1>5, ImageReceived, SlotsAssumption DEF FirmwareInv, Typed, TargetInv, ProbationInv, BeginRefused, Other,
       AppSlots, Partitions
<1>6. CASE ReceiveEnd
    BY <1>6, SizesAssumption, SlotsAssumption, ChoicesAssumption DEF FirmwareInv, Typed, UploadInv, TargetInv,
       ProbationInv, StagedInv, RestartInv, ReceiveEnd, At, Frame, Fails, MayFail, Received, Receiving, Fits,
       BeginRefused, Busy, AwaitingRestart, firmwareTarget, Uploads, NoUpload, AppSlots, Partitions, flash, otaVars,
       reports, Bootable, Firmwares, Companions, Contents, States, Stages, AfterEnd, Job
<1>7. CASE CloseOk
    BY <1>7, SizesAssumption, SlotsAssumption, ChoicesAssumption DEF FirmwareInv, Typed, UploadInv, TargetInv,
       ProbationInv, StagedInv, RestartInv, CloseOk, At, Frame, Fails, MayFail, Received, Receiving, Fits,
       BeginRefused, Busy, AwaitingRestart, firmwareTarget, Uploads, NoUpload, AppSlots, Partitions, flash, otaVars,
       reports, Bootable, Firmwares, Companions, Contents, States, Stages, AfterEnd, Job, Other
<1>8. CASE CloseFailed
    BY <1>8, SizesAssumption, SlotsAssumption, ChoicesAssumption DEF FirmwareInv, Typed, UploadInv, TargetInv,
       ProbationInv, StagedInv, RestartInv, CloseFailed, At, Frame, Fails, MayFail, Received, Receiving, Fits,
       BeginRefused, Busy, AwaitingRestart, firmwareTarget, Uploads, NoUpload, AppSlots, Partitions, flash, otaVars,
       reports, Bootable, Firmwares, Companions, Contents, States, Stages, AfterEnd
<1>9. CASE CheckProject
    BY <1>9, SizesAssumption, SlotsAssumption, ChoicesAssumption DEF FirmwareInv, Typed, UploadInv, TargetInv,
       ProbationInv, StagedInv, RestartInv, CheckProject, At, Frame, Fails, MayFail, Received, Receiving, Fits,
       BeginRefused, Busy, AwaitingRestart, firmwareTarget, Uploads, NoUpload, AppSlots, Partitions, flash, otaVars,
       reports, Bootable, Firmwares, Companions, Contents, States, Stages, AfterEnd
<1>10. CASE EraseStranger
    BY <1>10, SizesAssumption, SlotsAssumption, ChoicesAssumption DEF FirmwareInv, Typed, UploadInv, TargetInv,
       ProbationInv, StagedInv, RestartInv, EraseStranger, At, Frame, Fails, MayFail, Received, Receiving, Fits,
       BeginRefused, Busy, AwaitingRestart, firmwareTarget, Uploads, NoUpload, AppSlots, Partitions, flash, otaVars,
       reports, Bootable, Firmwares, Companions, Contents, States, Stages, AfterEnd, Other
<1>11. CASE SetBoot
    BY <1>11, SizesAssumption, SlotsAssumption, ChoicesAssumption DEF FirmwareInv, Typed, UploadInv, TargetInv,
       ProbationInv, StagedInv, RestartInv, SetBoot, At, Frame, Fails, MayFail, Received, Receiving, Fits,
       BeginRefused, Busy, AwaitingRestart, firmwareTarget, Uploads, NoUpload, AppSlots, Partitions, flash, otaVars,
       reports, Bootable, Firmwares, Companions, Contents, States, Stages, AfterEnd, Other
<1>12. CASE Finish
    BY <1>12, SizesAssumption, SlotsAssumption, ChoicesAssumption DEF FirmwareInv, Typed, UploadInv, TargetInv,
       ProbationInv, StagedInv, RestartInv, Finish, At, Frame, Fails, MayFail, Received, Receiving, Fits,
       BeginRefused, Busy, AwaitingRestart, firmwareTarget, Uploads, NoUpload, AppSlots, Partitions, flash, otaVars,
       reports, Bootable, Firmwares, Companions, Contents, States, Stages, AfterEnd, Job
<1>13. CASE RequestReboot
    BY <1>13, SizesAssumption, SlotsAssumption, ChoicesAssumption DEF FirmwareInv, Typed, UploadInv, TargetInv,
       ProbationInv, StagedInv, RestartInv, RequestReboot, At, Frame, Fails, MayFail, Received, Receiving, Fits,
       BeginRefused, Busy, AwaitingRestart, firmwareTarget, Uploads, NoUpload, AppSlots, Partitions, flash, otaVars,
       reports, Bootable, Firmwares, Companions, Contents, States, Stages, AfterEnd, Job
<1>14. CASE Confirm
    BY <1>14, SizesAssumption, SlotsAssumption, ChoicesAssumption DEF FirmwareInv, Typed, UploadInv, TargetInv,
       ProbationInv, StagedInv, RestartInv, Confirm, At, Frame, Fails, MayFail, Received, Receiving, Fits,
       BeginRefused, Busy, AwaitingRestart, firmwareTarget, Uploads, NoUpload, AppSlots, Partitions, flash, otaVars,
       reports, Bootable, Firmwares, Companions, Contents, States, Stages, AfterEnd
<1>15. CASE Watches
    <2>1. pending' => pending BY <1>15, Zenon DEF Watches
    <2> QED BY <2>1, <1>15 DEF FirmwareInv, ProbationInv, Watches, flash, otaVars
<1> QED BY <1>1, <1>2, <1>3, <1>4, <1>5, <1>6, <1>7, <1>8, <1>9, <1>10, <1>11, <1>12, <1>13, <1>14, <1>15 DEF Handler

LEMMA StagedNext == ASSUME FirmwareInv, handleOTAUpload \/ Handler \/ Confirm \/ Watches PROVE StagedInv'
<1>1. CASE handleOTAUpload
    BY <1>1, UploadStarted, SlotsAssumption DEF FirmwareInv, Typed, StagedInv, UploadInv, AfterEnd, Busy,
       AwaitingRestart, flash, reports
<1>2. CASE ReceiveTimeout
    BY <1>2, SizesAssumption, SlotsAssumption, ChoicesAssumption DEF FirmwareInv, Typed, UploadInv, TargetInv,
       ProbationInv, StagedInv, RestartInv, ReceiveTimeout, At, Frame, Fails, MayFail, Received, Receiving, Fits,
       BeginRefused, Busy, AwaitingRestart, firmwareTarget, Uploads, NoUpload, AppSlots, Partitions, flash, otaVars,
       reports, Bootable, Firmwares, Companions, Contents, States, Stages, AfterEnd
<1>3. CASE ReceiveError
    BY <1>3, SizesAssumption, SlotsAssumption, ChoicesAssumption DEF FirmwareInv, Typed, UploadInv, TargetInv,
       ProbationInv, StagedInv, RestartInv, ReceiveError, At, Frame, Fails, MayFail, Received, Receiving, Fits,
       BeginRefused, Busy, AwaitingRestart, firmwareTarget, Uploads, NoUpload, AppSlots, Partitions, flash, otaVars,
       reports, Bootable, Firmwares, Companions, Contents, States, Stages, AfterEnd
<1>4. CASE ReceiveFraming
    BY <1>4, SizesAssumption, SlotsAssumption, ChoicesAssumption DEF FirmwareInv, Typed, UploadInv, TargetInv,
       ProbationInv, StagedInv, RestartInv, ReceiveFraming, At, Frame, Fails, MayFail, Received, Receiving, Fits,
       BeginRefused, Busy, AwaitingRestart, firmwareTarget, Uploads, NoUpload, AppSlots, Partitions, flash, otaVars,
       reports, Bootable, Firmwares, Companions, Contents, States, Stages, AfterEnd, Job
<1>5. CASE ReceiveImage
    BY <1>5, SizesAssumption, SlotsAssumption, ChoicesAssumption DEF FirmwareInv, Typed, UploadInv, TargetInv,
       ProbationInv, StagedInv, RestartInv, ReceiveImage, At, Frame, Fails, MayFail, Received, Receiving, Fits,
       BeginRefused, Busy, AwaitingRestart, firmwareTarget, Uploads, NoUpload, AppSlots, Partitions, flash, otaVars,
       reports, Bootable, Firmwares, Companions, Contents, States, Stages, AfterEnd, Job
<1>6. CASE ReceiveEnd
    BY <1>6, SizesAssumption, SlotsAssumption, ChoicesAssumption DEF FirmwareInv, Typed, UploadInv, TargetInv,
       ProbationInv, StagedInv, RestartInv, ReceiveEnd, At, Frame, Fails, MayFail, Received, Receiving, Fits,
       BeginRefused, Busy, AwaitingRestart, firmwareTarget, Uploads, NoUpload, AppSlots, Partitions, flash, otaVars,
       reports, Bootable, Firmwares, Companions, Contents, States, Stages, AfterEnd, Job
<1>7. CASE CloseOk
    BY <1>7, ImageClosed, SlotsAssumption DEF FirmwareInv, Typed, TargetInv, StagedInv, UploadInv, Busy, AfterEnd,
       Other, AppSlots, Partitions, reports
<1>8. CASE CloseFailed
    BY <1>8, SizesAssumption, SlotsAssumption, ChoicesAssumption DEF FirmwareInv, Typed, UploadInv, TargetInv,
       ProbationInv, StagedInv, RestartInv, CloseFailed, At, Frame, Fails, MayFail, Received, Receiving, Fits,
       BeginRefused, Busy, AwaitingRestart, firmwareTarget, Uploads, NoUpload, AppSlots, Partitions, flash, otaVars,
       reports, Bootable, Firmwares, Companions, Contents, States, Stages, AfterEnd
<1>9. CASE CheckProject
    BY <1>9, SizesAssumption, SlotsAssumption, ChoicesAssumption DEF FirmwareInv, Typed, UploadInv, TargetInv,
       ProbationInv, StagedInv, RestartInv, CheckProject, At, Frame, Fails, MayFail, Received, Receiving, Fits,
       BeginRefused, Busy, AwaitingRestart, firmwareTarget, Uploads, NoUpload, AppSlots, Partitions, flash, otaVars,
       reports, Bootable, Firmwares, Companions, Contents, States, Stages, AfterEnd
<1>10. CASE EraseStranger
    BY <1>10, SizesAssumption, SlotsAssumption, ChoicesAssumption DEF FirmwareInv, Typed, UploadInv, TargetInv,
       ProbationInv, StagedInv, RestartInv, EraseStranger, At, Frame, Fails, MayFail, Received, Receiving, Fits,
       BeginRefused, Busy, AwaitingRestart, firmwareTarget, Uploads, NoUpload, AppSlots, Partitions, flash, otaVars,
       reports, Bootable, Firmwares, Companions, Contents, States, Stages, AfterEnd
<1>11. CASE SetBoot
    <2> upload \in Job BY DEF FirmwareInv, Typed
    <2>2. /\ upload.pc = "setboot" /\ upload.ok /\ UNCHANGED <<content, running, reported, stage>>
         /\ upload.kind = "app" /\ upload.target = Other(running)
         /\ stage \notin {"COMPLETE"} /\ content[upload.target] = upload.image /\ upload.image \in Bootable
        BY <1>11 DEF SetBoot, At, Frame, reports, FirmwareInv, TargetInv, UploadInv, StagedInv, AfterEnd, Busy
    <2>3. bootSlot = running /\ reported.slot \notin AppSlots
        BY <2>2 DEF FirmwareInv, StagedInv
    <2>4. CASE /\ bootSlot' = upload.target /\ otaState' = [otaState EXCEPT ![upload.target] = "new"]
               /\ upload' = [upload EXCEPT !.pc = "finish"]
        <3>1. upload'.pc = "finish" /\ upload'.ok /\ upload'.kind = "app" /\ upload'.target = upload.target /\ upload'.image = upload.image
            BY <2>2, <2>4 DEF Job
        <3> QED BY <2>2, <2>3, <2>4, <3>1 DEF StagedInv, FirmwareInv, Typed, Other, AppSlots
    <2>5. CASE upload' = [upload EXCEPT !.pc = "finish", !.ok = FALSE] /\ UNCHANGED <<bootSlot, otaState>>
        <3>1. upload'.pc = "finish" /\ ~upload'.ok BY <2>5 DEF Job
        <3> QED BY <2>2, <2>3, <2>5, <3>1 DEF StagedInv
    <2> QED BY <2>4, <2>5, <1>11 DEF SetBoot
<1>12. CASE Finish
    BY <1>12, SizesAssumption, SlotsAssumption, ChoicesAssumption DEF FirmwareInv, Typed, UploadInv, TargetInv,
       ProbationInv, StagedInv, RestartInv, Finish, At, Frame, Fails, MayFail, Received, Receiving, Fits,
       BeginRefused, Busy, AwaitingRestart, firmwareTarget, Uploads, NoUpload, AppSlots, Partitions, flash, otaVars,
       reports, Bootable, Firmwares, Companions, Contents, States, Stages, AfterEnd, Job, Other
<1>13. CASE RequestReboot
    BY <1>13, SizesAssumption, SlotsAssumption, ChoicesAssumption DEF FirmwareInv, Typed, UploadInv, TargetInv,
       ProbationInv, StagedInv, RestartInv, RequestReboot, At, Frame, Fails, MayFail, Received, Receiving, Fits,
       BeginRefused, Busy, AwaitingRestart, firmwareTarget, Uploads, NoUpload, AppSlots, Partitions, flash, otaVars,
       reports, Bootable, Firmwares, Companions, Contents, States, Stages, AfterEnd, Job
<1>14. CASE Confirm
    BY <1>14, SizesAssumption, SlotsAssumption, ChoicesAssumption DEF FirmwareInv, Typed, UploadInv, TargetInv,
       ProbationInv, StagedInv, RestartInv, Confirm, At, Frame, Fails, MayFail, Received, Receiving, Fits,
       BeginRefused, Busy, AwaitingRestart, firmwareTarget, Uploads, NoUpload, AppSlots, Partitions, flash, otaVars,
       reports, Bootable, Firmwares, Companions, Contents, States, Stages, AfterEnd
<1>15. CASE Watches
    BY <1>15 DEF FirmwareInv, Typed, StagedInv, Watches, flash, otaVars
<1> QED BY <1>1, <1>2, <1>3, <1>4, <1>5, <1>6, <1>7, <1>8, <1>9, <1>10, <1>11, <1>12, <1>13, <1>14, <1>15 DEF Handler

LEMMA RestartNext == ASSUME FirmwareInv, handleOTAUpload \/ Handler \/ Confirm \/ Watches PROVE RestartInv'
<1>1. CASE handleOTAUpload
    BY <1>1, UploadStarted, SlotsAssumption DEF FirmwareInv, Typed, RestartInv, UploadInv, AfterEnd, Busy,
       AwaitingRestart, reports
<1>2. CASE ReceiveTimeout
    BY <1>2, SizesAssumption, SlotsAssumption, ChoicesAssumption DEF FirmwareInv, Typed, UploadInv, TargetInv,
       ProbationInv, StagedInv, RestartInv, ReceiveTimeout, At, Frame, Fails, MayFail, Received, Receiving, Fits,
       BeginRefused, Busy, AwaitingRestart, firmwareTarget, Uploads, NoUpload, AppSlots, Partitions, flash, otaVars,
       reports, Bootable, Firmwares, Companions, Contents, States, Stages, AfterEnd
<1>3. CASE ReceiveError
    BY <1>3, SizesAssumption, SlotsAssumption, ChoicesAssumption DEF FirmwareInv, Typed, UploadInv, TargetInv,
       ProbationInv, StagedInv, RestartInv, ReceiveError, At, Frame, Fails, MayFail, Received, Receiving, Fits,
       BeginRefused, Busy, AwaitingRestart, firmwareTarget, Uploads, NoUpload, AppSlots, Partitions, flash, otaVars,
       reports, Bootable, Firmwares, Companions, Contents, States, Stages, AfterEnd
<1>4. CASE ReceiveFraming
    BY <1>4, SizesAssumption, SlotsAssumption, ChoicesAssumption DEF FirmwareInv, Typed, UploadInv, TargetInv,
       ProbationInv, StagedInv, RestartInv, ReceiveFraming, At, Frame, Fails, MayFail, Received, Receiving, Fits,
       BeginRefused, Busy, AwaitingRestart, firmwareTarget, Uploads, NoUpload, AppSlots, Partitions, flash, otaVars,
       reports, Bootable, Firmwares, Companions, Contents, States, Stages, AfterEnd
<1>5. CASE ReceiveImage
    BY <1>5, SizesAssumption, SlotsAssumption, ChoicesAssumption DEF FirmwareInv, Typed, UploadInv, TargetInv,
       ProbationInv, StagedInv, RestartInv, ReceiveImage, At, Frame, Fails, MayFail, Received, Receiving, Fits,
       BeginRefused, Busy, AwaitingRestart, firmwareTarget, Uploads, NoUpload, AppSlots, Partitions, flash, otaVars,
       reports, Bootable, Firmwares, Companions, Contents, States, Stages, AfterEnd
<1>6. CASE ReceiveEnd
    BY <1>6, SizesAssumption, SlotsAssumption, ChoicesAssumption DEF FirmwareInv, Typed, UploadInv, TargetInv,
       ProbationInv, StagedInv, RestartInv, ReceiveEnd, At, Frame, Fails, MayFail, Received, Receiving, Fits,
       BeginRefused, Busy, AwaitingRestart, firmwareTarget, Uploads, NoUpload, AppSlots, Partitions, flash, otaVars,
       reports, Bootable, Firmwares, Companions, Contents, States, Stages, AfterEnd
<1>7. CASE CloseOk
    BY <1>7, SizesAssumption, SlotsAssumption, ChoicesAssumption DEF FirmwareInv, Typed, UploadInv, TargetInv,
       ProbationInv, StagedInv, RestartInv, CloseOk, At, Frame, Fails, MayFail, Received, Receiving, Fits,
       BeginRefused, Busy, AwaitingRestart, firmwareTarget, Uploads, NoUpload, AppSlots, Partitions, flash, otaVars,
       reports, Bootable, Firmwares, Companions, Contents, States, Stages, AfterEnd
<1>8. CASE CloseFailed
    BY <1>8, SizesAssumption, SlotsAssumption, ChoicesAssumption DEF FirmwareInv, Typed, UploadInv, TargetInv,
       ProbationInv, StagedInv, RestartInv, CloseFailed, At, Frame, Fails, MayFail, Received, Receiving, Fits,
       BeginRefused, Busy, AwaitingRestart, firmwareTarget, Uploads, NoUpload, AppSlots, Partitions, flash, otaVars,
       reports, Bootable, Firmwares, Companions, Contents, States, Stages, AfterEnd
<1>9. CASE CheckProject
    BY <1>9, SizesAssumption, SlotsAssumption, ChoicesAssumption DEF FirmwareInv, Typed, UploadInv, TargetInv,
       ProbationInv, StagedInv, RestartInv, CheckProject, At, Frame, Fails, MayFail, Received, Receiving, Fits,
       BeginRefused, Busy, AwaitingRestart, firmwareTarget, Uploads, NoUpload, AppSlots, Partitions, flash, otaVars,
       reports, Bootable, Firmwares, Companions, Contents, States, Stages, AfterEnd
<1>10. CASE EraseStranger
    BY <1>10, SizesAssumption, SlotsAssumption, ChoicesAssumption DEF FirmwareInv, Typed, UploadInv, TargetInv,
       ProbationInv, StagedInv, RestartInv, EraseStranger, At, Frame, Fails, MayFail, Received, Receiving, Fits,
       BeginRefused, Busy, AwaitingRestart, firmwareTarget, Uploads, NoUpload, AppSlots, Partitions, flash, otaVars,
       reports, Bootable, Firmwares, Companions, Contents, States, Stages, AfterEnd
<1>11. CASE SetBoot
    BY <1>11, SizesAssumption, SlotsAssumption, ChoicesAssumption DEF FirmwareInv, Typed, UploadInv, TargetInv,
       ProbationInv, StagedInv, RestartInv, SetBoot, At, Frame, Fails, MayFail, Received, Receiving, Fits,
       BeginRefused, Busy, AwaitingRestart, firmwareTarget, Uploads, NoUpload, AppSlots, Partitions, flash, otaVars,
       reports, Bootable, Firmwares, Companions, Contents, States, Stages, AfterEnd
<1>12. CASE Finish
    BY <1>12, SizesAssumption, SlotsAssumption, ChoicesAssumption DEF FirmwareInv, Typed, UploadInv, TargetInv,
       ProbationInv, StagedInv, RestartInv, Finish, At, Frame, Fails, MayFail, Received, Receiving, Fits,
       BeginRefused, Busy, AwaitingRestart, firmwareTarget, Uploads, NoUpload, AppSlots, Partitions, flash, otaVars,
       reports, Bootable, Firmwares, Companions, Contents, States, Stages, AfterEnd
<1>13. CASE RequestReboot
    BY <1>13, SizesAssumption, SlotsAssumption, ChoicesAssumption DEF FirmwareInv, Typed, UploadInv, TargetInv,
       ProbationInv, StagedInv, RestartInv, RequestReboot, At, Frame, Fails, MayFail, Received, Receiving, Fits,
       BeginRefused, Busy, AwaitingRestart, firmwareTarget, Uploads, NoUpload, AppSlots, Partitions, flash, otaVars,
       reports, Bootable, Firmwares, Companions, Contents, States, Stages, AfterEnd, Job
<1>14. CASE Confirm
    BY <1>14, SizesAssumption, SlotsAssumption, ChoicesAssumption DEF FirmwareInv, Typed, UploadInv, TargetInv,
       ProbationInv, StagedInv, RestartInv, Confirm, At, Frame, Fails, MayFail, Received, Receiving, Fits,
       BeginRefused, Busy, AwaitingRestart, firmwareTarget, Uploads, NoUpload, AppSlots, Partitions, flash, otaVars,
       reports, Bootable, Firmwares, Companions, Contents, States, Stages, AfterEnd
<1>15. CASE Watches
    BY <1>15 DEF FirmwareInv, Typed, RestartInv, Watches, otaVars
<1> QED BY <1>1, <1>2, <1>3, <1>4, <1>5, <1>6, <1>7, <1>8, <1>9, <1>10, <1>11, <1>12, <1>13, <1>14, <1>15 DEF Handler

-----------------------------------------------------------------------------
(* A restart finds an image; one that starts its probation leaves behind   *)
(* the one that made it the next to boot.                                  *)
LEMMA Chosen ==
    ASSUME FirmwareInv, NEW states,
           \/ states = StatesAtReset
           \/ pending /\ CanBoot(Other(running), otaState) /\ states = [otaState EXCEPT ![running] = "invalid"]
    PROVE  LET s == Choice(states) IN
           /\ states \in [AppSlots -> States]
           /\ s \in AppSlots /\ content[s] \in Bootable /\ states[s] \in {"undefined", "valid", "new"}
           /\ states[s] = "new" => content[Other(s)] \in Bootable /\ states[Other(s)] \in {"undefined", "valid"}
<1> DEFINE o == Other(running)
<1>1. /\ running \in AppSlots /\ o \in AppSlots /\ o # running /\ Other(o) = running
      /\ bootSlot \in {running, o} /\ AppSlots = {running, o}
    BY DEF FirmwareInv, Typed, Other, AppSlots
<1>2. CASE states = StatesAtReset
    <2>1. states \in [AppSlots -> States] BY <1>2 DEF StatesAtReset, FirmwareInv, Typed, States
    <2>2. /\ states[running] = IF otaState[running] = "pending" THEN "aborted" ELSE otaState[running]
          /\ states[o] = IF otaState[o] = "pending" THEN "aborted" ELSE otaState[o]
        BY <1>1, <1>2 DEF StatesAtReset
    <2>3. CASE otaState[running] = "pending"
        <3>1. bootSlot = running /\ content[o] \in Bootable /\ otaState[o] \in {"undefined", "valid"}
            BY <2>3 DEF FirmwareInv, ProbationInv
        <3>2. Choice(states) = o BY <2>2, <2>3, <3>1, <1>1 DEF Choice, CanBoot
        <3> QED BY <2>1, <2>2, <3>1, <3>2, <1>1
    <2>4. CASE otaState[running] # "pending" /\ bootSlot = running
        <3>1. content[running] \in Bootable /\ states[running] \in {"undefined", "valid"}
            BY <2>2, <2>4 DEF FirmwareInv, ProbationInv
        <3>2. Choice(states) = running BY <2>4, <3>1 DEF Choice, CanBoot
        <3> QED BY <2>1, <3>1, <3>2, <1>1
    <2>5. CASE otaState[running] # "pending" /\ bootSlot = o
        <3>1. content[running] \in Bootable /\ states[running] \in {"undefined", "valid"}
            BY <2>2, <2>5 DEF FirmwareInv, ProbationInv
        <3>2. content[o] \in Bootable /\ states[o] = "new"
            BY <2>2, <2>5, <1>1 DEF FirmwareInv, StagedInv
        <3>3. Choice(states) = o BY <2>5, <3>2 DEF Choice, CanBoot
        <3> QED BY <2>1, <3>1, <3>2, <3>3, <1>1
    <2> QED BY <2>3, <2>4, <2>5, <1>1
<1>3. CASE pending /\ CanBoot(Other(running), otaState) /\ states = [otaState EXCEPT ![running] = "invalid"]
    <2>1. states \in [AppSlots -> States] /\ states[running] = "invalid" /\ states[o] = otaState[o]
        BY <1>1, <1>3 DEF FirmwareInv, Typed, States
    <2>2. bootSlot = running /\ content[o] \in Bootable /\ otaState[o] \in {"undefined", "valid"}
        BY <1>3 DEF FirmwareInv, ProbationInv
    <2>3. Choice(states) = o BY <2>1, <2>2, <1>1 DEF Choice, CanBoot
    <2> QED BY <2>1, <2>2, <2>3, <1>1
<1> QED BY <1>2, <1>3

LEMMA BootKeeps == ASSUME FirmwareInv, Boots PROVE FirmwareInv'
<1>1. PICK states :
         /\ BootFrom(states)
         /\ \/ states = StatesAtReset
            \/ pending /\ CanBoot(Other(running), otaState) /\ states = [otaState EXCEPT ![running] = "invalid"]
    BY DEF Boots
<1> DEFINE s == Choice(states)
<1>2. /\ states \in [AppSlots -> States]
      /\ s \in AppSlots /\ content[s] \in Bootable /\ states[s] \in {"undefined", "valid", "new"}
      /\ states[s] = "new" => content[Other(s)] \in Bootable /\ states[Other(s)] \in {"undefined", "valid"}
    BY <1>1, Chosen
<1>3. Other(s) \in AppSlots /\ Other(s) # s BY <1>2 DEF AppSlots, Other
<1> HIDE DEF s
<1>4. s # "none" BY <1>2 DEF AppSlots
<1>5. /\ running' = s /\ bootSlot' = s /\ UNCHANGED content
      /\ otaState' = [t \in AppSlots |-> IF t = s /\ states[t] = "new" THEN "pending" ELSE states[t]]
      /\ pending' = (states[s] = "new")
      /\ stage' = "IDLE" /\ upload' = NoUpload /\ handle' = FALSE /\ callbacks' = 0
      /\ rebootRequested' = FALSE /\ rebootTime' = 0 /\ loopPc' = "idle"
      /\ now' = 0 /\ reported' = NoReport /\ reportedAt' = 0
    BY <1>1, <1>4, Zenon DEF BootFrom, s
<1>6. /\ otaState'[s] = IF states[s] = "new" THEN "pending" ELSE states[s]
      /\ otaState'[Other(s)] = states[Other(s)] /\ otaState' \in [AppSlots -> States]
    BY <1>2, <1>3, <1>5 DEF States
<1>7. pending' \in BOOLEAN /\ (pending' => otaState'[s] = "pending")
    BY <1>5, <1>6
<1>8. Typed' BY <1>2, <1>5, <1>6, <1>7, NoUploadTyped DEF FirmwareInv, Typed, Stages
<1>9. NoUpload.pc = "idle" /\ NoReport.slot = "none" BY DEF NoUpload, NoReport
<1>10. UploadInv' /\ TargetInv' /\ RestartInv'
    BY <1>5, <1>9 DEF UploadInv, TargetInv, RestartInv, AfterEnd, Busy, NoUpload
<1>11. ProbationInv' /\ StagedInv'
    BY <1>2, <1>3, <1>5, <1>6, <1>7, <1>9 DEF ProbationInv, StagedInv, AppSlots
<1> QED BY <1>8, <1>10, <1>11 DEF FirmwareInv

LEMMA FirmwareInitial == Init => FirmwareInv
<1> SUFFICES ASSUME Init PROVE FirmwareInv OBVIOUS
<1>1. /\ running = "A" /\ bootSlot = "A" /\ content["A"] = "first" /\ otaState["A"] = "undefined"
      /\ content \in [Partitions -> Contents] /\ otaState \in [AppSlots -> States]
    BY DEF Init, AppSlots, Partitions, Contents, Bootable, States
<1>2. Typed BY <1>1, NoUploadTyped DEF Init, Typed, AppSlots, Stages
<1>3. NoUpload.pc = "idle" /\ NoUpload.written = 0 /\ NoReport.slot = "none"
    BY DEF NoUpload, NoReport
<1>4. UploadInv /\ TargetInv /\ RestartInv
    BY <1>3 DEF Init, UploadInv, TargetInv, RestartInv, AfterEnd, Busy
<1>5. ProbationInv /\ StagedInv
    BY <1>1, <1>3 DEF Init, ProbationInv, StagedInv, Bootable, AppSlots
<1> QED BY <1>2, <1>4, <1>5 DEF FirmwareInv

LEMMA FirmwareNext == FirmwareInv /\ [Next]_vars => FirmwareInv'
<1> SUFFICES ASSUME FirmwareInv, [Next]_vars PROVE FirmwareInv' OBVIOUS
<1>1. CASE Boots BY <1>1, BootKeeps
<1>2. CASE handleOTAUpload \/ Handler \/ Confirm \/ Watches
    BY <1>2, TypedNext, UploadNext, TargetNext, ProbationNext, StagedNext, RestartNext DEF FirmwareInv
<1> QED BY <1>1, <1>2, EveryStep

LEMMA FirmwareSafe == Spec => []FirmwareInv
BY FirmwareInitial, FirmwareNext, PTL DEF Spec

-----------------------------------------------------------------------------
(* Whatever fails during an upload, when its handler is done the OTA       *)
(* handle is closed, its end callback fired and its stage is a final one   *)
(* (OTAManager.cpp, handleOTAUpload).                                      *)
THEOREM NothingLeftOpen == Spec => []UploadsEnd
<1>1. FirmwareInv => UploadsEnd
    BY DEF FirmwareInv, UploadInv, UploadsEnd, AfterEnd, At
<1> QED BY <1>1, FirmwareSafe, PTL

(* Whenever the power goes, during an upload, a probation or a roll-back,  *)
(* the bootloader finds an image (superviseFirmware, handleOTAUpload).     *)
THEOREM SomethingBoots == Spec => []AlwaysBootable
<1>1. FirmwareInv => AlwaysBootable
    BY Chosen DEF AlwaysBootable, AppSlots
<1> QED BY <1>1, FirmwareSafe, PTL

(* After "Update successful" for a firmware the next restart boots exactly *)
(* that image, whenever it comes (OTAManager.cpp, handleOTAUpload).        *)
THEOREM AnsweredUpdateBoots == Spec => []ReportedUpdateBoots
<1>1. ASSUME FirmwareInv, reported.slot \in AppSlots
      PROVE  Choice(StatesAtReset) = reported.slot /\ content[reported.slot] = reported.image
    <2>1. /\ bootSlot = reported.slot /\ bootSlot # running /\ content[reported.slot] = reported.image
          /\ otaState[bootSlot] = "new" /\ content[bootSlot] \in Bootable
        BY <1>1 DEF FirmwareInv, StagedInv
    <2>2. StatesAtReset[bootSlot] = "new" BY <1>1, <2>1 DEF StatesAtReset
    <2> QED BY <2>1, <2>2 DEF Choice, CanBoot
<1> QED BY <1>1, FirmwareSafe, PTL DEF ReportedUpdateBoots

(* The restart loop() makes after an upload comes more than REBOOT_DELAY   *)
(* after the answer, except when loop() reads the time between the         *)
(* handler's two stores (OTAManager.cpp, loop).                            *)
THEOREM RestartLeavesAnswer == Spec => RebootLeavesDelay
<1>1. ASSUME FirmwareInv, Loop, ~net'.begun, ~At("time")
      PROVE  now - reportedAt > REBOOT_DELAY
    <2>1. loopPc = "time" /\ now - rebootTime > REBOOT_DELAY
        BY <1>1 DEF Loop, Overdue
    <2>2. reportedAt <= rebootTime /\ now \in Nat /\ rebootTime \in Nat /\ reportedAt \in Nat
        BY <1>1, <2>1 DEF FirmwareInv, RestartInv, Typed, At
    <2> QED BY <2>1, <2>2, SizesAssumption
<1>2. FirmwareInv => [Loop /\ ~net'.begun /\ ~At("time") => now - reportedAt > REBOOT_DELAY]_vars
    BY <1>1
<1> QED BY <1>2, FirmwareSafe, PTL DEF RebootLeavesDelay
=============================================================================
