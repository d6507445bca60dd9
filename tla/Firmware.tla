------------------------------ MODULE Firmware ------------------------------
(***************************************************************************)
(* A firmware, filesystem or image-slot upload (OTAManager.cpp), the       *)
(* partitions it writes, the restart that follows it, and the probation of *)
(* a new image (WiFiSetupManager::superviseFirmware) up to the moment it   *)
(* is confirmed or rolled back.                                            *)
(*                                                                         *)
(* Three parties run at once: the server task (the upload handler, one     *)
(* step per call that matters), the application's task (loop(), update()), *)
(* and the power, which may go between any two steps.  What is inside an   *)
(* upload is told apart only as far as the handler and the bootloader do.  *)
(* The bootloader and the IDF's otadata are external: they are modelled    *)
(* from the calls made here and what these calls are relied on for.        *)
(***************************************************************************)
EXTENDS Integers, FiniteSets

CONSTANTS
    ImageSlots,     \* labels registered with addImageSlot
    AutoReboot,     \* setAutoReboot
    FsUploads,      \* begin() was given a partition label
    Faults,         \* the calls that may fail: {"open", "write", "end", "setboot", "erase", "mark"}
    PartitionSize,  \* image chunks a partition holds
    FRAMING,        \* MULTIPART_FRAMING_MAX, in chunks
    MAX_RECV_TIMEOUTS,
    REBOOT_DELAY,   \* loop(): 2000 ms, in ticks
    ROLLBACK,       \* rollbackTimeoutMs, in ticks; 0 = no rollback
    MaxTime         \* bound: ticks since a boot

ASSUME SizesAssumption ==
    /\ PartitionSize \in Nat \ {0} /\ FRAMING \in Nat
    /\ MAX_RECV_TIMEOUTS \in Nat \ {0} /\ REBOOT_DELAY \in Nat /\ ROLLBACK \in Nat
    /\ MaxTime \in Nat
ASSUME ChoicesAssumption == AutoReboot \in BOOLEAN /\ FsUploads \in BOOLEAN
ASSUME SlotsAssumption == ImageSlots \cap {"A", "B", "fs", "none"} = {}

VARIABLES
    content,        \* what each partition holds
    otaState,       \* otadata: the state of each app slot
    bootSlot,       \* otadata: the slot to boot first
    running,        \* the slot running now, "none" if nothing could boot
    stage,          \* _currentStage
    upload,         \* the handler of /ota/upload: its place and its locals
    handle,         \* the OTA handle is open (_otaInProgress tells the handler)
    rebootRequested, rebootTime,
    loopPc,         \* loop(): between reading _rebootRequested and _rebootTime
    pending,        \* _firmwarePending
    net,            \* what superviseFirmware looks at: _server, isConnected(), _apMode
    now,            \* ticks since this boot
    reported,       \* history: the slot and image an "Update successful" was about
    reportedAt,     \* history: when it was sent
    refused,        \* history: the call that rolls back came back with an error
    callbacks       \* history: start callbacks without their end callback

flash == <<content, otaState, bootSlot>>
otaVars == <<stage, upload, handle, rebootRequested, rebootTime, callbacks>>
reports == <<reported, reportedAt, refused>>
vars == <<flash, running, otaVars, loopPc, pending, net, now, reports>>

AppSlots == {"A", "B"}
Partitions == AppSlots \cup ImageSlots \cup {"fs"}

(* What an upload may carry: a firmware that becomes reachable, one that   *)
(* runs but never does, one the IDF refuses; for an image slot, the right  *)
(* project or another one; a filesystem.                                   *)
Bootable == {"first", "good", "dead", "companion", "stranger"}
Firmwares == {"good", "dead", "corrupt"}
Companions == {"companion", "stranger", "corrupt"}
Uploads ==
    [kind : {"app"}, target : AppSlots, image : Firmwares]
        \cup [kind : {"image"}, target : ImageSlots, image : Companions]
        \cup (IF FsUploads THEN [kind : {"fs"}, target : {"fs"}, image : {"files"}] ELSE {})

NoUpload == [pc |-> "idle", kind |-> "app", target |-> "A", image |-> "corrupt", left |-> 0,
             written |-> 0, open |-> FALSE, timeouts |-> 0, ok |-> TRUE]
NoReport == [slot |-> "none", image |-> "none"]
Down == [server |-> FALSE, connected |-> FALSE, apMode |-> FALSE, begun |-> FALSE]

Other(s) == IF s = "A" THEN "B" ELSE "A"

FirstListed == "A"

(* firmwareTarget: never the running slot. *)
firmwareTarget == Other(running)

Init ==
    /\ content = [p \in Partitions |-> IF p = "A" THEN "first" ELSE "empty"]
    /\ otaState = [s \in AppSlots |-> "undefined"]
    /\ bootSlot = "A"
    /\ running = "A"
    /\ stage = "IDLE"
    /\ upload = NoUpload
    /\ handle = FALSE
    /\ rebootRequested = FALSE /\ rebootTime = 0
    /\ loopPc = "idle"
    /\ pending = FALSE
    /\ net = Down
    /\ now = 0
    /\ reported = NoReport /\ reportedAt = 0
    /\ refused = FALSE
    /\ callbacks = 0

-----------------------------------------------------------------------------
(* handleOTAUpload *)

At(pc) == upload.pc = pc
MayFail(call) == call \in Faults

(* The gates, then the start callback: an upload is refused while one runs *)
(* and while an installed one waits for its restart.                       *)
Busy == stage \in {"STARTING", "IN_PROGRESS"}
NeverAwaiting == FALSE
AwaitingRestart == stage = "COMPLETE"

handleOTAUpload ==
    /\ net.server /\ At("idle")
    /\ ~Busy /\ ~AwaitingRestart
    /\ \E u \in Uploads, size \in 1..(PartitionSize + FRAMING) :
          /\ u.kind = "app" => u.target = firmwareTarget
          /\ upload' = [NoUpload EXCEPT !.pc = "receive", !.kind = u.kind, !.target = u.target,
                                        !.image = u.image, !.left = size]
    /\ stage' = "STARTING"
    /\ callbacks' = callbacks + 1
    /\ UNCHANGED <<flash, running, handle, rebootRequested, rebootTime, loopPc, pending, net, now, reports>>

Receiving == At("receive") /\ upload.left > 0
Frame == UNCHANGED <<running, rebootRequested, rebootTime, loopPc, pending, net, now, reports>>
Fails == [upload EXCEPT !.pc = "close", !.ok = FALSE]

ReceiveTimeoutForever ==
    /\ Receiving
    /\ upload' = [upload EXCEPT !.timeouts = (@ + 1) % MAX_RECV_TIMEOUTS]
    /\ UNCHANGED <<flash, stage, handle, callbacks>> /\ Frame

(* A receive timeout: the third in a row gives up.  An error gives up at once. *)
ReceiveTimeout ==
    /\ Receiving
    /\ upload' = IF upload.timeouts + 1 < MAX_RECV_TIMEOUTS
                 THEN [upload EXCEPT !.timeouts = @ + 1] ELSE Fails
    /\ UNCHANGED <<flash, stage, handle, callbacks>> /\ Frame

ReceiveError ==
    /\ Receiving
    /\ upload' = Fails
    /\ UNCHANGED <<flash, stage, handle, callbacks>> /\ Frame

(* A chunk with no image byte to write: headers, framing, or all held back. *)
ReceiveFraming ==
    /\ Receiving
    /\ \/ upload' = [upload EXCEPT !.left = @ - 1, !.timeouts = 0]
       \/ upload' = Fails      \* malformed headers
    /\ UNCHANGED <<flash, stage, handle, callbacks>> /\ Frame

(* writeOut: the partition is opened, and destroyed, at the first image byte; *)
(* esp_ota_begin refuses while the running firmware is on probation.          *)
Fits == upload.written + 1 <= PartitionSize
Received == [upload EXCEPT !.left = @ - 1, !.timeouts = 0]
BeginRefused == upload.kind # "fs" /\ otaState[running] = "pending"
ReceiveImage ==
    /\ Receiving
    /\ \/ /\ ~Fits \/ (~upload.open /\ (BeginRefused \/ MayFail("open")))
          /\ upload' = Fails
          /\ UNCHANGED <<content, stage, handle>>
       \/ /\ Fits
          /\ upload.open \/ ~BeginRefused
          /\ content' = [content EXCEPT ![upload.target] = "torn"]
          /\ stage' = "IN_PROGRESS"
          /\ handle' = (upload.kind # "fs")
          /\ \/ upload' = [Received EXCEPT !.open = TRUE, !.written = @ + 1]
             \/ MayFail("write") /\ upload' = [Fails EXCEPT !.open = TRUE]
    /\ UNCHANGED <<otaState, bootSlot, callbacks>> /\ Frame

(* The body is complete: no closing boundary and no image data are errors. *)
ReceiveEnd ==
    /\ At("receive") /\ upload.left = 0
    /\ \/ upload.written > 0 /\ upload' = [upload EXCEPT !.pc = "close"]
       \/ upload' = Fails
    /\ UNCHANGED <<flash, stage, handle, callbacks>> /\ Frame

(* esp_ota_end validates the image and releases the handle either way; a   *)
(* failed upload releases it with esp_ota_abort.                           *)
CloseOk ==
    /\ At("close") /\ upload.ok
    /\ handle' = FALSE
    /\ \/ /\ upload.kind = "fs"
          /\ content' = [content EXCEPT !["fs"] = upload.image]
          /\ upload' = [upload EXCEPT !.pc = "finish"]
       \/ /\ upload.kind # "fs" /\ upload.image \in Bootable
          /\ content' = [content EXCEPT ![upload.target] = upload.image]
          /\ upload' = [upload EXCEPT !.pc = IF upload.kind = "image" THEN "project" ELSE "setboot"]
       \/ /\ upload.kind # "fs" /\ (upload.image \notin Bootable \/ MayFail("end"))
          /\ upload' = [upload EXCEPT !.pc = "finish", !.ok = FALSE]
          /\ UNCHANGED content
    /\ UNCHANGED <<otaState, bootSlot, stage, callbacks>> /\ Frame

CloseWithoutAbort ==
    /\ At("close") /\ ~upload.ok
    /\ upload' = [upload EXCEPT !.pc = "finish"]
    /\ UNCHANGED <<flash, stage, handle, callbacks>> /\ Frame

CloseFailed ==
    /\ At("close") /\ ~upload.ok
    /\ handle' = FALSE
    /\ upload' = [upload EXCEPT !.pc = "finish"]
    /\ UNCHANGED <<flash, stage, callbacks>> /\ Frame

(* An image slot takes one project only; another is erased again, and      *)
(* nobody looks whether the erase succeeded.                               *)
CheckProject ==
    /\ At("project")
    /\ upload' = [upload EXCEPT !.pc = IF upload.image = "companion" THEN "finish" ELSE "erase"]
    /\ UNCHANGED <<flash, stage, handle, callbacks>> /\ Frame

EraseStranger ==
    /\ At("erase")
    /\ upload' = [upload EXCEPT !.pc = "finish", !.ok = FALSE]
    /\ \/ content' = [content EXCEPT ![upload.target] = "torn"]
       \/ MayFail("erase") /\ UNCHANGED content
    /\ UNCHANGED <<otaState, bootSlot, stage, handle, callbacks>> /\ Frame

(* esp_ota_set_boot_partition: the new image boots next, on probation. *)
SetBoot ==
    /\ At("setboot")
    /\ \/ /\ bootSlot' = upload.target
          /\ otaState' = [otaState EXCEPT ![upload.target] = "new"]
          /\ upload' = [upload EXCEPT !.pc = "finish"]
       \/ /\ MayFail("setboot")
          /\ upload' = [upload EXCEPT !.pc = "finish", !.ok = FALSE]
          /\ UNCHANGED <<bootSlot, otaState>>
    /\ UNCHANGED <<content, stage, handle, callbacks>> /\ Frame

(* The end callback, the stage, the answer. *)
Finish ==
    /\ At("finish")
    /\ callbacks' = callbacks - 1
    /\ IF upload.ok
       THEN /\ stage' = "COMPLETE"
            /\ reported' = [slot |-> upload.target, image |-> upload.image]
            /\ reportedAt' = now
            /\ upload' = IF AutoReboot THEN [upload EXCEPT !.pc = "flag"] ELSE NoUpload
       ELSE /\ stage' = "FAILED"
            /\ upload' = NoUpload
            /\ UNCHANGED <<reported, reportedAt>>
    /\ UNCHANGED <<flash, running, handle, rebootRequested, rebootTime, loopPc, pending, net, now, refused>>

RequestRebootUndated ==
    /\ At("flag")
    /\ rebootRequested' = TRUE
    /\ upload' = NoUpload
    /\ UNCHANGED <<flash, running, stage, handle, rebootTime, callbacks, loopPc, pending, net, now,
                   reports>>

(* _rebootRequested = true; then _rebootTime = getMillis(). *)
RequestReboot ==
    /\ \/ /\ At("flag")
          /\ rebootRequested' = TRUE
          /\ upload' = [upload EXCEPT !.pc = "time"]
          /\ UNCHANGED rebootTime
       \/ /\ At("time")
          /\ rebootTime' = now
          /\ upload' = NoUpload
          /\ UNCHANGED rebootRequested
    /\ UNCHANGED <<flash, running, stage, handle, callbacks, loopPc, pending, net, now, reports>>

-----------------------------------------------------------------------------
(* The bootloader, and what a restart leaves behind. *)

(* A probation that ended in a reset is over: the image is given up. *)
StatesAtReset == [s \in AppSlots |-> IF otaState[s] = "pending" THEN "aborted" ELSE otaState[s]]

CanBoot(s, states) == content[s] \in Bootable /\ states[s] \notin {"invalid", "aborted"}
Choice(states) ==
    IF CanBoot(bootSlot, states) THEN bootSlot
    ELSE IF CanBoot(Other(bootSlot), states) THEN Other(bootSlot) ELSE "none"

(* The slot chosen boots; a new image boots on probation, which begin() sees. *)
BootFrom(states) ==
    LET s == Choice(states)
    IN  /\ running' = s
        /\ bootSlot' = IF s = "none" THEN bootSlot ELSE s
        /\ otaState' = [t \in AppSlots |-> IF t = s /\ states[t] = "new" THEN "pending" ELSE states[t]]
        /\ pending' = (s # "none" /\ states[s] = "new")
        /\ stage' = "IDLE" /\ upload' = NoUpload /\ handle' = FALSE /\ callbacks' = 0
        /\ rebootRequested' = FALSE /\ rebootTime' = 0 /\ loopPc' = "idle"
        /\ net' = Down /\ now' = 0 /\ reported' = NoReport /\ reportedAt' = 0 /\ refused' = FALSE
        /\ UNCHANGED content

(* A crash, a power cut, or a restart some other part of the program asked for. *)
Reset ==
    /\ running # "none"
    /\ BootFrom(StatesAtReset)

(* loop(): the flag first, the time afterwards.  While the handler is      *)
(* between its two stores the difference is of an old time, or wraps.      *)
Overdue == At("time") \/ now - rebootTime > REBOOT_DELAY
Loop ==
    /\ net.begun
    /\ \/ /\ loopPc = "idle" /\ rebootRequested
          /\ loopPc' = "time"
          /\ UNCHANGED <<flash, running, otaVars, pending, net, now, reports>>
       \/ /\ loopPc = "time" /\ now - rebootTime <= REBOOT_DELAY
          /\ loopPc' = "idle"
          /\ UNCHANGED <<flash, running, otaVars, pending, net, now, reports>>
       \/ /\ loopPc = "time" /\ Overdue
          /\ BootFrom(StatesAtReset)

-----------------------------------------------------------------------------
(* The network, and the probation. *)

Reachable == net.server /\ (net.connected \/ net.apMode)

(* begin() ends: joined, or fell back to the setup hotspot.  A dead image  *)
(* fails in some way: no WiFi, no web server, or a server nobody reaches.  *)
BeginEnds ==
    /\ running # "none" /\ ~net.begun
    /\ \E s, c, a \in BOOLEAN :
          /\ IF content[running] = "dead" THEN ~(s /\ (c \/ a)) ELSE s /\ c = ~a
          /\ net' = [server |-> s, connected |-> c, apMode |-> a, begun |-> TRUE]
    /\ UNCHANGED <<flash, running, otaVars, loopPc, pending, now, reports>>

(* The access point goes and comes back, for an image that can join it. *)
LinkChanges ==
    /\ net.begun /\ ~net.apMode /\ content[running] # "dead"
    /\ net' = [net EXCEPT !.connected = ~@]
    /\ UNCHANGED <<flash, running, otaVars, loopPc, pending, now, reports>>

(* superviseFirmware, at the end of begin() and in every update(). *)
KeepImage == Reachable
RollbackDueIfServing == ROLLBACK > 0 /\ now >= ROLLBACK /\ net.server
RollbackDue == ROLLBACK > 0 /\ now >= ROLLBACK

Confirm ==
    /\ net.begun /\ pending /\ KeepImage
    /\ pending' = FALSE
    /\ \/ otaState' = [otaState EXCEPT ![running] = "valid"]
       \/ MayFail("mark") /\ UNCHANGED otaState
    /\ UNCHANGED <<content, bootSlot, running, otaVars, loopPc, net, now, reports>>

(* esp_ota_mark_app_invalid_rollback_and_reboot returns only on failure. *)
RollBack ==
    /\ net.begun /\ pending /\ ~KeepImage /\ RollbackDue
    /\ \/ /\ CanBoot(Other(running), otaState)
          /\ BootFrom([otaState EXCEPT ![running] = "invalid"])
       \/ /\ ~CanBoot(Other(running), otaState) \/ MayFail("mark")
          /\ pending' = FALSE
          /\ refused' = MayFail("mark")
          /\ UNCHANGED <<flash, running, otaVars, loopPc, net, now, reported, reportedAt>>

Tick ==
    /\ now < MaxTime
    /\ now' = now + 1
    /\ UNCHANGED <<flash, running, otaVars, loopPc, pending, net, reports>>

Handler ==
    \/ ReceiveTimeout \/ ReceiveError \/ ReceiveFraming \/ ReceiveImage \/ ReceiveEnd
    \/ CloseOk \/ CloseFailed \/ CheckProject \/ EraseStranger \/ SetBoot \/ Finish \/ RequestReboot

Next ==
    \/ handleOTAUpload \/ Handler
    \/ Reset \/ Loop \/ BeginEnds \/ LinkChanges \/ Confirm \/ RollBack \/ Tick

Spec == Init /\ [][Next]_vars

(* The application calls update() again and again, a request being served  *)
(* goes on, begin() ends and time passes; nothing makes the power fail.    *)
Fairness ==
    /\ WF_vars(Handler) /\ WF_vars(Loop) /\ WF_vars(BeginEnds)
    /\ WF_vars(Confirm \/ RollBack) /\ WF_vars(Tick)
FairSpec == Spec /\ Fairness

-----------------------------------------------------------------------------
(* Every upload that started ended: its handle is closed, its end callback *)
(* fired and the stage is a final one, whatever went wrong on the way.     *)
UploadsEnd == At("idle") => ~handle /\ callbacks = 0 /\ ~Busy

(* Once a firmware upload is answered "Update successful", the next boot   *)
(* is that image, whenever it happens: nothing undoes a staged update.     *)
ReportedUpdateBoots ==
    reported.slot \in AppSlots =>
        /\ Choice(StatesAtReset) = reported.slot
        /\ content[reported.slot] = reported.image

(* Whenever the power goes there is an image to boot, in the middle of an  *)
(* upload, on probation and after a roll-back too.                         *)
AlwaysBootable == Choice(StatesAtReset) # "none"

RunsDead == running # "none" /\ content[running] = "dead"

(* A firmware that never becomes reachable does not keep the device,       *)
(* unless the one call that rolls back fails.                              *)
DeadImageLeaves == RunsDead ~> (~RunsDead \/ refused)

(* Every upload comes to an end. *)
UploadTerminates == ~At("idle") ~> At("idle")

(* The restart after an update leaves the client its answer: it comes more *)
(* than REBOOT_DELAY after the success, unless loop() looks between the    *)
(* handler's two stores.                                                   *)
RebootLeavesDelay ==
    [][Loop /\ ~net'.begun /\ ~At("time") => now - reportedAt > REBOOT_DELAY]_vars
=============================================================================
