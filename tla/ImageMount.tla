----------------------------- MODULE ImageMount -----------------------------
(***************************************************************************)
(* Mounting developer disk images (devicehub-runtime                       *)
(* device/developer_image/mount.rs): the service of a session, the mount   *)
(* task it spawns, the status slot both write, and the unmount that the    *)
(* session manager performs while no session runs.  The sets come from     *)
(* ImageCatalog.                                                           *)
(*                                                                         *)
(* A task whose service is aborted is detached: dropping its JoinHandle    *)
(* does not stop it.                                                       *)
(***************************************************************************)
EXTENDS ImageCatalog

CONSTANTS
    ForeignRank,   \* compatibility_rank of a custom or Xcode set
    MaxMounts      \* bound: mounts begun

ASSUME MountAssumption ==
    ForeignRank \in [ForeignSets -> 0..2] /\ MaxMounts \in Nat

VARIABLES
    deviceKind,   \* the kind its iOS version needs
    mounted,      \* is a compatible image mounted on the device?
    mountService, \* "down", "up"
    inbox,        \* the command the service has not read yet
    mountTask,    \* the task of the service
    detached,     \* a task whose service was aborted
    leaked,       \* was there ever one?
    mountStatus,  \* DeveloperImageMountStatus::state
    mountRecord,  \* the managed operation of the last mount
    unmounting,   \* the manager's unmount: "no", "asked", "running"
    mounts

mountVars == <<deviceKind, mounted, mountService, inbox, mountTask, detached, leaked, mountStatus,
               mountRecord, unmounting, mounts>>
imageVars == <<disk, index, roots, work, removing, crashes, deviceKind, mounted, mountService, inbox, mountTask,
               detached, leaked, mountStatus, mountRecord, unmounting, mounts>>

NoTask == [at |-> "none", set |-> NoSet]
NoCommand == [type |-> "none", set |-> NoSet]
\* DeveloperImageMountState; "transferring" stands for Personalizing and
\* Uploading.
InProgress == {"validating", "transferring", "mounting"}
ImageInit ==
    /\ CatalogInit
    /\ deviceKind \in {"Legacy", "Personalized"} /\ mounted \in BOOLEAN
    /\ mountService = "down" /\ inbox = NoCommand /\ mountTask = NoTask /\ detached = NoTask /\ leaked = FALSE
    /\ mountStatus = "idle" /\ mountRecord = "none" /\ unmounting = "no" /\ mounts = 0

----------------------------------------------------------------------------
(* The service                                                             *)

\* compatibility_rank and source_rank; an imported set names no version.
Rank(s) ==
    IF index[s] = "managed" THEN <<IF KindOf[s] = "Personalized" THEN 0 ELSE 1, 2>>
    ELSE <<ForeignRank[s], IF index[s] = "custom" THEN 1 ELSE 0>>
Before(r, q) == r[1] < q[1] \/ (r[1] = q[1] /\ r[2] < q[2])

\* automatic_request.
Recommended ==
    LET fits == {s \in DOMAIN index : KindOf[s] = deviceKind /\ Rank(s)[1] < 2}
    IN {s \in fits : \A q \in fits : ~Before(Rank(q), Rank(s))}

\* ActiveDeveloperImageOperation::spawn after operations.begin.
SpawnMount(s) ==
    /\ mounts < MaxMounts /\ mounts' = mounts + 1
    /\ mountTask' = [at |-> "version", set |-> s]
    /\ mountStatus' = "validating" /\ mountRecord' = "running"

\* serve up to its loop: the policy decides whether a mount is begun; without
\* it, or when the version or the readiness cannot be read, the slot is idle.
StartMountService(automatic) ==
    /\ mountService = "down" /\ unmounting = "no" /\ mountService' = "up"
    /\ \/ mountStatus' = "idle" /\ UNCHANGED <<mountTask, mountRecord, mounts>>
       \/ automatic /\ mounted /\ mountStatus' = "mounted" /\ UNCHANGED <<mountTask, mountRecord, mounts>>
       \/ automatic /\ ~mounted /\ Recommended = {} /\ mountStatus' = "failed"
          /\ UNCHANGED <<mountTask, mountRecord, mounts>>
       \/ automatic /\ ~mounted /\ \E s \in Recommended : SpawnMount(s)
    /\ UNCHANGED <<catalogVars, deviceKind, mounted, inbox, detached, leaked, unmounting>>

\* start_developer_image_mount resolves the id, then sends the paths.
AskMount(s) ==
    /\ mountService = "up" /\ inbox = NoCommand /\ s \in DOMAIN index
    /\ inbox' = [type |-> "start", set |-> s]
    /\ UNCHANGED <<catalogVars, deviceKind, mounted, mountService, mountTask, detached, leaked, mountStatus,
                   mountRecord, unmounting, mounts>>
\* stop_developer_image_mount, or the operation is cancelled by its id.
AskStop ==
    /\ mountService = "up" /\ inbox = NoCommand /\ inbox' = [NoCommand EXCEPT !.type = "stop"]
    /\ UNCHANGED <<catalogVars, deviceKind, mounted, mountService, mountTask, detached, leaked, mountStatus,
                   mountRecord, unmounting, mounts>>

\* Start is refused while an operation is active.
TakeStart ==
    /\ mountService = "up" /\ inbox.type = "start" /\ inbox' = NoCommand
    /\ IF mountTask # NoTask THEN UNCHANGED <<mountTask, mountStatus, mountRecord, mounts>>
       ELSE SpawnMount(inbox.set)
    /\ UNCHANGED <<catalogVars, deviceKind, mounted, mountService, detached, leaked, unmounting>>

MutantCancelMount ==
    /\ mountTask' = NoTask /\ mountStatus' = "cancelled" /\ mountRecord' = "cancelled"
    /\ detached' = mountTask /\ UNCHANGED <<mounted, leaked>>

\* ActiveDeveloperImageOperation::cancel waits for the aborted task, whatever
\* it had reached; the device may finish a mount it was asked for.
CancelMount ==
    /\ mountTask' = NoTask /\ mountStatus' = "cancelled" /\ mountRecord' = "cancelled"
    /\ mounted' \in {mounted, mounted \/ mountTask.at = "mounting"}
    /\ UNCHANGED <<detached, leaked>>

TakeStop ==
    /\ mountService = "up" /\ inbox.type = "stop" /\ inbox' = NoCommand
    /\ IF mountTask # NoTask THEN CancelMount
       ELSE UNCHANGED <<mountTask, mountStatus, mountRecord, mounted, detached, leaked>>
    /\ UNCHANGED <<catalogVars, deviceKind, mountService, unmounting, mounts>>

\* wait_for_mount.
MountCompletes ==
    /\ mountService = "up" /\ mountTask.at \in {"done", "failed"}
    /\ mountTask' = NoTask
    /\ mountStatus' = IF mountTask.at = "done" THEN "mounted" ELSE "failed"
    /\ mountRecord' = IF mountTask.at = "done" THEN "succeeded" ELSE "failed"
    /\ UNCHANGED <<catalogVars, deviceKind, mounted, mountService, inbox, detached, leaked, unmounting, mounts>>

\* The session ends and the service takes part in it.
StopMountService ==
    /\ mountService = "up" /\ mountService' = "down" /\ inbox' = NoCommand
    /\ IF mountTask # NoTask THEN CancelMount
       ELSE UNCHANGED <<mountTask, mountStatus, mountRecord, mounted, detached, leaked>>
    /\ UNCHANGED <<catalogVars, deviceKind, unmounting, mounts>>

\* The service is aborted: the session failed to set up, or the service was
\* still reading the version when the grace was over.  Its task lives on; the
\* record is cancelled with the session.
AbortMountService ==
    /\ mountService = "up" /\ mountService' = "down" /\ inbox' = NoCommand
    /\ detached = NoTask /\ detached' = mountTask /\ leaked' = (leaked \/ mountTask # NoTask)
    /\ mountTask' = NoTask /\ mountRecord' = IF mountRecord = "running" THEN "cancelled" ELSE mountRecord
    /\ UNCHANGED <<catalogVars, deviceKind, mounted, mountStatus, unmounting, mounts>>

----------------------------------------------------------------------------
(* mount_image                                                             *)

Loadable(s) == s \in ForeignSets \/ (s \in ImageSets /\ Parts(s) \subseteq disk[s])

\* What a step of a task leaves: its next stage, the status, the device.
Step(at, status, onDevice) == [at |-> at, status |-> status, mounted |-> onDevice]

\* Loading the files of the set, for a personalized image those of the variant
\* the device asks for.
LoadStep(t) ==
    IF Loadable(t.set)
    THEN {Step("upload", "transferring", mounted)} ELSE {}

\* update_upload_progress reports a personalized image as mounting once all of
\* it was sent; a legacy one stays uploading.
UploadStep == {Step("mounting", IF deviceKind = "Legacy" THEN mountStatus ELSE "mounting", mounted)}

\* mount_image: nothing to do when an image is mounted, an error when the set
\* is of the other kind; everything that asks the device may fail.
MountStep(t) ==
    {Step("failed", mountStatus, mounted)} \cup
    CASE t.at = "version" ->
           IF mounted THEN {Step("done", "mounted", TRUE)}
           ELSE IF KindOf[t.set] = deviceKind THEN {Step("load", mountStatus, mounted)} ELSE {}
      [] t.at = "load" -> LoadStep(t)
      [] t.at = "upload" -> UploadStep
      [] OTHER -> {Step("done", mountStatus, TRUE)}

TaskRuns ==
    /\ mountTask.at \in {"version", "load", "upload", "mounting"}
    /\ \E r \in MountStep(mountTask) :
         mountTask' = [mountTask EXCEPT !.at = r.at] /\ mountStatus' = r.status /\ mounted' = r.mounted
    /\ UNCHANGED <<catalogVars, deviceKind, mountService, inbox, detached, leaked, mountRecord, unmounting, mounts>>

\* A detached task: nobody reads its result.
DetachedRuns ==
    /\ detached # NoTask
    /\ IF detached.at \in {"done", "failed"} THEN detached' = NoTask /\ UNCHANGED <<mountStatus, mounted>>
       ELSE \E r \in MountStep(detached) :
              detached' = [detached EXCEPT !.at = r.at] /\ mountStatus' = r.status /\ mounted' = r.mounted
    /\ UNCHANGED <<catalogVars, deviceKind, mountService, inbox, mountTask, leaked, mountRecord, unmounting, mounts>>

----------------------------------------------------------------------------
(* unmount_image, by the session manager                                   *)

\* UnmountDeveloperImage: the slot says so at once, a running session is
\* stopped first.
AskUnmount ==
    /\ unmounting = "no" /\ unmounting' = "asked" /\ mountStatus' = "unmounting"
    /\ UNCHANGED <<catalogVars, deviceKind, mounted, mountService, inbox, mountTask, detached, leaked,
                   mountRecord, mounts>>

\* unmount_developer_image, once the session has ended.
BeginUnmount ==
    /\ mountService = "down" /\ unmounting = "asked" /\ unmounting' = "running"
    /\ UNCHANGED <<catalogVars, deviceKind, mounted, mountService, inbox, mountTask, detached, leaked, mountStatus,
                   mountRecord, mounts>>

\* Unmounted after some tries, or an error (nothing mounted among them).
EndUnmount ==
    /\ unmounting = "running" /\ unmounting' = "no"
    /\ \/ mounted /\ mounted' = FALSE /\ mountStatus' = "unmounted"
       \/ mountStatus' = "failed" /\ UNCHANGED mounted
    /\ UNCHANGED <<catalogVars, deviceKind, mountService, inbox, mountTask, detached, leaked, mountRecord, mounts>>

----------------------------------------------------------------------------
ImageNext(callers) ==
    \/ CatalogNext(callers) /\ UNCHANGED mountVars
    \/ \E automatic \in BOOLEAN : StartMountService(automatic)
    \/ \E s \in AllSets : AskMount(s)
    \/ AskStop \/ TakeStart \/ TakeStop \/ MountCompletes \/ StopMountService \/ AbortMountService
    \/ TaskRuns \/ DetachedRuns \/ AskUnmount \/ BeginUnmount \/ EndUnmount

ImageSpec == ImageInit /\ [][ImageNext(Callers)]_imageVars

----------------------------------------------------------------------------
(* Properties                                                              *)

\* The status and the managed operation of a mount tell the same story, and a
\* mount or an unmount is shown as under way only while it is: cancel waits for the
\* aborted task before it writes, so that no late progress report overwrites
\* what the caller was told.  A task that a service left behind when it was
\* aborted is the one exception.
StatusSettled ==
    ~leaked =>
        /\ mountStatus \in InProgress => mountTask # NoTask
        /\ mountRecord = "running" <=> mountTask # NoTask
        /\ mountStatus = "unmounting" => unmounting # "no"
=============================================================================
