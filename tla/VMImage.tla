------------------------------ MODULE VMImage ------------------------------
(***************************************************************************)
(* The life of one VMImage that is built locally                           *)
(* (pkg/controller/vmimage/reconciler.go): Pending, Building,              *)
(* Provisioning, Uploading, Ready or Failed, rebuilds by a change of       *)
(* spec.build.revision, and deletion.                                      *)
(*                                                                         *)
(* A reconcile of the image is a sequence of API writes; every write is a  *)
(* step, so a crash or an API error may come between any two.  The work    *)
(* queue never runs two reconciles of one image at a time.  Build, upload  *)
(* and cleanup Jobs, their Pods, the workspace PVC and the provider's side *)
(* of an upload are the environment.  Names of Jobs and of the PVC are     *)
(* derived from the revision token, so these objects are indexed by it.    *)
(*                                                                         *)
(* Build slots are the subject of BuildSlots; the steps here leave them    *)
(* out, and Queue stands for an admission that finds every slot taken.     *)
(***************************************************************************)
EXTENDS Integers

CONSTANTS
  MaxGeneration,   \* bound: accepted versions of the spec
  MaxRevision,     \* bound: revision tokens
  RetainPolicies,  \* spec.build.artifactStorage.pvc.retainPolicy
  MaxFaults        \* bound: reconciles that end early (crash, API error)

ASSUME GenerationAssumption == MaxGeneration \in Nat \ {0}
ASSUME RevisionAssumption == MaxRevision \in Nat \ {0}
ASSUME PolicyAssumption ==
  RetainPolicies \subseteq {"Never", "OnFailure", "Always"}
ASSUME FaultAssumption == MaxFaults \in Nat

Generations == 1 .. MaxGeneration

(* Revision tokens and generations are numbers: 0 is "none".               *)
Revisions == 1 .. MaxRevision

VARIABLES
  phase,       \* status.phase, or "Gone" once the object is removed
  gen,         \* metadata.generation
  rev,         \* spec.build.revision
  obsGen,      \* status.observedGeneration
  obsRev,      \* status.observedRevision
  finalizer,   \* the controller's finalizer is present
  deleting,    \* metadata.deletionTimestamp is set
  artifact,    \* generation whose build made status.buildArtifact
  images,      \* generation whose build status.images shows
  uploadRef,   \* status.uploadJobRef is set
  retain,      \* the retain policy of the workspace PVC
  build,       \* build Job of each revision
  buildGen,    \* generation each build Job was assembled from
  upload,      \* upload Job of each revision
  uploadGen,   \* generation of the artifact each upload Job registered
  pod,         \* the upload Pod of the revision runs
  cleanup,     \* upload cleanup Job of each revision
  pvc,         \* workspace PVC of each revision
  volume,      \* generation of the artifact on the PVC
  record,      \* the uploader's files on the PVC name all it has uploaded
  remote,      \* what the provider holds for the revision's upload
  pc,          \* the next write of the reconcile
  faults,      \* reconciles that ended early so far
  tokens,      \* history: the revisions that earlier attempts had
  adopted      \* history: the version that a status without
               \* observedGeneration was taken to be of

specVars == <<gen, rev, retain>>
obsVars == <<obsGen, obsRev>>
resultVars == <<artifact, images, uploadRef>>
metaVars == <<finalizer, deleting>>
buildVars == <<build, buildGen>>
uploadVars == <<upload, uploadGen, pod>>
storageVars == <<pvc, volume, record>>
history == <<faults, tokens, adopted>>
jobVars == <<buildVars, uploadVars, cleanup, storageVars, remote>>

vars == <<phase, specVars, obsVars, resultVars, metaVars, jobVars, pc,
          history>>

Active == {"Building", "Provisioning", "Uploading"}
Terminal == {"Ready", "Failed"}
Phases == {"Pending", "Gone"} \cup Active \cup Terminal
JobStates == {"none", "active", "succeeded", "failed"}
Steps == {"idle", "createBuildJob", "markBuilding", "recordUpload",
          "releaseStorage", "collect"}

TypeOK ==
  /\ phase \in Phases
  /\ gen \in Generations
  /\ rev \in Revisions
  /\ obsGen \in 0 .. gen
  /\ obsRev \in IF obsGen = 0 THEN {0} ELSE Revisions
  /\ finalizer \in BOOLEAN
  /\ deleting \in BOOLEAN
  /\ artifact \in Generations \cup {0}
  /\ images \in Generations \cup {0}
  /\ uploadRef \in BOOLEAN
  /\ retain \in {"Never", "OnFailure", "Always"}
  /\ build \in [Revisions -> JobStates]
  /\ buildGen \in [Revisions -> Generations \cup {0}]
  /\ upload \in [Revisions -> JobStates]
  /\ uploadGen \in [Revisions -> Generations \cup {0}]
  /\ pod \in [Revisions -> BOOLEAN]
  /\ cleanup \in [Revisions -> JobStates]
  /\ pvc \in [Revisions -> {"none", "bound", "terminating"}]
  /\ volume \in [Revisions -> Generations \cup {0}]
  /\ record \in [Revisions -> BOOLEAN]
  /\ remote \in [Revisions -> {"clean", "partial", "registered", "stuck"}]
  /\ pc \in Steps
  /\ faults \in 0 .. MaxFaults
  /\ tokens \subseteq Revisions
  /\ adopted \in Generations \cup {0}

(* A new VMImage, or one an operator without observedGeneration finished   *)
(* (its Jobs have expired).                                                *)
Init ==
  /\ \/ phase = "Pending" /\ finalizer = FALSE /\ images = 0 /\ tokens = {}
     \/ phase = "Ready" /\ finalizer = TRUE /\ images = 1 /\ tokens = {1}
     \/ phase = "Failed" /\ finalizer = TRUE /\ images = 0 /\ tokens = {1}
  /\ gen = 1 /\ rev = 1
  /\ obsGen = 0 /\ obsRev = 0
  /\ deleting = FALSE
  /\ artifact = 0 /\ uploadRef = FALSE
  /\ retain \in RetainPolicies
  /\ build = [r \in Revisions |-> "none"]
  /\ buildGen = [r \in Revisions |-> 0]
  /\ upload = [r \in Revisions |-> "none"]
  /\ uploadGen = [r \in Revisions |-> 0]
  /\ pod = [r \in Revisions |-> FALSE]
  /\ cleanup = [r \in Revisions |-> "none"]
  /\ pvc = [r \in Revisions |-> "none"]
  /\ volume = [r \in Revisions |-> 0]
  /\ record = [r \in Revisions |-> FALSE]
  /\ remote = [r \in Revisions |-> "clean"]
  /\ pc = "idle"
  /\ faults = 0
  /\ adopted = 0

-----------------------------------------------------------------------------
(* Helpers                                                                 *)

(* A reconcile of the live object that passes reconcileSpecGeneration: the *)
(* status is current, or it has never been written.                        *)
Dispatch(p) ==
  /\ pc = "idle"
  /\ finalizer
  /\ ~deleting
  /\ phase = p
  /\ obsGen = gen \/ (obsGen = 0 /\ p \notin Terminal)

MutUpdateStatus(p) ==
  /\ ~deleting
  /\ phase' = p
  /\ obsGen' = IF obsGen = 0 THEN gen ELSE obsGen
  /\ obsRev' = rev

MutUpdateStatusNext(p) ==
  /\ ~deleting
  /\ phase' = p
  /\ obsGen' = gen + 1
  /\ obsRev' = rev

(* A status update: it is refused (a conflict) when the deletion request   *)
(* came after the reconcile read the object.                               *)
UpdateStatus(p) ==
  /\ ~deleting
  /\ phase' = p
  /\ obsGen' = gen
  /\ obsRev' = rev

(* setFailed: the status is written, then the workspace is released.       *)
SetFailed ==
  /\ UpdateStatus("Failed")
  /\ pc' = "releaseStorage"
  /\ UNCHANGED <<specVars, resultVars, metaVars, jobVars, history>>

(* A Pod that mounts the workspace keeps a deleted PVC terminating.        *)
Mounted(r) ==
  build[r] = "active" \/ pod[r] \/ cleanup[r] = "active"

(* PVCs are deleted, and with a PVC what is on it.                         *)
DeletePVCs(rs) ==
  LET Removed(r) == r \in rs /\ ~Mounted(r)
  IN  /\ pvc' = [r \in Revisions |->
                   IF Removed(r) THEN "none"
                   ELSE IF r \in rs /\ pvc[r] # "none" THEN "terminating"
                   ELSE pvc[r]]
      /\ volume' = [r \in Revisions |-> IF Removed(r) THEN 0 ELSE volume[r]]
      /\ record' = [r \in Revisions |-> record[r] /\ ~Removed(r)]

shouldRetainArtifactPVC(success) ==
  \/ retain = "Always"
  \/ retain = "OnFailure" /\ ~success

-----------------------------------------------------------------------------
(* Reconcile: finalizer, reconcileSpecGeneration, historical revisions     *)

AddFinalizer ==
  /\ pc = "idle" /\ phase # "Gone"
  /\ ~deleting /\ ~finalizer
  /\ finalizer' = TRUE
  /\ UNCHANGED <<phase, specVars, obsVars, resultVars, deleting, jobVars,
                 pc, history>>

(* A finished image without observedGeneration adopts the current one.     *)
MigrateObserved ==
  /\ pc = "idle" /\ finalizer
  /\ obsGen = 0 /\ phase \in Terminal
  /\ UpdateStatus(phase)
  /\ adopted' = gen
  /\ UNCHANGED <<specVars, resultVars, metaVars, jobVars, pc, faults, tokens>>

MutResetKeepsImages ==
  /\ pc = "idle" /\ finalizer
  /\ obsGen # 0 /\ obsGen # gen
  /\ obsRev # rev
  /\ phase \in Terminal
  /\ UpdateStatus("Pending")
  /\ artifact' = 0 /\ uploadRef' = FALSE
  /\ tokens' = tokens \cup {obsRev}
  /\ pc' = "collect"
  /\ UNCHANGED <<specVars, images, metaVars, jobVars, faults, adopted>>

MutResetFailedOnly ==
  /\ pc = "idle" /\ finalizer
  /\ obsGen # 0 /\ obsGen # gen
  /\ obsRev # rev
  /\ phase = "Failed"
  /\ UpdateStatus("Pending")
  /\ artifact' = 0 /\ images' = 0 /\ uploadRef' = FALSE
  /\ tokens' = tokens \cup {obsRev}
  /\ pc' = "collect"
  /\ UNCHANGED <<specVars, metaVars, jobVars, faults, adopted>>

(* A terminal image whose revision has changed starts over; a generation   *)
(* that is newer with the same revision is left alone.                     *)
ResetForRebuild ==
  /\ pc = "idle" /\ finalizer
  /\ obsGen # 0 /\ obsGen # gen
  /\ obsRev # rev
  /\ phase \in Terminal
  /\ UpdateStatus("Pending")
  /\ artifact' = 0 /\ images' = 0 /\ uploadRef' = FALSE
  /\ tokens' = tokens \cup {obsRev}
  /\ pc' = "collect"
  /\ UNCHANGED <<specVars, metaVars, jobVars, faults, adopted>>

(* The revisions other than the one the spec names.                        *)
Historical == Revisions \ {rev}

(* The retention policy discards some historical revisions: their Jobs     *)
(* (with their Pods) and their PVCs.                                       *)
CollectRevisions ==
  /\ pc = "collect"
  /\ \E old \in SUBSET Historical :
       LET Drop(jobs) ==
             [r \in Revisions |-> IF r \in old THEN "none" ELSE jobs[r]]
       IN  /\ build' = Drop(build)
           /\ upload' = Drop(upload)
           /\ cleanup' = Drop(cleanup)
           /\ pod' = [r \in Revisions |->
                        pod[r] /\ ~(r \in old /\ upload[r] = "active")]
           /\ DeletePVCs(old)
  /\ pc' = "idle"
  /\ UNCHANGED <<phase, specVars, obsVars, resultVars, metaVars, buildGen,
                 uploadGen, remote, history>>

-----------------------------------------------------------------------------
(* reconcilePending                                                        *)

(* A provider is missing or unhealthy, rejects the target, or the PVC      *)
(* cannot be prepared.                                                     *)
RejectPending == Dispatch("Pending") /\ SetFailed

EnsureStorage ==
  /\ Dispatch("Pending")
  /\ pvc' = [pvc EXCEPT ![rev] = IF @ = "none" THEN "bound" ELSE @]
  /\ pc' = "createBuildJob"
  /\ UNCHANGED <<phase, specVars, obsVars, resultVars, metaVars, buildVars,
                 uploadVars, cleanup, volume, record, remote, history>>

(* No slot is free: the image reports that it is queued.                   *)
Queue ==
  /\ pc = "createBuildJob"
  /\ UpdateStatus(phase)
  /\ pc' = "idle"
  /\ UNCHANGED <<specVars, resultVars, metaVars, jobVars, history>>

AssembleFails == pc = "createBuildJob" /\ SetFailed

(* AlreadyExists is tolerated: an existing Job of the name is adopted.     *)
CreateBuildJob ==
  /\ pc = "createBuildJob"
  /\ build' = [build EXCEPT ![rev] = IF @ = "none" THEN "active" ELSE @]
  /\ buildGen' = [buildGen EXCEPT ![rev] =
                    IF build[rev] = "none" THEN gen ELSE @]
  /\ pc' = "markBuilding"
  /\ UNCHANGED <<phase, specVars, obsVars, resultVars, metaVars, uploadVars,
                 cleanup, storageVars, remote, history>>

MarkBuilding ==
  /\ pc = "markBuilding"
  /\ UpdateStatus("Building")
  /\ pc' = "idle"
  /\ UNCHANGED <<specVars, resultVars, metaVars, jobVars, history>>

-----------------------------------------------------------------------------
(* reconcileBuilding                                                       *)

DispatchBuilding == Dispatch("Building") \/ Dispatch("Provisioning")

MarkProvisioning ==
  /\ Dispatch("Building")
  /\ build[rev] = "active"
  /\ UpdateStatus("Provisioning")
  /\ UNCHANGED <<specVars, resultVars, metaVars, jobVars, pc, history>>

(* The Job has disappeared or failed, the build has timed out, or the      *)
(* result of a Job that succeeded cannot be read.                          *)
BuildFails == DispatchBuilding /\ SetFailed

MutUploadingReleases ==
  /\ DispatchBuilding
  /\ build[rev] = "succeeded"
  /\ UpdateStatus("Uploading")
  /\ artifact' = buildGen[rev]
  /\ pc' = "releaseStorage"
  /\ UNCHANGED <<specVars, images, uploadRef, metaVars, jobVars, history>>

MarkUploading ==
  /\ DispatchBuilding
  /\ build[rev] = "succeeded"
  /\ UpdateStatus("Uploading")
  /\ artifact' = buildGen[rev]
  /\ UNCHANGED <<specVars, images, uploadRef, metaVars, jobVars, pc, history>>

-----------------------------------------------------------------------------
(* reconcileUploading, cleanupLocalUpload, cleanupArtifactStorage          *)

(* A provider is missing or unhealthy when the upload Job is assembled.    *)
RejectUpload == Dispatch("Uploading") /\ ~uploadRef /\ SetFailed

CreateUploadJob ==
  /\ Dispatch("Uploading")
  /\ ~uploadRef
  /\ upload' = [upload EXCEPT ![rev] = IF @ = "none" THEN "active" ELSE @]
  /\ pod' = [pod EXCEPT ![rev] = @ \/ upload[rev] = "none"]
  /\ pc' = "recordUpload"
  /\ UNCHANGED <<phase, specVars, obsVars, resultVars, metaVars, buildVars,
                 uploadGen, cleanup, storageVars, remote, history>>

RecordUpload ==
  /\ pc = "recordUpload"
  /\ UpdateStatus(phase)
  /\ uploadRef' = TRUE
  /\ pc' = "idle"
  /\ UNCHANGED <<specVars, artifact, images, metaVars, jobVars, history>>

MutUploadLost ==
  /\ Dispatch("Uploading")
  /\ uploadRef
  /\ upload[rev] = "succeeded"
  /\ SetFailed

(* The Job has disappeared, or its result cannot be read.                  *)
UploadLost ==
  /\ Dispatch("Uploading")
  /\ uploadRef
  /\ upload[rev] \in {"none", "succeeded"}
  /\ SetFailed

(* cleanupLocalUpload has work to do: the upload failed, or the image is   *)
(* being deleted while it uploads.                                         *)
CleanupDue ==
  \/ Dispatch("Uploading") /\ uploadRef /\ upload[rev] = "failed"
  \/ pc = "idle" /\ finalizer /\ deleting /\ phase = "Uploading"

UploadStopped == ~(uploadRef /\ upload[rev] = "active")

(* The active upload Job is deleted.  A batch/v1 Job that is deleted       *)
(* without a propagation policy leaves its Pods running.                   *)
StopUpload ==
  /\ CleanupDue
  /\ ~UploadStopped
  /\ upload' = [upload EXCEPT ![rev] = "none"]
  /\ UNCHANGED <<phase, specVars, obsVars, resultVars, metaVars, buildVars,
                 uploadGen, pod, cleanup, storageVars, remote, pc, history>>

StartCleanup ==
  /\ CleanupDue
  /\ UploadStopped
  /\ cleanup[rev] = "none"
  /\ cleanup' = [cleanup EXCEPT ![rev] = "active"]
  /\ UNCHANGED <<phase, specVars, obsVars, resultVars, metaVars, buildVars,
                 uploadVars, storageVars, remote, pc, history>>

MutCleanupDone == UploadStopped /\ cleanup[rev] # "none"

CleanupDone == UploadStopped /\ cleanup[rev] = "succeeded"

FailUpload ==
  /\ Dispatch("Uploading") /\ uploadRef /\ upload[rev] = "failed"
  /\ CleanupDone
  /\ SetFailed

MarkReady ==
  /\ Dispatch("Uploading")
  /\ uploadRef
  /\ upload[rev] = "succeeded"
  /\ UpdateStatus("Ready")
  /\ images' = uploadGen[rev]
  /\ pc' = "releaseStorage"
  /\ UNCHANGED <<specVars, artifact, uploadRef, metaVars, jobVars, history>>

(* The last write of a reconcile that ended the attempt.                   *)
ReleaseStorage ==
  /\ pc = "releaseStorage"
  /\ IF shouldRetainArtifactPVC(phase = "Ready")
       THEN UNCHANGED storageVars
       ELSE DeletePVCs({obsRev})
  /\ pc' = "idle"
  /\ UNCHANGED <<phase, specVars, obsVars, resultVars, metaVars, buildVars,
                 uploadVars, cleanup, remote, history>>

-----------------------------------------------------------------------------
(* reconcileDelete, and what cuts a reconcile short                        *)

MutFinishTerminal ==
  /\ pc = "idle" /\ finalizer /\ deleting
  /\ phase \in Terminal \cup {"Uploading"}
  /\ phase = "Uploading" => CleanupDone
  /\ phase' = "Gone"
  /\ finalizer' = FALSE
  /\ UNCHANGED <<specVars, obsVars, resultVars, deleting, jobVars, pc,
                 history>>

FinishDelete ==
  /\ pc = "idle" /\ finalizer /\ deleting
  /\ phase # "Gone"
  /\ phase = "Uploading" => CleanupDone
  /\ phase' = "Gone"
  /\ finalizer' = FALSE
  /\ UNCHANGED <<specVars, obsVars, resultVars, deleting, jobVars, pc,
                 history>>

(* The status update of a reconcile that began before the deletion request.*)
StatusConflict ==
  /\ pc \in {"createBuildJob", "markBuilding", "recordUpload"}
  /\ deleting
  /\ pc' = "idle"
  /\ UNCHANGED <<phase, specVars, obsVars, resultVars, metaVars, jobVars,
                 history>>

(* The operator crashes, or an API call fails; nothing in memory survives. *)
Fault ==
  /\ pc # "idle"
  /\ faults < MaxFaults
  /\ faults' = faults + 1
  /\ pc' = "idle"
  /\ UNCHANGED <<phase, specVars, obsVars, resultVars, metaVars, jobVars,
                 tokens, adopted>>

-----------------------------------------------------------------------------
(* Users, Jobs, Pods and the garbage collector                             *)

RequestDelete ==
  /\ phase # "Gone" /\ ~deleting
  /\ deleting' = TRUE
  /\ phase' = IF finalizer THEN phase ELSE "Gone"
  /\ UNCHANGED <<specVars, obsVars, resultVars, finalizer, jobVars, pc,
                 history>>

(* The admission webhook accepts a new spec of a terminal image when it    *)
(* changes the revision, be it to one that was used before.                *)
RequestRebuild ==
  /\ phase \in Terminal /\ ~deleting
  /\ gen < MaxGeneration
  /\ gen' = gen + 1
  /\ rev' \in Revisions \ {rev}
  /\ UNCHANGED <<phase, retain, obsVars, resultVars, metaVars, jobVars, pc,
                 history>>

BuildJobEnds(r) ==
  /\ build[r] = "active"
  /\ \/ /\ pvc[r] # "none"
        /\ build' = [build EXCEPT ![r] = "succeeded"]
        /\ volume' = [volume EXCEPT ![r] = buildGen[r]]
     \/ /\ build' = [build EXCEPT ![r] = "failed"]
        /\ UNCHANGED volume
  /\ UNCHANGED <<phase, specVars, obsVars, resultVars, metaVars, buildGen,
                 uploadVars, cleanup, pvc, record, remote, pc, history>>

(* The upload Pod hands data to a provider, and keeps a record of it only  *)
(* with the next checkpoint; what is recorded as complete is not repeated. *)
UploadBegins(r) ==
  /\ pod[r] /\ volume[r] # 0
  /\ record[r] => remote[r] \in {"clean", "partial"}
  /\ remote' = [remote EXCEPT ![r] = "partial"]
  /\ record' = [record EXCEPT ![r] = FALSE]
  /\ UNCHANGED <<phase, specVars, obsVars, resultVars, metaVars, buildVars,
                 uploadVars, cleanup, pvc, volume, pc, history>>

UploadRecorded(r) ==
  /\ pod[r] /\ volume[r] # 0
  /\ remote[r] = "partial" /\ ~record[r]
  /\ record' = [record EXCEPT ![r] = TRUE]
  /\ UNCHANGED <<phase, specVars, obsVars, resultVars, metaVars, buildVars,
                 uploadVars, cleanup, pvc, volume, remote, pc, history>>

JobEnds(r, result) ==
  upload' = [upload EXCEPT ![r] = IF @ = "active" THEN result ELSE @]

UploadSucceeds(r) ==
  /\ pod[r] /\ volume[r] # 0
  /\ remote' = [remote EXCEPT ![r] = "registered"]
  /\ record' = [record EXCEPT ![r] = TRUE]
  /\ pod' = [pod EXCEPT ![r] = FALSE]
  /\ uploadGen' = [uploadGen EXCEPT ![r] = volume[r]]
  /\ JobEnds(r, "succeeded")
  /\ UNCHANGED <<phase, specVars, obsVars, resultVars, metaVars, buildVars,
                 cleanup, pvc, volume, pc, history>>

(* The last upload Pod fails; what it uploaded is left at the provider.    *)
UploadFails(r) ==
  /\ pod[r]
  /\ pod' = [pod EXCEPT ![r] = FALSE]
  /\ JobEnds(r, "failed")
  /\ UNCHANGED <<phase, specVars, obsVars, resultVars, metaVars, buildVars,
                 uploadGen, cleanup, storageVars, remote, pc, history>>

(* Cleanup can succeed: there is a PVC to mount, and what is on it does    *)
(* not name an AMI that a cleanup has already deregistered.                *)
Cleanable(r) == pvc[r] # "none" /\ ~(record[r] /\ remote[r] = "stuck")

(* The cleanup Pod deletes what the files on the PVC name; what they do    *)
(* not name is left, or found by the names it would have.                  *)
CleanupSucceeds(r) ==
  /\ cleanup[r] = "active"
  /\ Cleanable(r)
  /\ cleanup' = [cleanup EXCEPT ![r] = "succeeded"]
  /\ \E left \in {"clean"} \cup (IF record[r] THEN {} ELSE {remote[r]}) :
       remote' = [remote EXCEPT ![r] = left]
  /\ UNCHANGED <<phase, specVars, obsVars, resultVars, metaVars, buildVars,
                 uploadVars, storageVars, pc, history>>

(* It fails, perhaps after it has deregistered a recorded AMI: cleanup     *)
(* fails at that whenever it is repeated.                                  *)
CleanupFails(r) ==
  /\ cleanup[r] = "active"
  /\ cleanup' = [cleanup EXCEPT ![r] = "failed"]
  /\ \E left \in {remote[r], "stuck"} :
       /\ left # remote[r] =>
            pvc[r] # "none" /\ record[r] /\ remote[r] # "clean"
       /\ remote' = [remote EXCEPT ![r] = left]
  /\ UNCHANGED <<phase, specVars, obsVars, resultVars, metaVars, buildVars,
                 uploadVars, storageVars, pc, history>>

Finished(state) == state \in {"succeeded", "failed"}

Expired(jobs, r) ==
  /\ Finished(jobs[r])
  /\ jobs' = [jobs EXCEPT ![r] = "none"]

(* ttlSecondsAfterFinished removes a Job an hour after it has ended,       *)
(* whether or not the operator was up to see it.                           *)
JobExpires(r) ==
  /\ \/ Expired(build, r) /\ UNCHANGED <<upload, cleanup>>
     \/ Expired(upload, r) /\ UNCHANGED <<build, cleanup>>
     \/ Expired(cleanup, r) /\ UNCHANGED <<build, upload>>
  /\ UNCHANGED <<phase, specVars, obsVars, resultVars, metaVars, buildGen,
                 uploadGen, pod, storageVars, remote, pc, history>>

PVCFinalized(r) ==
  /\ pvc[r] = "terminating"
  /\ ~Mounted(r)
  /\ pvc' = [pvc EXCEPT ![r] = "none"]
  /\ volume' = [volume EXCEPT ![r] = 0]
  /\ record' = [record EXCEPT ![r] = FALSE]
  /\ UNCHANGED <<phase, specVars, obsVars, resultVars, metaVars, buildVars,
                 uploadVars, cleanup, remote, pc, history>>

(* The garbage collector removes what a removed VMImage owned: its Jobs    *)
(* with their Pods, and PVCs of the policy Never.                          *)
CollectOwned(r) ==
  /\ phase = "Gone"
  /\ \/ <<build[r], upload[r], cleanup[r]>> # <<"none", "none", "none">>
     \/ pvc[r] = "bound" /\ retain = "Never"
  /\ build' = [build EXCEPT ![r] = "none"]
  /\ upload' = [upload EXCEPT ![r] = "none"]
  /\ cleanup' = [cleanup EXCEPT ![r] = "none"]
  /\ pod' = [pod EXCEPT ![r] = @ /\ upload[r] # "active"]
  /\ pvc' = [pvc EXCEPT ![r] =
               IF @ = "bound" /\ retain = "Never" THEN "terminating" ELSE @]
  /\ UNCHANGED <<phase, specVars, obsVars, resultVars, metaVars, buildGen,
                 uploadGen, volume, record, remote, pc, history>>

-----------------------------------------------------------------------------

(* The steps by which reconciles move an attempt on.                       *)
Progress ==
  \/ MigrateObserved
  \/ AddFinalizer \/ ResetForRebuild \/ CollectRevisions
  \/ EnsureStorage \/ CreateBuildJob \/ MarkBuilding
  \/ MarkUploading
  \/ CreateUploadJob \/ RecordUpload \/ StopUpload \/ StartCleanup
  \/ FailUpload \/ MarkReady \/ ReleaseStorage
  \/ FinishDelete \/ StatusConflict

(* BuildFails and UploadLost when nothing else can become of the attempt.  *)
Hopeless ==
  \/ BuildFails /\ build[rev] \in {"none", "failed"}
  \/ UploadLost /\ upload[rev] = "none"

Reconcile ==
  \/ Progress
  \/ RejectPending \/ Queue \/ AssembleFails \/ MarkProvisioning
  \/ BuildFails \/ RejectUpload \/ UploadLost \/ Fault

Ends(r) ==
  \/ BuildJobEnds(r) \/ UploadSucceeds(r) \/ UploadFails(r)
  \/ CleanupSucceeds(r) \/ CleanupFails(r)

Environment(r) ==
  \/ Ends(r) \/ UploadBegins(r) \/ UploadRecorded(r)
  \/ JobExpires(r) \/ PVCFinalized(r) \/ CollectOwned(r)

Next ==
  \/ Reconcile \/ RequestDelete \/ RequestRebuild
  \/ \E r \in Revisions : Environment(r)

Spec == Init /\ [][Next]_vars

(* The work queue retries an image that is due, a free slot turns up       *)
(* (BuildSlots), Jobs end within activeDeadlineSeconds, a failed upload or *)
(* cleanup Job expires, cleanup that can succeed does not fail for ever,   *)
(* and a controller that polls every 15 seconds does not always miss the   *)
(* hour that a finished cleanup Job exists.                                *)
Fairness ==
  /\ WF_vars(Progress)
  /\ WF_vars(Hopeless)
  /\ SF_vars(CreateBuildJob)
  /\ SF_vars(FinishDelete \/ FailUpload)
  /\ WF_vars(Ends(rev))
  /\ WF_vars(upload[rev] = "failed" /\ JobExpires(rev)
               /\ upload'[rev] = "none")
  /\ WF_vars(cleanup[rev] = "failed" /\ JobExpires(rev)
               /\ cleanup'[rev] = "none")
  /\ SF_vars(CleanupSucceeds(rev))

FairSpec == Spec /\ Fairness

-----------------------------------------------------------------------------
(* Properties                                                              *)

(* What the status shows comes from the attempt it names: the artifact and *)
(* the images were built from the observed generation of the spec, across  *)
(* crashes, adopted Jobs and rebuilds (reconcileSpecGeneration,            *)
(* AlreadyExists in reconcilePending and reconcileUploading).  It is not   *)
(* so for a revision that an earlier attempt has used, whose Jobs are      *)
(* adopted, nor for a version adopted without an attempt.                  *)
StatusShowsOwnAttempt ==
  obsGen # 0 /\ obsRev \notin tokens /\ obsGen # adopted =>
    {artifact, images} \subseteq {0, obsGen}

(* An attempt in progress keeps its workspace: neither the collection of   *)
(* historical revisions nor the end of an earlier attempt deletes the PVC  *)
(* its Jobs mount.  A revision used again may meet a PVC on its way out.   *)
WorkspaceKept ==
  phase \in Active /\ obsRev \notin tokens => pvc[obsRev] = "bound"

(* An image whose recorded upload Job failed becomes Failed only when what *)
(* the uploader recorded has been cleaned up (cleanupLocalUpload before    *)
(* setFailed), however often the reconcile was cut short.                  *)
UploadFailureCleaned ==
  [][phase = "Uploading" /\ phase' = "Failed" /\ uploadRef
       /\ upload[rev] = "failed" /\ rev \notin tokens /\ record[rev]
         => remote[rev] = "clean"]_vars

(* The image as its user sees it.                                          *)
Contract == INSTANCE ImageContract WITH
  requested <- gen,
  attempt <- obsGen,
  state <- IF phase \in Terminal \cup {"Gone"} THEN phase ELSE "active"

(* The controller implements the contract: whatever is cut short and       *)
(* retried, an outcome never changes without a new request, and a status   *)
(* never speaks of a version that was not taken up.                        *)
MeetsContract == Contract!Spec

(* A deletion waits for a cleanup that cannot succeed: it waits for ever.  *)
DeletionBlocked == deleting /\ phase = "Uploading" /\ ~Cleanable(obsRev)

(* Every attempt ends, also when its Jobs disappear, never start or cannot *)
(* be cleaned up after (reconcileBuilding, reconcileUploading,             *)
(* cleanupLocalUpload), unless a deletion holds it.                        *)
AttemptsConclude ==
  phase \in Active \cup {"Pending"} ~>
    phase \in Terminal \cup {"Gone"} \/ DeletionBlocked

(* A finished image is asked to build another revision.                    *)
RebuildDue == obsGen # 0 /\ phase \in Terminal /\ obsRev # rev

(* A new revision is built, and not only recorded as observed, unless the  *)
(* revision is changed back first or the image is deleted                  *)
(* (reconcileSpecGeneration).                                              *)
RebuildsStart == RebuildDue ~> phase \notin Terminal \/ rev = obsRev

(* A deleted image loses its finalizer in every phase, unless the provider *)
(* cannot be cleaned up (reconcileDelete).                                 *)
DeletionCompletes == deleting ~> phase = "Gone" \/ DeletionBlocked

(* docs/architecture/ARCHITECTURE.md: "Only after cleanup succeeds does    *)
(* the controller mark the VMImage Failed": a Failed image has no partial  *)
(* upload.  The code does not keep this (README): an upload Job that is    *)
(* lost fails the image without cleanup.                                   *)
FailedLeavesNoPartialUpload ==
  phase = "Failed" => remote[obsRev] # "partial"

=============================================================================
