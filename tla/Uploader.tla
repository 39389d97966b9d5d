------------------------------ MODULE Uploader ------------------------------
(***************************************************************************)
(* The upload Job of one VMImage (cmd/uploader/main.go): its Pods upload   *)
(* the artifact to every target and register it, one target after the      *)
(* other.  Progress is kept in two files on the workspace PVC, the upload  *)
(* sessions and the upload operations, each replaced atomically with its   *)
(* previous valid generation as a backup.  A Pod may be lost between any   *)
(* two steps; its replacement reads the files.  When the Job has failed a  *)
(* cleanup Job of the same program deletes what the operations name.       *)
(*                                                                         *)
(* Between the two renames of a checkpoint both files hold the previous    *)
(* generation, which is what a reader saw before, so a checkpoint is one   *)
(* step.                                                                   *)
(***************************************************************************)
EXTENDS Integers, FiniteSets

CONSTANTS
  NumTargets,      \* upload targets, in the order of spec.targets
  MaxRestarts,     \* backoffLimit of the upload Job
  MaxCorruptions,  \* bound: checkpoint files that get damaged
  OneShot,         \* targets at AWS, which deregisters an image only once
  Missing,         \* the file does not exist
  Corrupt          \* the file cannot be parsed; also: reading it failed

ASSUME SizeAssumption ==
  NumTargets \in Nat \ {0} /\ MaxRestarts \in Nat /\ MaxCorruptions \in Nat

Targets == 1 .. NumTargets

ASSUME OneShotAssumption == OneShot \subseteq Targets

(* "resumable": uploading, and the provider has reported a resume offset.  *)
SessionPhases == {"none", "uploading", "resumable", "uploaded", "registered"}
NoSessions == [t \in Targets |-> "none"]

(* What a file may hold can be told from a file that is not there or that  *)
(* is damaged.                                                             *)
ASSUME FileAssumption ==
  /\ Missing # Corrupt
  /\ \A x \in {Missing, Corrupt} :
       x \notin [Targets -> SessionPhases] /\ \A s \in SUBSET Targets : x # s

VARIABLES
  sessionFile,  \* upload-sessions.json and its backup
  opsFile,      \* upload-operations.json and its backup: recorded targets
  remote,       \* what the provider of each target holds
  job,          \* the upload Job
  restarts,     \* replacement Pods so far
  pc,           \* next step of the upload Pod; "down" between Pods
  cur,          \* target the Pod works on
  sessions,     \* the Pod's copy of the sessions
  failed,       \* failures of the targets in this Pod
  cleanup,      \* the cleanup Job
  todo,         \* targets whose operations the cleanup Pod has still to do
  corruptions   \* files damaged so far

files == <<sessionFile, opsFile>>
podVars == <<pc, cur, sessions, failed>>
jobVars == <<job, restarts>>
cleanupVars == <<cleanup, todo>>
vars == <<files, remote, jobVars, podVars, cleanupVars, corruptions>>

FileOf(S) ==
  [primary : S \cup {Missing, Corrupt}, backup : S \cup {Missing}]

Steps == {"down", "session", "upload", "checkpoint", "record", "register",
          "checkpointImage", "recordImage", "exit"}

(* "deregistered": the image is gone, and the operation still names it.    *)
RemoteStates == {"clean", "partial", "blob", "image", "deregistered"}

TypeOK ==
  /\ sessionFile \in FileOf([Targets -> SessionPhases])
  /\ opsFile \in FileOf(SUBSET Targets)
  /\ remote \in [Targets -> RemoteStates]
  /\ job \in {"active", "succeeded", "failed"}
  /\ restarts \in 0 .. MaxRestarts
  /\ pc \in Steps
  /\ cur \in Targets
  /\ sessions \in [Targets -> SessionPhases]
  /\ failed \in [Targets -> {"no", "transient", "terminal"}]
  /\ cleanup \in {"none", "active", "succeeded", "failed"}
  /\ todo \in SUBSET Targets
  /\ corruptions \in 0 .. MaxCorruptions

Init ==
  /\ sessionFile = [primary |-> Missing, backup |-> Missing]
  /\ opsFile = [primary |-> Missing, backup |-> Missing]
  /\ remote = [t \in Targets |-> "clean"]
  /\ job = "active" /\ restarts = 0
  /\ pc = "down" /\ cur = 1
  /\ sessions = NoSessions
  /\ failed = [t \in Targets |-> "no"]
  /\ cleanup = "none" /\ todo = {}
  /\ corruptions = 0

-----------------------------------------------------------------------------
(* Checkpoint files                                                        *)

Valid(x) == x \notin {Missing, Corrupt}

(* writeCheckpointWithBackup                                               *)
Written(file, x) ==
  [primary |-> x,
   backup |-> IF Valid(file.primary) THEN file.primary ELSE file.backup]

(* The same when the disk refuses the backup or only the new primary.      *)
NotWritten(file) ==
  {file, [primary |-> file.primary,
          backup |-> IF Valid(file.primary) THEN file.primary
                     ELSE file.backup]}

(* readUploadSessions: primary, else backup, else none if neither exists.  *)
ReadSessions ==
  IF Valid(sessionFile.primary) THEN sessionFile.primary
  ELSE IF Valid(sessionFile.backup) THEN sessionFile.backup
  ELSE IF sessionFile.primary = Missing THEN NoSessions
  ELSE Corrupt

(* reconstructUploadOperationsFromSessions: sessions with a provider ref.  *)
Reconstructed ==
  IF Valid(ReadSessions)
    THEN {t \in Targets : ReadSessions[t] \in {"uploaded", "registered"}}
    ELSE {}

MutReadOpsNoSessions ==
  IF Valid(opsFile.primary) THEN opsFile.primary
  ELSE IF Valid(opsFile.backup) THEN opsFile.backup
  ELSE opsFile.primary

(* readUploadOperations: primary, else backup, else the sessions.          *)
ReadOps ==
  IF Valid(opsFile.primary) THEN opsFile.primary
  ELSE IF Valid(opsFile.backup) THEN opsFile.backup
  ELSE IF Reconstructed # {} THEN Reconstructed
  ELSE opsFile.primary

-----------------------------------------------------------------------------
(* run and processUploadTarget                                             *)

Running(step) == job = "active" /\ pc = step

(* run goes on with the next target.                                       *)
Advance ==
  IF cur < NumTargets
    THEN cur' = cur + 1 /\ pc' = "session"
    ELSE pc' = "exit" /\ UNCHANGED cur

TargetFails(kind) ==
  /\ failed' = [failed EXCEPT ![cur] = kind]
  /\ Advance

Checkpoint(p) ==
  /\ sessions' = [sessions EXCEPT ![cur] = p]
  /\ sessionFile' = Written(sessionFile, sessions')

Record ==
  /\ ReadOps # Corrupt
  /\ opsFile' =
       Written(opsFile, {cur} \cup (IF ReadOps = Missing THEN {} ELSE ReadOps))

RecordImpossible ==
  \/ ReadOps = Corrupt /\ UNCHANGED opsFile
  \/ ReadOps # Corrupt /\ opsFile' \in NotWritten(opsFile)

(* Provider.Cleanup of the current target; its error is ignored.           *)
TryCleanup ==
  \/ remote' = [remote EXCEPT ![cur] = "clean"]
  \/ UNCHANGED remote

MutStartPod ==
  /\ Running("down")
  /\ ReadSessions # Corrupt
  /\ sessions' = IF Valid(sessionFile.backup) THEN sessionFile.backup
                  ELSE ReadSessions
  /\ failed' = [t \in Targets |-> "no"]
  /\ cur' = 1 /\ pc' = "session"
  /\ UNCHANGED <<files, remote, jobVars, cleanupVars, corruptions>>

(* A Pod starts: the artifact is verified and the sessions are read.       *)
StartPod ==
  /\ Running("down")
  /\ ReadSessions # Corrupt
  /\ sessions' = ReadSessions
  /\ failed' = [t \in Targets |-> "no"]
  /\ cur' = 1 /\ pc' = "session"
  /\ UNCHANGED <<files, remote, jobVars, cleanupVars, corruptions>>

(* The artifact, the targets or the sessions are unusable: exit code 1.    *)
StartFails ==
  /\ Running("down")
  /\ job' = "failed"
  /\ UNCHANGED <<files, remote, restarts, podVars, cleanupVars,
                 corruptions>>

(* A target whose session is registered is only recorded once more.        *)
SkipRegistered ==
  /\ Running("session")
  /\ sessions[cur] = "registered"
  /\ Record
  /\ Advance
  /\ UNCHANGED <<sessionFile, remote, jobVars, sessions, failed,
                 cleanupVars, corruptions>>

EnsureUploadSession ==
  IF sessions[cur] = "none"
    THEN Checkpoint("uploading")
    ELSE UNCHANGED <<sessions, sessionFile>>

(* The session is opened, then the provider is connected and initialised.  *)
OpenSession ==
  /\ Running("session")
  /\ sessions[cur] # "registered"
  /\ EnsureUploadSession
  /\ \/ /\ pc' = IF sessions[cur] = "uploaded" THEN "record" ELSE "upload"
        /\ UNCHANGED <<cur, failed>>
     \/ \E kind \in {"transient", "terminal"} : TargetFails(kind)
  /\ UNCHANGED <<opsFile, remote, jobVars, cleanupVars, corruptions>>

UploadBegins ==
  /\ Running("upload")
  /\ remote[cur] = "clean"
  /\ remote' = [remote EXCEPT ![cur] = "partial"]
  /\ UNCHANGED <<files, jobVars, podVars, cleanupVars, corruptions>>

(* The provider has the whole artifact; one that already has the image of  *)
(* this idempotency key keeps it.                                          *)
UploadCompletes ==
  /\ Running("upload")
  /\ remote[cur] # "clean"
  /\ remote' = [remote EXCEPT ![cur] = IF @ = "image" THEN @ ELSE "blob"]
  /\ pc' = "checkpoint"
  /\ UNCHANGED <<files, jobVars, cur, sessions, failed, cleanupVars,
                 corruptions>>

(* The provider commits a part and the uploader checkpoints its offset.    *)
UploadProgress ==
  /\ Running("upload")
  /\ remote[cur] # "clean"
  /\ Checkpoint("resumable")
  /\ UNCHANGED <<opsFile, remote, jobVars, pc, cur, failed, cleanupVars,
                 corruptions>>

(* A failed upload is cleaned up unless the provider resumes at an offset. *)
UploadErrors ==
  /\ Running("upload")
  /\ IF sessions[cur] = "resumable" THEN UNCHANGED remote ELSE TryCleanup
  /\ \E kind \in {"transient", "terminal"} : TargetFails(kind)
  /\ UNCHANGED <<files, jobVars, sessions, cleanupVars, corruptions>>

CheckpointUpload ==
  /\ Running("checkpoint")
  /\ Checkpoint("uploaded")
  /\ pc' = "record"
  /\ UNCHANGED <<opsFile, remote, jobVars, cur, failed, cleanupVars,
                 corruptions>>

(* A session cannot be written: the Pod's copy is ahead of the file.       *)
CheckpointFails ==
  /\ \/ /\ Running("session") /\ sessions[cur] = "none"
        /\ sessions' = [sessions EXCEPT ![cur] = "uploading"]
     \/ /\ Running("checkpoint")
        /\ sessions' = [sessions EXCEPT ![cur] = "uploaded"]
     \/ /\ Running("checkpointImage")
        /\ sessions' = [sessions EXCEPT ![cur] = "registered"]
  /\ sessionFile' \in NotWritten(sessionFile)
  /\ TargetFails("terminal")
  /\ UNCHANGED <<opsFile, remote, jobVars, cleanupVars, corruptions>>

MutRecordSkipped ==
  /\ Running("record")
  /\ pc' = "register"
  /\ UNCHANGED <<files, remote, jobVars, cur, sessions,
                 failed, cleanupVars, corruptions>>

RecordUpload ==
  /\ Running("record")
  /\ Record
  /\ pc' = "register"
  /\ UNCHANGED <<sessionFile, remote, jobVars, cur, sessions, failed,
                 cleanupVars, corruptions>>

(* The operation cannot be recorded before registration: the upload is     *)
(* undone, its session stays.                                              *)
RecordFails ==
  /\ Running("record")
  /\ RecordImpossible
  /\ TryCleanup
  /\ TargetFails("terminal")
  /\ UNCHANGED <<sessionFile, jobVars, sessions, cleanupVars, corruptions>>

MutRegisterLost ==
  /\ Running("register")
  /\ pc' = "checkpointImage"
  /\ UNCHANGED <<files, remote, jobVars, cur, sessions, failed,
                 cleanupVars, corruptions>>

(* Register answers with the image; the idempotency key finds one that an  *)
(* earlier Pod created.                                                    *)
Register ==
  /\ Running("register")
  /\ remote[cur] \in {"blob", "image"}
  /\ remote' = [remote EXCEPT ![cur] = "image"]
  /\ pc' = "checkpointImage"
  /\ UNCHANGED <<files, jobVars, cur, sessions, failed, cleanupVars,
                 corruptions>>

(* Register fails, or creates the image and its answer is lost.            *)
RegisterErrors ==
  /\ Running("register")
  /\ \/ UNCHANGED remote
     \/ /\ remote[cur] \in {"blob", "image"}
        /\ remote' = [remote EXCEPT ![cur] = "image"]
  /\ \E kind \in {"transient", "terminal"} : TargetFails(kind)
  /\ UNCHANGED <<files, jobVars, sessions, cleanupVars, corruptions>>

CheckpointImage ==
  /\ Running("checkpointImage")
  /\ Checkpoint("registered")
  /\ pc' = "recordImage"
  /\ UNCHANGED <<opsFile, remote, jobVars, cur, failed, cleanupVars,
                 corruptions>>

RecordImage ==
  /\ Running("recordImage")
  /\ Record
  /\ Advance
  /\ UNCHANGED <<sessionFile, remote, jobVars, sessions, failed,
                 cleanupVars, corruptions>>

(* The operation of a registered target cannot be recorded once more.      *)
RecordImageFails ==
  /\ \/ Running("recordImage")
     \/ Running("session") /\ sessions[cur] = "registered"
  /\ RecordImpossible
  /\ TargetFails("terminal")
  /\ UNCHANGED <<sessionFile, remote, jobVars, sessions, cleanupVars,
                 corruptions>>

-----------------------------------------------------------------------------
(* Exit codes, the Job controller                                          *)

Failures == {failed[t] : t \in Targets} \ {"no"}

(* A Pod is replaced until the backoff limit is reached.                   *)
Replace ==
  /\ pc' = "down"
  /\ IF restarts < MaxRestarts
       THEN restarts' = restarts + 1 /\ UNCHANGED job
       ELSE job' = "failed" /\ UNCHANGED restarts
  /\ UNCHANGED <<files, remote, cur, sessions, failed, cleanupVars,
                 corruptions>>

(* Exit code 75: every failure is transient.                               *)
ExitTransient == Running("exit") /\ Failures = {"transient"} /\ Replace

ExitFinal ==
  /\ Running("exit")
  /\ Failures # {"transient"}
  /\ job' = IF Failures = {} THEN "succeeded" ELSE "failed"
  /\ pc' = "down"
  /\ UNCHANGED <<files, remote, restarts, cur, sessions, failed,
                 cleanupVars, corruptions>>

(* The Pod is evicted or its node is lost.                                 *)
PodLost == job = "active" /\ pc # "down" /\ Replace

DeadlineExceeded ==
  /\ job = "active"
  /\ job' = "failed"
  /\ pc' = "down"
  /\ UNCHANGED <<files, remote, restarts, cur, sessions, failed,
                 cleanupVars, corruptions>>

-----------------------------------------------------------------------------
(* cleanupUploadedArtifacts, in the cleanup Job                            *)

(* Without any record every target is cleaned (fallbackUploadOperations).  *)
StartCleanup ==
  /\ job = "failed" /\ cleanup = "none"
  /\ IF ReadOps = Corrupt
       THEN cleanup' = "failed" /\ UNCHANGED todo
       ELSE /\ cleanup' = "active"
            /\ todo' = IF ReadOps = Missing THEN Targets ELSE ReadOps
  /\ UNCHANGED <<files, remote, jobVars, podVars, corruptions>>

First(t) == t \in todo /\ \A u \in todo : t <= u

(* Provider.Cleanup with the metadata of the operation, which names the    *)
(* image if it was recorded after the registration.                        *)
Deleted(t) ==
  \/ remote' = [remote EXCEPT ![t] = "clean"]
  \/ /\ t \in OneShot /\ remote[t] = "image"
     /\ remote' = [remote EXCEPT ![t] = "deregistered"]

(* An image that is gone cannot be deregistered again: an error.           *)
CleanTarget(t) ==
  /\ cleanup = "active"
  /\ First(t) /\ remote[t] # "deregistered"
  /\ Deleted(t)
  /\ todo' = todo \ {t}
  /\ UNCHANGED <<files, jobVars, podVars, cleanup, corruptions>>

(* The first error ends the cleanup, maybe after some of its deletions.    *)
CleanupFails ==
  /\ cleanup = "active"
  /\ UNCHANGED remote \/ \E t \in todo : First(t) /\ Deleted(t)
  /\ cleanup' = "failed"
  /\ todo' = {}
  /\ UNCHANGED <<files, jobVars, podVars, corruptions>>

CleanupSucceeds ==
  /\ cleanup = "active" /\ todo = {}
  /\ cleanup' = "succeeded"
  /\ UNCHANGED <<files, remote, jobVars, podVars, todo, corruptions>>

(* The failed cleanup Job expires and the controller creates it again.     *)
RetryCleanup ==
  /\ cleanup = "failed"
  /\ cleanup' = "none"
  /\ UNCHANGED <<files, remote, jobVars, podVars, todo, corruptions>>

-----------------------------------------------------------------------------

Damage ==
  /\ corruptions < MaxCorruptions
  /\ corruptions' = corruptions + 1
  /\ \/ /\ Valid(sessionFile.primary)
        /\ sessionFile' = [primary |-> Corrupt, backup |-> sessionFile.backup]
        /\ UNCHANGED opsFile
     \/ /\ Valid(opsFile.primary)
        /\ opsFile' = [primary |-> Corrupt, backup |-> opsFile.backup]
        /\ UNCHANGED sessionFile
  /\ UNCHANGED <<remote, jobVars, podVars, cleanupVars>>

Process ==
  \/ StartPod \/ SkipRegistered \/ OpenSession
  \/ UploadBegins \/ UploadProgress \/ UploadCompletes \/ CheckpointUpload
  \/ RecordUpload \/ Register \/ CheckpointImage \/ RecordImage
  \/ ExitTransient \/ ExitFinal

Disturb ==
  \/ StartFails \/ UploadErrors \/ CheckpointFails \/ RecordFails
  \/ RegisterErrors \/ RecordImageFails \/ PodLost \/ DeadlineExceeded

Cleaning ==
  StartCleanup \/ (\E t \in Targets : CleanTarget(t)) \/ CleanupSucceeds
    \/ RetryCleanup

Next == Process \/ Disturb \/ Cleaning \/ CleanupFails \/ Damage

Spec == Init /\ [][Next]_vars

(* A Pod of an active Job takes steps, successful or failing ones, until   *)
(* the Job ends; the cleanup Job is created again as long as it fails, and *)
(* providers do not for ever refuse a cleanup that can succeed.            *)
Fairness ==
  /\ WF_vars(Process \/ Disturb)
  /\ WF_vars(Cleaning)
  /\ \A t \in Targets : SF_vars(CleanTarget(t))
  /\ SF_vars(CleanupSucceeds)

FairSpec == Spec /\ Fairness

-----------------------------------------------------------------------------
(* Properties                                                              *)

(* An upload Job that succeeds has registered the image at every target,   *)
(* although Pods were lost anywhere and a checkpoint fell back to its      *)
(* previous generation (readUploadSessions).                               *)
SuccessRegistersAll ==
  job = "succeeded" => \A t \in Targets : remote[t] = "image"

(* No image can be created that cleanup would not find: the operation is   *)
(* recorded before Register, so the operations a cleanup Job reads name    *)
(* every registered target (processUploadTarget, readUploadOperations).    *)
(* A damaged file is restored from an older backup, so this is claimed for *)
(* files as the uploader wrote them.                                       *)
ImageRecorded ==
  corruptions = 0 =>
    \A t \in Targets : remote[t] = "image" => Valid(ReadOps) /\ t \in ReadOps

(* docs/architecture/ARCHITECTURE.md: "a replacement Pod does not repeat a *)
(* completed phase": no upload to a target whose session file says that    *)
(* the upload is complete.                                                 *)
UploadsNotRepeated ==
  [][pc = "upload" /\ pc' = "checkpoint" /\ Valid(ReadSessions)
       => ReadSessions[cur] \notin {"uploaded", "registered"}]_vars

(* A target that is registered on disk stays registered on disk: neither a *)
(* replacement Pod nor a later target's checkpoint writes an older session *)
(* over it, even after one damaged file.                                   *)
RegisteredOnDiskStays ==
  [][\A t \in Targets :
       Valid(sessionFile.primary) /\ Valid(sessionFile'.primary)
         /\ sessionFile.primary[t] = "registered"
       => sessionFile'.primary[t] = "registered"]_vars

(* Every upload Job settles: it succeeds, or the cleanup after its failure *)
(* eventually succeeds, also from a damaged record (readUploadOperations,  *)
(* reconstructUploadOperationsFromSessions) and although parts of it were  *)
(* done before.  The exception is an image at AWS that a cleanup which     *)
(* then failed had deregistered: no later one gets past it.                *)
UploadSettles ==
  job = "active" ~> \/ job = "succeeded" \/ cleanup = "succeeded"
                    \/ \E t \in OneShot : remote[t] = "deregistered"

(* docs/architecture/ARCHITECTURE.md: "Provider.DeleteArtifact() is called *)
(* for any partially-uploaded targets": a finished cleanup leaves nothing  *)
(* at any provider.  The code does not keep this (README): an upload that  *)
(* was not recorded is not deleted.                                        *)
CleanupLeavesNothing ==
  cleanup = "succeeded" =>
    \A t \in Targets : remote[t] \in {"clean", "deregistered"}
=============================================================================
