--------------------------- MODULE UploaderProofs ---------------------------
(***************************************************************************)
(* Proofs about Uploader, for every number of targets, of restarts and of  *)
(* damaged files.                                                          *)
(*                                                                         *)
(* The argument: a Pod's copy of the sessions is never behind what is on   *)
(* disk, because a new Pod reads the later generation and a checkpoint     *)
(* never takes its session back. So whatever generation a replacement Pod  *)
(* is left with, the sessions that it calls registered were registered,    *)
(* and the ones that are complete on disk are not uploaded again.          *)
(***************************************************************************)
EXTENDS Uploader, TLAPS

(* The phases of a session whose upload is complete.                       *)
Completed == {"uploaded", "registered"}

(* The sessions x have got at least as far as the sessions y, as far as    *)
(* completed phases go: a new offset is no step back from "resumable".     *)
Covers(x, y) ==
  \A t \in Targets :
    /\ y[t] \in Completed => x[t] \in Completed
    /\ y[t] = "registered" => x[t] = "registered"

(* A Pod of the upload Job is at work.                                     *)
PodRuns == job = "active" /\ pc # "down"

(* The sessions that a replacement Pod may be given.                       *)
OnDisk == {x \in {sessionFile.primary, sessionFile.backup} : Valid(x)}

(* The backup is not ahead of the file it was a backup of.                 *)
FilesOrdered ==
  Valid(sessionFile.primary) /\ Valid(sessionFile.backup)
    => Covers(sessionFile.primary, sessionFile.backup)

(* The Pod's copy of the sessions is not behind any that is on disk, so a  *)
(* checkpoint of it takes nothing back.                                    *)
PodAhead == PodRuns => \A x \in OnDisk : Covers(sessions, x)

(* What the session of the current target says at each step of the Pod,    *)
(* and that Register has answered before the image is checkpointed.        *)
StepSession ==
  job = "active" =>
    /\ pc = "upload" => sessions[cur] \notin Completed
    /\ pc \in {"checkpoint", "record", "register", "checkpointImage"}
         => sessions[cur] # "registered"
    /\ pc = "recordImage" => sessions[cur] = "registered"
    /\ pc = "checkpointImage" => remote[cur] = "image"

(* A session that says that the target is registered is right, on disk and *)
(* in the Pod, as long as the Job may still succeed.                       *)
RegisteredIsImage ==
  job = "active" =>
    /\ \A x \in OnDisk, t \in Targets : x[t] = "registered" => remote[t] = "image"
    /\ pc # "down" =>
         \A t \in Targets : sessions[t] = "registered" => remote[t] = "image"

(* A target that the Pod has left without a failure is registered.         *)
TargetsDone ==
  PodRuns =>
    \A t \in Targets :
      (t < cur \/ pc = "exit") /\ failed[t] = "no" => sessions[t] = "registered"

(* Cleanup does not run beside a Job that may still succeed or has.        *)
CleanupAfterFailure == cleanup # "none" => job = "failed"

(* As long as no file was damaged the operations on disk name every image, *)
(* and the current target's from before Register is called.                *)
RecordedFirst ==
  corruptions = 0 =>
    /\ \A t \in Targets :
         remote[t] = "image" => Valid(opsFile.primary) /\ t \in opsFile.primary
    /\ pc \in {"register", "checkpointImage", "recordImage"}
         => Valid(opsFile.primary) /\ cur \in opsFile.primary

(* What the sessions may be.                                               *)
SessionSet == [Targets -> SessionPhases]

-----------------------------------------------------------------------------

(* What was written can be read.                                           *)
LEMMA ValidContent ==
  /\ \A x \in SessionSet : Valid(x)
  /\ \A x \in SUBSET Targets : Valid(x)
  /\ ~Valid(Missing) /\ ~Valid(Corrupt)
BY FileAssumption DEF Valid, SessionSet

(* What the two generations of a file may be.                              *)
LEMMA FileFields ==
  ASSUME NEW S, NEW f \in FileOf(S)
  PROVE  /\ Valid(f.primary) => f.primary \in S
         /\ Valid(f.backup) => f.backup \in S
         /\ f.primary \in S \cup {Missing, Corrupt}
         /\ f.backup \in S \cup {Missing}
BY DEF FileOf, Valid

(* A checkpoint makes the valid primary the backup.                        *)
LEMMA WrittenFile ==
  ASSUME NEW S, NEW f \in FileOf(S), NEW x \in S
  PROVE  /\ Written(f, x) \in FileOf(S)
         /\ Written(f, x).primary = x
         /\ Written(f, x).backup = IF Valid(f.primary) THEN f.primary ELSE f.backup
BY FileFields DEF Written, FileOf

(* A checkpoint that fails leaves the primary, and a backup no older than  *)
(* before.                                                                 *)
LEMMA NotWrittenFile ==
  ASSUME NEW S, NEW f \in FileOf(S), NEW g \in NotWritten(f)
  PROVE  /\ g \in FileOf(S)
         /\ g.primary = f.primary
         /\ g.backup \in {f.backup, IF Valid(f.primary) THEN f.primary ELSE f.backup}
BY FileFields DEF NotWritten, FileOf

(* Damage takes the primary only.                                          *)
LEMMA DamagedFile ==
  ASSUME NEW S, NEW f \in FileOf(S)
  PROVE  /\ [primary |-> Corrupt, backup |-> f.backup] \in FileOf(S)
         /\ [primary |-> Corrupt, backup |-> f.backup].primary = Corrupt
         /\ [primary |-> Corrupt, backup |-> f.backup].backup = f.backup
BY FileFields DEF FileOf

(* What readUploadSessions may answer.                                     *)
LEMMA ReadSessionsType ==
  ASSUME TypeOK
  PROVE  /\ ReadSessions \in SessionSet \cup {Corrupt}
         /\ ReadSessions = IF Valid(sessionFile.primary) THEN sessionFile.primary
                           ELSE IF Valid(sessionFile.backup) THEN sessionFile.backup
                           ELSE IF sessionFile.primary = Missing THEN NoSessions
                           ELSE Corrupt
         /\ NoSessions \in SessionSet
<1>1. sessionFile \in FileOf(SessionSet)
  BY DEF TypeOK, SessionSet
<1>2. NoSessions \in SessionSet
  BY DEF NoSessions, SessionSet, SessionPhases
<1> QED
  BY <1>1, <1>2, FileFields DEF ReadSessions

(* What readUploadOperations may answer.                                   *)
LEMMA ReadOpsType ==
  ASSUME TypeOK
  PROVE  ReadOps \in (SUBSET Targets) \cup {Missing, Corrupt}
<1>1. opsFile \in FileOf(SUBSET Targets)
  BY DEF TypeOK
<1>2. Reconstructed \in SUBSET Targets
  BY DEF Reconstructed
<1> QED
  BY <1>1, <1>2, FileFields DEF ReadOps, Valid

-----------------------------------------------------------------------------

(* Recording the current target keeps the targets that were recorded.      *)
LEMMA RecordType ==
  ASSUME TypeOK, Record
  PROVE  /\ opsFile' \in FileOf(SUBSET Targets)
         /\ Valid(opsFile'.primary) /\ cur \in opsFile'.primary
         /\ Valid(opsFile.primary) => opsFile.primary \subseteq opsFile'.primary
<1> DEFINE new == {cur} \cup (IF ReadOps = Missing THEN {} ELSE ReadOps)
<1>1. new \in SUBSET Targets
  BY ReadOpsType DEF Record, TypeOK
<1>2. opsFile \in FileOf(SUBSET Targets)
  BY DEF TypeOK
<1>3. opsFile' = Written(opsFile, new)
  BY DEF Record
<1>4. Valid(opsFile.primary) => ReadOps = opsFile.primary /\ ReadOps # Missing
  BY DEF ReadOps, Valid
<1>5. cur \in new /\ (Valid(opsFile.primary) => opsFile.primary \subseteq new)
  BY <1>4
<1> HIDE DEF new
<1>6. opsFile' \in FileOf(SUBSET Targets) /\ opsFile'.primary = new
  BY <1>1, <1>2, <1>3, WrittenFile
<1>7. Valid(new)
  BY <1>1, ValidContent
<1> QED
  BY <1>5, <1>6, <1>7

(* An operation that cannot be recorded leaves the record as it was.       *)
LEMMA RecordImpossibleType ==
  ASSUME TypeOK, RecordImpossible
  PROVE  opsFile' \in FileOf(SUBSET Targets) /\ opsFile'.primary = opsFile.primary
<1>1. opsFile \in FileOf(SUBSET Targets)
  BY DEF TypeOK
<1> QED
  BY <1>1, NotWrittenFile DEF RecordImpossible

(* After a target comes the next one or, after the last, the exit.         *)
LEMMA AdvanceMoves ==
  ASSUME TypeOK, Advance
  PROVE  /\ cur' \in Targets /\ pc' \in {"session", "exit"}
         /\ \/ cur' = cur + 1 /\ pc' = "session"
            \/ cur' = cur /\ cur = NumTargets /\ pc' = "exit"
BY SizeAssumption DEF TypeOK, Advance, Targets

(* A failure is kept for the current target alone.                         *)
LEMMA TargetFailsMoves ==
  ASSUME TypeOK, NEW kind \in {"transient", "terminal"}, TargetFails(kind)
  PROVE  /\ failed' \in [Targets -> {"no", "transient", "terminal"}]
         /\ failed'[cur] # "no"
         /\ \A t \in Targets : t # cur => failed'[t] = failed[t]
         /\ Advance
BY DEF TargetFails, TypeOK

-----------------------------------------------------------------------------

(* A checkpoint, perhaps a failed one, of the current session at phase p.  *)
SessionRaised(p) ==
  /\ PodRuns
  /\ sessions' = [sessions EXCEPT ![cur] = p]
  /\ Covers(sessions', sessions)
  /\ p = "registered" => pc = "checkpointImage"
  /\ \/ sessionFile' = Written(sessionFile, sessions')
     \/ sessionFile' \in NotWritten(sessionFile)

(* Damage to the sessions.                                                 *)
SessionDamaged ==
  /\ sessionFile' = [primary |-> Corrupt, backup |-> sessionFile.backup]
  /\ UNCHANGED sessions

(* A checkpoint that takes its own session no step back takes none back.   *)
LEMMA Raised ==
  ASSUME TypeOK, NEW p \in SessionPhases,
         sessions' = [sessions EXCEPT ![cur] = p],
         sessions[cur] \in Completed => p \in Completed,
         sessions[cur] = "registered" => p = "registered"
  PROVE  Covers(sessions', sessions)
BY DEF TypeOK, Covers

(* All that ever happens to the sessions: a checkpoint which takes no      *)
(* session back, a Pod that reads them, damage.                            *)
LEMMA SessionEffects ==
  ASSUME TypeOK, StepSession, Next
  PROVE  \/ UNCHANGED <<sessions, sessionFile>>
         \/ \E p \in SessionPhases : SessionRaised(p)
         \/ StartPod
         \/ SessionDamaged
<1> USE DEF files, podVars, jobVars, cleanupVars, Running
<1>0. /\ "uploading" \in SessionPhases /\ "resumable" \in SessionPhases
      /\ "uploaded" \in SessionPhases /\ "registered" \in SessionPhases
  BY DEF SessionPhases
<1>1. CASE OpenSession
  <2>1. CASE sessions[cur] = "none"
    <3>1. SessionRaised("uploading")
      BY <1>0, <1>1, <2>1, Raised DEF OpenSession, EnsureUploadSession, Checkpoint,
         SessionRaised, PodRuns, Completed
    <3> QED BY <1>0, <3>1
  <2>2. CASE sessions[cur] # "none"
    BY <1>1, <2>2 DEF OpenSession, EnsureUploadSession
  <2> QED BY <2>1, <2>2
<1>2. CASE UploadProgress
  <2>1. SessionRaised("resumable")
    BY <1>0, <1>2, Raised DEF UploadProgress, Checkpoint, StepSession, SessionRaised,
       PodRuns, Completed
  <2> QED BY <1>0, <2>1
<1>3. CASE CheckpointUpload
  <2>1. SessionRaised("uploaded")
    BY <1>0, <1>3, Raised DEF CheckpointUpload, Checkpoint, StepSession, SessionRaised,
       PodRuns, Completed
  <2> QED BY <1>0, <2>1
<1>4. CASE CheckpointImage
  <2>1. SessionRaised("registered")
    BY <1>0, <1>4, Raised DEF CheckpointImage, Checkpoint, SessionRaised,
       PodRuns, Completed
  <2> QED BY <1>0, <2>1
<1>5. CASE CheckpointFails
  <2>1. CASE Running("session") /\ sessions[cur] = "none"
             /\ sessions' = [sessions EXCEPT ![cur] = "uploading"]
    <3>1. SessionRaised("uploading")
      BY <1>0, <1>5, <2>1, Raised DEF CheckpointFails, SessionRaised, PodRuns,
         Completed
    <3> QED BY <1>0, <3>1
  <2>2. CASE Running("checkpoint")
             /\ sessions' = [sessions EXCEPT ![cur] = "uploaded"]
    <3>1. SessionRaised("uploaded")
      BY <1>0, <1>5, <2>2, Raised DEF CheckpointFails, StepSession, SessionRaised,
         PodRuns, Completed
    <3> QED BY <1>0, <3>1
  <2>3. CASE Running("checkpointImage")
             /\ sessions' = [sessions EXCEPT ![cur] = "registered"]
    <3>1. SessionRaised("registered")
      BY <1>0, <1>5, <2>3, Raised DEF CheckpointFails, SessionRaised, PodRuns,
         Completed
    <3> QED BY <1>0, <3>1
  <2> QED BY <1>5, <2>1, <2>2, <2>3 DEF CheckpointFails
<1>6. CASE Damage
  BY <1>6 DEF Damage, SessionDamaged
<1>7. CASE \/ SkipRegistered \/ UploadBegins \/ UploadCompletes \/ RecordUpload
           \/ Register \/ RecordImage \/ ExitTransient \/ ExitFinal
  BY <1>7 DEF SkipRegistered, UploadBegins, UploadCompletes, RecordUpload, Register,
     RecordImage, ExitTransient, Replace, ExitFinal
<1>8. CASE \/ StartFails \/ UploadErrors \/ RecordFails \/ RegisterErrors
           \/ RecordImageFails \/ PodLost \/ DeadlineExceeded
  BY <1>8 DEF StartFails, UploadErrors, RecordFails, RegisterErrors, RecordImageFails,
     PodLost, Replace, DeadlineExceeded
<1>9. CASE Cleaning \/ CleanupFails
  BY <1>9 DEF Cleaning, StartCleanup, CleanTarget, CleanupSucceeds, RetryCleanup,
     CleanupFails
<1> QED
  BY <1>1, <1>2, <1>3, <1>4, <1>5, <1>6, <1>7, <1>8, <1>9
  DEF Next, Process, Disturb

(* The sessions keep their type.                                           *)
LEMMA SessionTypes ==
  ASSUME TypeOK, StepSession, Next
  PROVE  sessions' \in SessionSet /\ sessionFile' \in FileOf(SessionSet)
<1>0. sessions \in SessionSet /\ sessionFile \in FileOf(SessionSet)
  BY DEF TypeOK, SessionSet
<1>1. ASSUME NEW p \in SessionPhases, SessionRaised(p)
      PROVE  sessions' \in SessionSet /\ sessionFile' \in FileOf(SessionSet)
  <2>1. sessions' \in SessionSet
    BY <1>0, <1>1 DEF SessionRaised, SessionSet
  <2> QED
    BY <1>0, <1>1, <2>1, WrittenFile, NotWrittenFile DEF SessionRaised
<1>2. CASE StartPod
  BY <1>0, <1>2, ReadSessionsType DEF StartPod, files
<1>3. CASE SessionDamaged
  BY <1>0, <1>3, DamagedFile DEF SessionDamaged
<1> QED
  BY <1>0, <1>1, <1>2, <1>3, SessionEffects

(* Getting at least as far is transitive.                                  *)
LEMMA CoversTransitive ==
  ASSUME NEW x, NEW y, NEW z, Covers(x, y), Covers(y, z)
  PROVE  Covers(x, z)
BY DEF Covers

(* Every step keeps the backup behind its file.                            *)
LEMMA FilesOrderedStep ==
  ASSUME TypeOK, StepSession, FilesOrdered, PodAhead, [Next]_vars
  PROVE  FilesOrdered'
<1>0. sessionFile \in FileOf(SessionSet) /\ sessions' \in SessionSet
  <2>1. CASE Next
    BY <2>1, SessionTypes DEF TypeOK, SessionSet
  <2>2. CASE UNCHANGED vars
    BY <2>2 DEF TypeOK, SessionSet, vars, podVars
  <2> QED BY <2>1, <2>2
<1>1. ASSUME NEW p \in SessionPhases, SessionRaised(p) PROVE FilesOrdered'
  <2>1. \A x \in OnDisk : Covers(sessions', x)
    BY <1>1, CoversTransitive DEF SessionRaised, PodAhead
  <2>2. CASE sessionFile' = Written(sessionFile, sessions')
    <3>1. /\ sessionFile'.primary = sessions'
          /\ sessionFile'.backup \in {sessionFile.primary, sessionFile.backup}
      BY <1>0, <2>2, WrittenFile
    <3>2. Valid(sessionFile'.backup) => sessionFile'.backup \in OnDisk
      BY <3>1 DEF OnDisk
    <3>3. FilesOrdered' = (Valid(sessionFile'.primary) /\ Valid(sessionFile'.backup)
                             => Covers(sessionFile'.primary, sessionFile'.backup))
      BY DEF FilesOrdered
    <3> QED BY <2>1, <3>1, <3>2, <3>3
  <2>3. CASE sessionFile' \in NotWritten(sessionFile)
    <3>1. /\ sessionFile'.primary = sessionFile.primary
          /\ sessionFile'.backup \in {sessionFile.primary, sessionFile.backup}
      BY <1>0, <2>3, NotWrittenFile
    <3>2. Covers(sessionFile.primary, sessionFile.primary)
      BY DEF Covers
    <3> QED BY <3>1, <3>2 DEF FilesOrdered, Valid
  <2> QED BY <1>1, <2>2, <2>3 DEF SessionRaised
<1>2. CASE StartPod
  BY <1>2 DEF StartPod, files, FilesOrdered, Valid
<1>3. CASE SessionDamaged
  <2>1. sessionFile'.primary = Corrupt
    BY <1>0, <1>3, DamagedFile DEF SessionDamaged
  <2> QED BY <2>1, ValidContent DEF FilesOrdered, Valid
<1>4. CASE UNCHANGED sessionFile
  BY <1>4 DEF FilesOrdered, Valid
<1>5. CASE UNCHANGED vars
  BY <1>4, <1>5 DEF vars, files
<1> QED
  BY <1>1, <1>2, <1>3, <1>4, <1>5, SessionEffects

(* What is on disk after a step was there before or is the Pod's copy.     *)
LEMMA OnDiskBefore ==
  ASSUME TypeOK, StepSession, [Next]_vars, NEW x \in OnDisk'
  PROVE  \/ x \in OnDisk
         \/ x = sessions' /\ PodRuns /\ \E p \in SessionPhases : SessionRaised(p)
<1>0. /\ sessionFile \in FileOf(SessionSet)
      /\ x \in {sessionFile'.primary, sessionFile'.backup} /\ Valid(x)
  BY DEF TypeOK, SessionSet, OnDisk, Valid
<1>1. ASSUME NEW p \in SessionPhases, SessionRaised(p)
      PROVE  x \in OnDisk \/ x = sessions'
  <2>1. sessions' \in SessionSet
    BY <1>1 DEF TypeOK, SessionRaised, SessionSet
  <2>2. CASE sessionFile' = Written(sessionFile, sessions')
    BY <1>0, <2>1, <2>2, WrittenFile DEF OnDisk
  <2>3. CASE sessionFile' \in NotWritten(sessionFile)
    BY <1>0, <2>3, NotWrittenFile DEF OnDisk
  <2> QED BY <1>1, <2>2, <2>3 DEF SessionRaised
<1>2. CASE UNCHANGED sessionFile
  BY <1>0, <1>2 DEF OnDisk
<1>3. CASE SessionDamaged
  BY <1>0, <1>3, DamagedFile, ValidContent DEF SessionDamaged, OnDisk
<1>4. CASE StartPod \/ UNCHANGED vars
  BY <1>2, <1>4 DEF StartPod, vars, files
<1> QED
  BY <1>1, <1>2, <1>3, <1>4, SessionEffects DEF SessionRaised

(* Only StartPod begins a Pod.                                             *)
LEMMA PodsStart ==
  ASSUME [Next]_vars, PodRuns', ~PodRuns
  PROVE  StartPod
<1> USE DEF PodRuns, files, podVars, jobVars, cleanupVars, Running
<1>1. CASE Process /\ ~StartPod
  BY <1>1 DEF Process, SkipRegistered, OpenSession, UploadBegins, UploadProgress,
     UploadCompletes, CheckpointUpload, RecordUpload, Register, CheckpointImage,
     RecordImage, ExitTransient, Replace, ExitFinal
<1>2. CASE Disturb
  BY <1>2 DEF Disturb, StartFails, UploadErrors, CheckpointFails, RecordFails,
     RegisterErrors, RecordImageFails, PodLost, Replace, DeadlineExceeded
<1>3. CASE Cleaning \/ CleanupFails \/ Damage \/ UNCHANGED vars
  BY <1>3 DEF Cleaning, StartCleanup, CleanTarget, CleanupSucceeds, RetryCleanup,
     CleanupFails, Damage, vars
<1> QED
  BY <1>1, <1>2, <1>3 DEF Next

(* Every step keeps the Pod ahead of the disk: a new Pod reads the later   *)
(* of the two generations.                                                 *)
LEMMA PodAheadStep ==
  ASSUME TypeOK, StepSession, FilesOrdered, PodAhead, [Next]_vars
  PROVE  PodAhead'
<1> SUFFICES ASSUME PodRuns', NEW x \in OnDisk' PROVE Covers(sessions', x)
  BY DEF PodAhead
<1>0. Covers(sessions', sessions') /\ Covers(x, x)
  BY DEF Covers
<1>1. CASE x = sessions'
  BY <1>0, <1>1
<1>2. CASE x \in OnDisk /\ PodRuns
  <2>1. Covers(sessions, x)
    BY <1>2 DEF PodAhead
  <2>2. CASE UNCHANGED sessions
    BY <2>1, <2>2
  <2>3. ASSUME NEW p \in SessionPhases, SessionRaised(p) PROVE Covers(sessions', x)
    BY <2>1, <2>3, CoversTransitive DEF SessionRaised
  <2>4. ~StartPod
    BY <1>2 DEF StartPod, Running, PodRuns
  <2> QED
    BY <2>2, <2>3, <2>4, SessionEffects DEF SessionDamaged, vars, podVars
<1>3. CASE x \in OnDisk /\ ~PodRuns
  <2>1. StartPod
    BY <1>3, PodsStart
  <2>2. sessions' = ReadSessions
    BY <2>1 DEF StartPod
  <2>3. CASE Valid(sessionFile.primary)
    <3>1. sessions' = sessionFile.primary
      BY <2>2, <2>3 DEF ReadSessions
    <3> QED
      BY <1>0, <1>3, <2>3, <3>1 DEF OnDisk, FilesOrdered
  <2>4. CASE ~Valid(sessionFile.primary)
    <3>1. x = sessionFile.backup /\ Valid(sessionFile.backup)
      BY <1>3, <2>4 DEF OnDisk
    <3> QED
      BY <1>0, <2>2, <2>4, <3>1 DEF ReadSessions
  <2> QED BY <2>3, <2>4
<1> QED
  BY <1>1, <1>2, <1>3, OnDiskBefore

(* Every step keeps cleanup behind the failure of the Job.                 *)
LEMMA CleanupAfterFailureStep ==
  ASSUME CleanupAfterFailure, [Next]_vars
  PROVE  CleanupAfterFailure'
<1> USE DEF CleanupAfterFailure, jobVars, cleanupVars, Running
<1>1. CASE Process
  BY <1>1 DEF Process, StartPod, SkipRegistered, OpenSession, UploadBegins,
     UploadProgress, UploadCompletes, CheckpointUpload, RecordUpload, Register,
     CheckpointImage, RecordImage, ExitTransient, Replace, ExitFinal
<1>2. CASE Disturb
  BY <1>2 DEF Disturb, StartFails, UploadErrors, CheckpointFails, RecordFails,
     RegisterErrors, RecordImageFails, PodLost, Replace, DeadlineExceeded
<1>3. CASE Cleaning \/ CleanupFails \/ Damage \/ UNCHANGED vars
  BY <1>3 DEF Cleaning, StartCleanup, CleanTarget, CleanupSucceeds, RetryCleanup,
     CleanupFails, Damage, vars
<1> QED
  BY <1>1, <1>2, <1>3 DEF Next

(* Before the Job has failed, an image is lost only where the uploader     *)
(* undoes an upload or an operation that it could not record.              *)
LEMMA ImagesStay ==
  ASSUME TypeOK, CleanupAfterFailure, [Next]_vars, job # "failed",
         NEW t \in Targets, remote[t] = "image"
  PROVE  \/ remote'[t] = "image"
         \/ t = cur /\ job = "active" /\ pc \in {"upload", "record"}
<1> USE DEF files, Running
<1>1. CASE \/ StartPod \/ SkipRegistered \/ OpenSession \/ UploadProgress
           \/ CheckpointUpload \/ RecordUpload \/ CheckpointImage \/ RecordImage
           \/ ExitTransient \/ ExitFinal
  BY <1>1 DEF StartPod, SkipRegistered, OpenSession, UploadProgress,
     CheckpointUpload, RecordUpload, CheckpointImage, RecordImage, ExitTransient,
     Replace, ExitFinal
<1>2. CASE UploadBegins \/ UploadCompletes \/ Register \/ RegisterErrors
  BY <1>2 DEF UploadBegins, UploadCompletes, Register, RegisterErrors, TypeOK
<1>3. CASE UploadErrors \/ RecordFails
  BY <1>3 DEF UploadErrors, RecordFails, TryCleanup, TypeOK
<1>4. CASE \/ StartFails \/ CheckpointFails \/ RecordImageFails \/ PodLost
           \/ DeadlineExceeded \/ Damage
  BY <1>4 DEF StartFails, CheckpointFails, RecordImageFails, PodLost, Replace,
     DeadlineExceeded, Damage
<1>5. CASE Cleaning \/ CleanupFails
  BY <1>5 DEF Cleaning, StartCleanup, CleanTarget, CleanupSucceeds, RetryCleanup,
     CleanupFails, CleanupAfterFailure
<1>6. CASE UNCHANGED vars
  BY <1>6 DEF vars
<1> QED
  BY <1>1, <1>2, <1>3, <1>4, <1>5, <1>6 DEF Next, Process, Disturb

(* A Job that has ended is not active again.                               *)
LEMMA JobEnds ==
  ASSUME [Next]_vars, job' = "active"
  PROVE  job = "active"
<1> USE DEF jobVars, Running
<1>1. CASE Process
  BY <1>1 DEF Process, StartPod, SkipRegistered, OpenSession, UploadBegins,
     UploadProgress, UploadCompletes, CheckpointUpload, RecordUpload, Register,
     CheckpointImage, RecordImage, ExitTransient, Replace, ExitFinal
<1>2. CASE Disturb
  BY <1>2 DEF Disturb, StartFails, UploadErrors, CheckpointFails, RecordFails,
     RegisterErrors, RecordImageFails, PodLost, Replace, DeadlineExceeded
<1>3. CASE Cleaning \/ CleanupFails \/ Damage \/ UNCHANGED vars
  BY <1>3 DEF Cleaning, StartCleanup, CleanTarget, CleanupSucceeds, RetryCleanup,
     CleanupFails, Damage, vars
<1> QED
  BY <1>1, <1>2, <1>3 DEF Next

(* Every step keeps the sessions right about images: the uploader does not *)
(* undo a target whose session is registered, and writes that phase after  *)
(* Register has answered.                                                  *)
LEMMA RegisteredIsImageStep ==
  ASSUME TypeOK, StepSession, FilesOrdered, PodAhead, RegisteredIsImage,
         CleanupAfterFailure, [Next]_vars
  PROVE  RegisteredIsImage'
<1> SUFFICES ASSUME job' = "active"
             PROVE  /\ \A x \in OnDisk', t \in Targets :
                         x[t] = "registered" => remote'[t] = "image"
                    /\ pc' # "down" => \A t \in Targets :
                         sessions'[t] = "registered" => remote'[t] = "image"
  BY DEF RegisteredIsImage
<1>0. job = "active" /\ sessions \in SessionSet /\ cur \in Targets
  BY JobEnds DEF TypeOK, SessionSet
<1>1. ASSUME NEW t \in Targets, NEW x \in OnDisk, x[t] = "registered"
      PROVE  remote'[t] = "image"
  <2>1. remote[t] = "image"
    BY <1>0, <1>1 DEF RegisteredIsImage
  <2>2. PodRuns => sessions[t] = "registered"
    BY <1>1 DEF PodAhead, Covers
  <2>3. ~(t = cur /\ pc \in {"upload", "record"})
    BY <1>0, <2>2 DEF StepSession, PodRuns, Completed
  <2> QED
    BY <1>0, <2>1, <2>3, ImagesStay
<1>2. ASSUME PodRuns, NEW t \in Targets, sessions[t] = "registered"
      PROVE  remote'[t] = "image"
  <2>1. remote[t] = "image"
    BY <1>2 DEF RegisteredIsImage, PodRuns
  <2>2. ~(t = cur /\ pc \in {"upload", "record"})
    BY <1>0, <1>2 DEF StepSession, Completed
  <2> QED
    BY <1>0, <2>1, <2>2, ImagesStay
<1>3. ASSUME NEW p \in SessionPhases, SessionRaised(p), NEW t \in Targets,
             sessions'[t] = "registered"
      PROVE  remote'[t] = "image"
  <2>1. sessions'[t] = IF t = cur THEN p ELSE sessions[t]
    BY <1>0, <1>3 DEF SessionRaised, SessionSet
  <2>2. CASE sessions[t] = "registered"
    BY <1>2, <1>3, <2>2 DEF SessionRaised
  <2>3. CASE t = cur /\ p = "registered"
    <3>1. pc = "checkpointImage" /\ remote[cur] = "image"
      BY <1>0, <1>3, <2>3 DEF SessionRaised, StepSession
    <3> QED
      BY <1>0, <2>3, <3>1, ImagesStay
  <2> QED BY <1>3, <2>1, <2>2, <2>3
<1>4. ASSUME NEW x \in OnDisk', NEW t \in Targets, x[t] = "registered"
      PROVE  remote'[t] = "image"
  BY <1>1, <1>3, <1>4, OnDiskBefore
<1>5. ASSUME pc' # "down", NEW t \in Targets, sessions'[t] = "registered"
      PROVE  remote'[t] = "image"
  <2>1. CASE PodRuns
    <3>1. ~StartPod
      BY <2>1 DEF StartPod, Running, PodRuns
    <3> QED
      BY <1>2, <1>3, <1>5, <2>1, <3>1, SessionEffects
      DEF SessionDamaged, vars, podVars
  <2>2. CASE ~PodRuns
    <3>1. StartPod
      BY <1>5, <2>2, PodsStart DEF PodRuns
    <3>2. sessions' = ReadSessions /\ ReadSessions # Corrupt
      BY <3>1 DEF StartPod
    <3>3. NoSessions[t] # "registered"
      BY DEF NoSessions
    <3>4. sessions' \in OnDisk
      BY <1>5, <3>2, <3>3 DEF ReadSessions, OnDisk
    <3> QED
      BY <1>1, <1>5, <3>4
  <2> QED BY <2>1, <2>2
<1> QED
  BY <1>4, <1>5
-----------------------------------------------------------------------------

(* All that ever happens to the record of operations.                      *)
LEMMA OpsEffects ==
  ASSUME TypeOK, [Next]_vars
  PROVE  /\ opsFile' \in FileOf(SUBSET Targets)
         /\ \/ opsFile'.primary = opsFile.primary
            \/ Record
            \/ Damage
<1> USE DEF files
<1>0. opsFile \in FileOf(SUBSET Targets)
  BY DEF TypeOK
<1>1. CASE Record
  BY <1>1, RecordType
<1>2. CASE RecordImpossible
  BY <1>2, RecordImpossibleType
<1>3. CASE Damage
  BY <1>0, <1>3, DamagedFile DEF Damage
<1>4. CASE UNCHANGED opsFile
  BY <1>0, <1>4
<1>5. CASE Process
  BY <1>1, <1>4, <1>5 DEF Process, StartPod, SkipRegistered, OpenSession,
     UploadBegins, UploadProgress, UploadCompletes, CheckpointUpload, RecordUpload,
     Register, CheckpointImage, RecordImage, ExitTransient, Replace, ExitFinal
<1>6. CASE Disturb
  BY <1>2, <1>4, <1>6 DEF Disturb, StartFails, UploadErrors, CheckpointFails,
     RecordFails, RegisterErrors, RecordImageFails, PodLost, Replace,
     DeadlineExceeded
<1>7. CASE Cleaning \/ CleanupFails \/ UNCHANGED vars
  BY <1>4, <1>7 DEF Cleaning, StartCleanup, CleanTarget, CleanupSucceeds,
     RetryCleanup, CleanupFails, vars
<1> QED
  BY <1>3, <1>5, <1>6, <1>7 DEF Next

(* What the providers hold keeps its type.                                 *)
LEMMA RemoteType ==
  ASSUME TypeOK, [Next]_vars
  PROVE  remote' \in [Targets -> RemoteStates]
<1> USE DEF TypeOK, RemoteStates
<1>1. CASE Process
  BY <1>1 DEF Process, StartPod, SkipRegistered, OpenSession, UploadBegins,
     UploadProgress, UploadCompletes, CheckpointUpload, RecordUpload, Register,
     CheckpointImage, RecordImage, ExitTransient, Replace, ExitFinal
<1>2. CASE Disturb
  BY <1>2 DEF Disturb, StartFails, UploadErrors, CheckpointFails, RecordFails,
     RegisterErrors, RecordImageFails, PodLost, Replace, DeadlineExceeded, TryCleanup
<1>3. CASE Cleaning \/ CleanupFails \/ Damage \/ UNCHANGED vars
  BY <1>3 DEF Cleaning, StartCleanup, CleanTarget, CleanupSucceeds, RetryCleanup,
     CleanupFails, Deleted, Damage, vars
<1> QED
  BY <1>1, <1>2, <1>3 DEF Next

(* The Pod's own variables keep their types.                               *)
LEMMA PodTypes ==
  ASSUME TypeOK, [Next]_vars
  PROVE  /\ pc' \in Steps /\ cur' \in Targets
         /\ failed' \in [Targets -> {"no", "transient", "terminal"}]
<1> USE DEF podVars
<1>0. /\ pc \in Steps /\ cur \in Targets
      /\ failed \in [Targets -> {"no", "transient", "terminal"}]
      /\ {"down", "session", "upload", "checkpoint", "record", "register",
          "checkpointImage", "recordImage", "exit"} = Steps
  BY DEF TypeOK, Steps
<1>1. CASE Advance /\ UNCHANGED failed
  BY <1>0, <1>1, AdvanceMoves
<1>2. ASSUME NEW kind \in {"transient", "terminal"}, TargetFails(kind)
      PROVE  /\ pc' \in Steps /\ cur' \in Targets
             /\ failed' \in [Targets -> {"no", "transient", "terminal"}]
  BY <1>0, <1>2, AdvanceMoves, TargetFailsMoves
<1>3. CASE pc' \in Steps /\ UNCHANGED <<cur, failed>>
  BY <1>0, <1>3
<1>4. CASE StartPod
  BY <1>0, <1>4, SizeAssumption DEF StartPod, Targets
<1>5. CASE \/ UploadBegins \/ UploadProgress \/ UploadCompletes \/ CheckpointUpload
           \/ RecordUpload \/ Register \/ CheckpointImage \/ ExitTransient \/ ExitFinal
           \/ StartFails \/ PodLost \/ DeadlineExceeded
  BY <1>0, <1>3, <1>5 DEF UploadBegins, UploadProgress, UploadCompletes,
     CheckpointUpload, RecordUpload, Register, CheckpointImage, ExitTransient,
     Replace, ExitFinal, StartFails, PodLost, DeadlineExceeded
<1>6. CASE SkipRegistered \/ RecordImage
  BY <1>1, <1>6 DEF SkipRegistered, RecordImage
<1>7. CASE UploadErrors \/ CheckpointFails \/ RecordFails \/ RegisterErrors
           \/ RecordImageFails
  BY <1>2, <1>7 DEF UploadErrors, CheckpointFails, RecordFails, RegisterErrors,
     RecordImageFails
<1>8. CASE OpenSession
  BY <1>0, <1>2, <1>3, <1>8 DEF OpenSession
<1>9. CASE Cleaning \/ CleanupFails \/ Damage \/ UNCHANGED vars
  BY <1>0, <1>3, <1>9 DEF Cleaning, StartCleanup, CleanTarget, CleanupSucceeds,
     RetryCleanup, CleanupFails, Damage, vars
<1> QED
  BY <1>4, <1>5, <1>6, <1>7, <1>8, <1>9 DEF Next, Process, Disturb

(* The Jobs' variables keep their types.                                   *)
LEMMA JobTypes ==
  ASSUME TypeOK, [Next]_vars
  PROVE  /\ job' \in {"active", "succeeded", "failed"}
         /\ restarts' \in 0 .. MaxRestarts
         /\ cleanup' \in {"none", "active", "succeeded", "failed"}
         /\ todo' \in SUBSET Targets
         /\ corruptions' \in 0 .. MaxCorruptions
<1> USE DEF jobVars, cleanupVars
<1>0. /\ job \in {"active", "succeeded", "failed"} /\ restarts \in 0 .. MaxRestarts
      /\ cleanup \in {"none", "active", "succeeded", "failed"}
      /\ todo \in SUBSET Targets /\ corruptions \in 0 .. MaxCorruptions
      /\ MaxRestarts \in Nat /\ MaxCorruptions \in Nat
  BY SizeAssumption DEF TypeOK
<1>1. CASE Replace
  BY <1>0, <1>1 DEF Replace
<1>2. CASE Process
  BY <1>0, <1>1, <1>2 DEF Process, StartPod, SkipRegistered, OpenSession,
     UploadBegins, UploadProgress, UploadCompletes, CheckpointUpload, RecordUpload,
     Register, CheckpointImage, RecordImage, ExitTransient, ExitFinal
<1>3. CASE Disturb
  BY <1>0, <1>1, <1>3 DEF Disturb, StartFails, UploadErrors, CheckpointFails,
     RecordFails, RegisterErrors, RecordImageFails, PodLost, DeadlineExceeded
<1>4. CASE StartCleanup
  BY <1>0, <1>4, ReadOpsType DEF StartCleanup
<1>5. CASE \/ \E t \in Targets : CleanTarget(t)
           \/ CleanupSucceeds \/ RetryCleanup \/ CleanupFails
  BY <1>0, <1>5 DEF CleanTarget, CleanupSucceeds, RetryCleanup, CleanupFails
<1>6. CASE Damage \/ UNCHANGED vars
  BY <1>0, <1>6 DEF Damage, vars
<1> QED
  BY <1>2, <1>3, <1>4, <1>5, <1>6 DEF Next, Cleaning

(* Every step keeps the type invariant.                                    *)
LEMMA TypeOKStep ==
  ASSUME TypeOK, StepSession, [Next]_vars
  PROVE  TypeOK'
<1>1. sessions' \in SessionSet /\ sessionFile' \in FileOf(SessionSet)
  <2>1. CASE UNCHANGED vars
    BY <2>1 DEF vars, files, podVars, TypeOK, SessionSet
  <2> QED BY <2>1, SessionTypes
<1> QED
  BY <1>1, OpsEffects, RemoteType, PodTypes, JobTypes DEF TypeOK, SessionSet

-----------------------------------------------------------------------------

(* Every step keeps what the steps of the Pod know of the session.         *)
LEMMA StepSessionStep ==
  ASSUME TypeOK, StepSession, CleanupAfterFailure, [Next]_vars
  PROVE  StepSession'
<1> SUFFICES ASSUME job' = "active"
             PROVE  /\ pc' = "upload" => sessions'[cur'] \notin Completed
                    /\ pc' \in {"checkpoint", "record", "register", "checkpointImage"}
                         => sessions'[cur'] # "registered"
                    /\ pc' = "recordImage" => sessions'[cur'] = "registered"
                    /\ pc' = "checkpointImage" => remote'[cur'] = "image"
  BY DEF StepSession
<1> USE DEF Running, files, podVars, jobVars
<1>0. /\ job = "active" /\ cur \in Targets /\ sessions \in [Targets -> SessionPhases]
      /\ remote \in [Targets -> RemoteStates]
  BY JobEnds DEF TypeOK
<1>1. CASE pc' \in {"session", "exit", "down"}
  BY <1>1
<1>2. CASE Advance
  BY <1>1, <1>2, AdvanceMoves
<1>3. CASE \E kind \in {"transient", "terminal"} : TargetFails(kind)
  BY <1>2, <1>3 DEF TargetFails
<1>4. CASE UNCHANGED <<pc, cur, sessions, remote>>
  BY <1>0, <1>4 DEF StepSession
<1>5. CASE OpenSession
  <2>1. CASE /\ pc' = IF sessions[cur] = "uploaded" THEN "record" ELSE "upload"
             /\ UNCHANGED <<cur, failed>>
    BY <1>0, <1>5, <2>1 DEF OpenSession, EnsureUploadSession, Checkpoint, Completed
  <2> QED BY <1>3, <1>5, <2>1 DEF OpenSession
<1>6. CASE UploadBegins \/ UploadCompletes \/ UploadProgress \/ CheckpointUpload
           \/ RecordUpload
  BY <1>0, <1>6 DEF UploadBegins, UploadCompletes, UploadProgress, Checkpoint,
     CheckpointUpload, RecordUpload, StepSession, Completed
<1>7. CASE Register \/ CheckpointImage
  BY <1>0, <1>7 DEF Register, CheckpointImage, Checkpoint, StepSession
<1>8. CASE \/ StartPod \/ SkipRegistered \/ RecordImage \/ ExitTransient \/ ExitFinal
           \/ UploadErrors \/ CheckpointFails \/ RecordFails \/ RegisterErrors
           \/ RecordImageFails \/ PodLost
  BY <1>1, <1>2, <1>3, <1>8 DEF StartPod, SkipRegistered, RecordImage,
     ExitTransient, Replace, ExitFinal, UploadErrors, CheckpointFails, RecordFails,
     RegisterErrors, RecordImageFails, PodLost
<1>9. CASE StartFails \/ DeadlineExceeded \/ Cleaning \/ CleanupFails \/ Damage
           \/ UNCHANGED vars
  BY <1>0, <1>4, <1>9 DEF StartFails, DeadlineExceeded, Cleaning, StartCleanup,
     CleanTarget, CleanupSucceeds, RetryCleanup, CleanupFails, Damage,
     CleanupAfterFailure, vars
<1> QED
  BY <1>5, <1>6, <1>7, <1>8, <1>9 DEF Next, Process, Disturb

(* A running Pod forgets no registration.                                  *)
LEMMA RegisteredKept ==
  ASSUME TypeOK, StepSession, PodRuns, [Next]_vars,
         NEW t \in Targets, sessions[t] = "registered"
  PROVE  sessions'[t] = "registered"
<1>1. ~StartPod
  BY DEF StartPod, Running, PodRuns
<1>2. ASSUME NEW p \in SessionPhases, SessionRaised(p)
      PROVE  sessions'[t] = "registered"
  BY <1>2 DEF SessionRaised, Covers
<1> QED
  BY <1>1, <1>2, SessionEffects DEF SessionDamaged, vars, podVars

(* A running Pod stays with its target, or leaves it registered or with a  *)
(* failure.                                                                *)
LEMMA TargetsMove ==
  ASSUME TypeOK, StepSession, [Next]_vars, PodRuns, PodRuns'
  PROVE  \/ UNCHANGED <<cur, failed>> /\ (pc' = "exit" => pc = "exit")
         \/ Advance /\ UNCHANGED failed /\ sessions'[cur] = "registered"
         \/ \E kind \in {"transient", "terminal"} : TargetFails(kind)
<1> USE DEF Running, files, podVars, PodRuns
<1>1. CASE OpenSession
  BY <1>1 DEF OpenSession
<1>2. CASE SkipRegistered \/ RecordImage
  BY <1>2 DEF SkipRegistered, RecordImage, StepSession
<1>3. CASE \/ UploadBegins \/ UploadProgress \/ UploadCompletes \/ CheckpointUpload
           \/ RecordUpload \/ Register \/ CheckpointImage
  BY <1>3 DEF UploadBegins, UploadProgress, UploadCompletes, CheckpointUpload,
     RecordUpload, Register, CheckpointImage
<1>4. CASE \/ StartPod \/ ExitTransient \/ ExitFinal \/ StartFails \/ PodLost
           \/ DeadlineExceeded
  BY <1>4 DEF StartPod, ExitTransient, Replace, ExitFinal, StartFails, PodLost,
     DeadlineExceeded
<1>5. CASE \/ UploadErrors \/ CheckpointFails \/ RecordFails \/ RegisterErrors
           \/ RecordImageFails
  BY <1>5 DEF UploadErrors, CheckpointFails, RecordFails, RegisterErrors,
     RecordImageFails
<1>6. CASE Cleaning \/ CleanupFails \/ Damage \/ UNCHANGED vars
  BY <1>6 DEF Cleaning, StartCleanup, CleanTarget, CleanupSucceeds, RetryCleanup,
     CleanupFails, Damage, vars
<1> QED
  BY <1>1, <1>2, <1>3, <1>4, <1>5, <1>6 DEF Next, Process, Disturb

(* Every step keeps the targets that were left without failure registered. *)
LEMMA TargetsDoneStep ==
  ASSUME TypeOK, StepSession, TargetsDone, [Next]_vars
  PROVE  TargetsDone'
<1> SUFFICES ASSUME PodRuns', NEW t \in Targets, t < cur' \/ pc' = "exit",
                    failed'[t] = "no"
             PROVE  sessions'[t] = "registered"
  BY DEF TargetsDone
<1>0. cur \in Int /\ t \in Int /\ t <= NumTargets
  BY SizeAssumption DEF TypeOK, Targets
<1>1. CASE ~PodRuns
  <2>1. cur' = 1 /\ pc' = "session"
    BY <1>1, PodsStart DEF StartPod
  <2> QED BY <2>1, SizeAssumption DEF Targets
<1>2. CASE PodRuns
  <2>1. CASE (t < cur \/ pc = "exit") /\ failed[t] = "no"
    BY <1>2, <2>1, RegisteredKept DEF TargetsDone
  <2>2. CASE UNCHANGED <<cur, failed>> /\ (pc' = "exit" => pc = "exit")
    BY <2>1, <2>2
  <2>3. CASE Advance /\ UNCHANGED failed /\ sessions'[cur] = "registered"
    BY <1>0, <2>1, <2>3, AdvanceMoves
  <2>4. ASSUME NEW kind \in {"transient", "terminal"}, TargetFails(kind)
        PROVE  sessions'[t] = "registered"
    <3>1. t # cur /\ failed[t] = "no" /\ Advance
      BY <2>4, TargetFailsMoves
    <3> QED BY <1>0, <2>1, <3>1, AdvanceMoves
  <2> QED BY <1>2, <2>2, <2>3, <2>4, TargetsMove
<1> QED BY <1>1, <1>2

(* The Job succeeds by a Pod that exits without a failure.                 *)
LEMMA JobSucceeds ==
  ASSUME [Next]_vars, job' = "succeeded", job # "succeeded"
  PROVE  ExitFinal /\ Failures = {} /\ job = "active" /\ pc = "exit"
<1> USE DEF jobVars, Running
<1>1. CASE Process
  BY <1>1 DEF Process, StartPod, SkipRegistered, OpenSession, UploadBegins,
     UploadProgress, UploadCompletes, CheckpointUpload, RecordUpload, Register,
     CheckpointImage, RecordImage, ExitTransient, Replace, ExitFinal
<1>2. CASE Disturb
  BY <1>2 DEF Disturb, StartFails, UploadErrors, CheckpointFails, RecordFails,
     RegisterErrors, RecordImageFails, PodLost, Replace, DeadlineExceeded
<1>3. CASE Cleaning \/ CleanupFails \/ Damage \/ UNCHANGED vars
  BY <1>3 DEF Cleaning, StartCleanup, CleanTarget, CleanupSucceeds, RetryCleanup,
     CleanupFails, Damage, vars
<1> QED
  BY <1>1, <1>2, <1>3 DEF Next

(* Every step keeps a successful Job complete.                             *)
LEMMA SuccessStep ==
  ASSUME TypeOK, StepSession, TargetsDone, RegisteredIsImage, CleanupAfterFailure,
         SuccessRegistersAll, [Next]_vars
  PROVE  SuccessRegistersAll'
<1> SUFFICES ASSUME job' = "succeeded", NEW t \in Targets PROVE remote'[t] = "image"
  BY DEF SuccessRegistersAll
<1>1. CASE job = "succeeded"
  BY <1>1, ImagesStay DEF SuccessRegistersAll
<1>2. CASE job # "succeeded"
  <2>1. ExitFinal /\ Failures = {} /\ job = "active" /\ pc = "exit"
    BY <1>2, JobSucceeds
  <2>2. failed[t] = "no"
    BY <2>1 DEF Failures
  <2>3. remote[t] = "image"
    BY <2>1, <2>2 DEF TargetsDone, PodRuns, RegisteredIsImage
  <2> QED BY <2>1, <2>3 DEF ExitFinal
<1> QED BY <1>1, <1>2

-----------------------------------------------------------------------------

(* Images come from Register.                                              *)
LEMMA NewImages ==
  ASSUME TypeOK, [Next]_vars, NEW t \in Targets, remote'[t] = "image"
  PROVE  remote[t] = "image" \/ (t = cur /\ pc = "register")
<1> USE DEF Running
<1>0. cur \in Targets /\ remote \in [Targets -> RemoteStates]
  BY DEF TypeOK
<1>1. CASE Process
  BY <1>0, <1>1 DEF Process, StartPod, SkipRegistered, OpenSession, UploadBegins,
     UploadProgress, UploadCompletes, CheckpointUpload, RecordUpload, Register,
     CheckpointImage, RecordImage, ExitTransient, Replace, ExitFinal
<1>2. CASE Disturb
  BY <1>0, <1>2 DEF Disturb, StartFails, UploadErrors, CheckpointFails, RecordFails,
     RegisterErrors, RecordImageFails, PodLost, Replace, DeadlineExceeded, TryCleanup
<1>3. CASE Cleaning \/ CleanupFails \/ Damage \/ UNCHANGED vars
  BY <1>0, <1>3 DEF Cleaning, StartCleanup, CleanTarget, CleanupSucceeds,
     RetryCleanup, CleanupFails, Deleted, Damage, vars
<1> QED
  BY <1>1, <1>2, <1>3 DEF Next

(* The steps of the Pod at which an image may be made, or was made.        *)
RegisterSteps == {"register", "checkpointImage", "recordImage"}

(* These steps are entered by recording the operation.                     *)
LEMMA RegisterStepsEntered ==
  ASSUME TypeOK, [Next]_vars, pc' \in RegisterSteps
  PROVE  \/ pc \in RegisterSteps /\ UNCHANGED cur
         \/ Record /\ UNCHANGED cur
<1> USE DEF Running, RegisterSteps, podVars
<1>1. CASE Advance
  BY <1>1, AdvanceMoves
<1>2. CASE \E kind \in {"transient", "terminal"} : TargetFails(kind)
  BY <1>1, <1>2 DEF TargetFails
<1>3. CASE Process
  BY <1>1, <1>2, <1>3 DEF Process, StartPod, SkipRegistered, OpenSession,
     UploadBegins, UploadProgress, UploadCompletes, CheckpointUpload, RecordUpload,
     Register, CheckpointImage, RecordImage, ExitTransient, Replace, ExitFinal
<1>4. CASE Disturb
  BY <1>2, <1>4 DEF Disturb, StartFails, UploadErrors, CheckpointFails, RecordFails,
     RegisterErrors, RecordImageFails, PodLost, Replace, DeadlineExceeded
<1>5. CASE Cleaning \/ CleanupFails \/ Damage \/ UNCHANGED vars
  BY <1>5 DEF Cleaning, StartCleanup, CleanTarget, CleanupSucceeds, RetryCleanup,
     CleanupFails, Damage, vars
<1> QED
  BY <1>3, <1>4, <1>5 DEF Next

(* Damage is not taken back.                                               *)
LEMMA UndamagedBefore ==
  ASSUME TypeOK, [Next]_vars, corruptions' = 0
  PROVE  corruptions = 0 /\ ~Damage
<1>0. corruptions \in Nat
  BY SizeAssumption DEF TypeOK
<1>1. ~Damage
  BY <1>0 DEF Damage
<1>2. CASE Process
  BY <1>1, <1>2 DEF Process, StartPod, SkipRegistered, OpenSession, UploadBegins,
     UploadProgress, UploadCompletes, CheckpointUpload, RecordUpload, Register,
     CheckpointImage, RecordImage, ExitTransient, Replace, ExitFinal
<1>3. CASE Disturb
  BY <1>1, <1>3 DEF Disturb, StartFails, UploadErrors, CheckpointFails, RecordFails,
     RegisterErrors, RecordImageFails, PodLost, Replace, DeadlineExceeded
<1>4. CASE Cleaning \/ CleanupFails \/ UNCHANGED vars
  BY <1>1, <1>4 DEF Cleaning, StartCleanup, CleanTarget, CleanupSucceeds, RetryCleanup,
     CleanupFails, vars
<1> QED
  BY <1>1, <1>2, <1>3, <1>4 DEF Next

(* Every step keeps the images recorded.                                   *)
LEMMA RecordedFirstStep ==
  ASSUME TypeOK, RecordedFirst, [Next]_vars
  PROVE  RecordedFirst'
<1> SUFFICES ASSUME corruptions' = 0
             PROVE  /\ \A t \in Targets : remote'[t] = "image" =>
                         Valid(opsFile'.primary) /\ t \in opsFile'.primary
                    /\ pc' \in RegisterSteps =>
                         Valid(opsFile'.primary) /\ cur' \in opsFile'.primary
  BY DEF RecordedFirst, RegisterSteps, Valid
<1>0. corruptions = 0 /\ ~Damage /\ cur \in Targets
  BY UndamagedBefore DEF TypeOK
<1>1. ASSUME NEW t \in Targets, Valid(opsFile.primary), t \in opsFile.primary
      PROVE  Valid(opsFile'.primary) /\ t \in opsFile'.primary
  BY <1>0, <1>1, OpsEffects, RecordType
<1>2. ASSUME NEW t \in Targets, remote'[t] = "image"
      PROVE  Valid(opsFile'.primary) /\ t \in opsFile'.primary
  <2>1. Valid(opsFile.primary) /\ t \in opsFile.primary
    BY <1>0, <1>2, NewImages DEF RecordedFirst
  <2> QED BY <1>1, <2>1
<1>3. ASSUME pc' \in RegisterSteps
      PROVE  Valid(opsFile'.primary) /\ cur' \in opsFile'.primary
  <2>1. CASE pc \in RegisterSteps /\ UNCHANGED cur
    <3>1. Valid(opsFile.primary) /\ cur \in opsFile.primary
      BY <1>0, <2>1 DEF RecordedFirst, RegisterSteps
    <3> QED BY <1>0, <1>1, <2>1, <3>1
  <2>2. CASE Record /\ UNCHANGED cur
    BY <2>2, RecordType
  <2> QED BY <1>3, <2>1, <2>2, RegisterStepsEntered
<1> QED
  BY <1>2, <1>3

-----------------------------------------------------------------------------

(* The inductive invariant of the upload Job.                              *)
UploadInv ==
  /\ TypeOK
  /\ FilesOrdered
  /\ PodAhead
  /\ StepSession
  /\ RegisteredIsImage
  /\ TargetsDone
  /\ CleanupAfterFailure

(* The invariants hold of a new upload Job.                                *)
LEMMA UploadInvInit ==
  ASSUME Init
  PROVE  UploadInv /\ SuccessRegistersAll /\ RecordedFirst
<1>0. NoSessions \in SessionSet /\ 1 \in Targets /\ 0 \in 0 .. MaxRestarts
      /\ 0 \in 0 .. MaxCorruptions
  BY SizeAssumption DEF NoSessions, SessionSet, SessionPhases, Targets
<1>1. /\ sessionFile \in FileOf(SessionSet) /\ opsFile \in FileOf(SUBSET Targets)
      /\ sessionFile.primary = Missing /\ sessionFile.backup = Missing
  BY DEF Init, FileOf
<1>2. TypeOK
  BY <1>0, <1>1 DEF Init, TypeOK, RemoteStates, SessionSet, Steps
<1>3. OnDisk = {}
  BY <1>1, ValidContent DEF OnDisk
<1>4. FilesOrdered
  BY <1>1, ValidContent DEF FilesOrdered
<1>5. PodAhead /\ StepSession /\ TargetsDone
  BY DEF Init, PodAhead, PodRuns, StepSession, TargetsDone
<1>6. RegisteredIsImage
  BY <1>3 DEF Init, RegisteredIsImage
<1>7. CleanupAfterFailure /\ SuccessRegistersAll
  BY DEF Init, CleanupAfterFailure, SuccessRegistersAll
<1>8. RecordedFirst
  BY DEF Init, RecordedFirst
<1> QED
  BY <1>2, <1>4, <1>5, <1>6, <1>7, <1>8 DEF UploadInv

(* Every step of the Pod, its Job, the cleanup Job and the disk keeps the  *)
(* invariant.                                                              *)
LEMMA UploadInvStep ==
  ASSUME UploadInv, [Next]_vars
  PROVE  UploadInv'
BY TypeOKStep, FilesOrderedStep, PodAheadStep, StepSessionStep,
   RegisteredIsImageStep, TargetsDoneStep, CleanupAfterFailureStep
DEF UploadInv

(* Every file, Pod, Job and provider of an upload stays in its type        *)
(* (cmd/uploader/main.go, upload-sessions.json, upload-operations.json).   *)
THEOREM UploaderTypeCorrect == Spec => []TypeOK
<1>1. Init => UploadInv
  BY UploadInvInit
<1>2. UploadInv /\ [Next]_vars => UploadInv'
  BY UploadInvStep
<1>3. UploadInv => TypeOK
  BY DEF UploadInv
<1> QED
  BY <1>1, <1>2, <1>3, PTL DEF Spec

(* An upload Job that succeeds has registered the image at every target,   *)
(* for any number of targets, restarts and damaged files (run,             *)
(* processUploadTarget, readUploadSessions).                               *)
THEOREM SuccessIsComplete == Spec => []SuccessRegistersAll
<1>1. Init => UploadInv /\ SuccessRegistersAll
  BY UploadInvInit
<1>2. UploadInv /\ SuccessRegistersAll /\ [Next]_vars
        => (UploadInv /\ SuccessRegistersAll)'
  BY UploadInvStep, SuccessStep DEF UploadInv
<1> QED
  BY <1>1, <1>2, PTL DEF Spec

(* As long as no file was damaged, a cleanup Job reads the operation of    *)
(* every image that was made, also of one whose answer was lost            *)
(* (processUploadTarget, readUploadOperations).                            *)
THEOREM ImagesAreRecorded == Spec => []ImageRecorded
<1>1. Init => UploadInv /\ RecordedFirst
  BY UploadInvInit
<1>2. UploadInv /\ RecordedFirst /\ [Next]_vars => (UploadInv /\ RecordedFirst)'
  BY UploadInvStep, RecordedFirstStep DEF UploadInv
<1>3. RecordedFirst => ImageRecorded
  BY DEF RecordedFirst, ImageRecorded, ReadOps
<1> QED
  BY <1>1, <1>2, <1>3, PTL DEF Spec

(* No Pod repeats an upload that the sessions on disk call complete        *)
(* (processUploadTarget, ensureUploadSession).                             *)
THEOREM CompletedNotRepeated == Spec => UploadsNotRepeated
<1> DEFINE Once == pc = "upload" /\ pc' = "checkpoint" /\ Valid(ReadSessions)
                     => ReadSessions[cur] \notin {"uploaded", "registered"}
<1>1. Init => UploadInv
  BY UploadInvInit
<1>2. UploadInv /\ [Next]_vars => UploadInv'
  BY UploadInvStep
<1>3. UploadInv /\ [Next]_vars => [Once]_vars
  <2> SUFFICES ASSUME UploadInv, Next, pc = "upload", pc' = "checkpoint",
                      Valid(ReadSessions)
               PROVE  ReadSessions[cur] \notin Completed
    BY DEF Completed
  <2> USE DEF podVars, Running
  <2>1. job = "active"
    <3>1. ~Advance
      BY AdvanceMoves DEF UploadInv
    <3>2. CASE Process
      BY <3>2 DEF Process, StartPod, SkipRegistered, OpenSession, UploadBegins,
         UploadProgress, UploadCompletes, CheckpointUpload, RecordUpload, Register,
         CheckpointImage, RecordImage, ExitTransient, Replace, ExitFinal
    <3>3. CASE Disturb
      BY <3>3 DEF Disturb, StartFails, UploadErrors, CheckpointFails, RecordFails,
         RegisterErrors, RecordImageFails, PodLost, Replace, DeadlineExceeded
    <3>4. CASE Cleaning \/ CleanupFails \/ Damage
      BY <3>4 DEF Cleaning, StartCleanup, CleanTarget, CleanupSucceeds,
         RetryCleanup, CleanupFails, Damage
    <3> QED BY <3>2, <3>3, <3>4 DEF Next
  <2>2. sessions[cur] \notin Completed /\ cur \in Targets
    BY <2>1 DEF UploadInv, StepSession, TypeOK
  <2>3. CASE ReadSessions \in OnDisk
    BY <2>1, <2>2, <2>3 DEF UploadInv, PodAhead, PodRuns, Covers
  <2>4. CASE ReadSessions = NoSessions
    BY <2>2, <2>4 DEF NoSessions, Completed
  <2> QED
    BY <2>3, <2>4, ValidContent DEF ReadSessions, OnDisk
<1> QED
  BY <1>1, <1>2, <1>3, PTL DEF Spec, UploadsNotRepeated

(* No checkpoint writes an older session over a registered one, however    *)
(* often Pods were replaced and files damaged (writeCheckpointWithBackup). *)
THEOREM RegisteredStays == Spec => RegisteredOnDiskStays
<1> DEFINE Kept == \A t \in Targets :
                     Valid(sessionFile.primary) /\ Valid(sessionFile'.primary)
                       /\ sessionFile.primary[t] = "registered"
                     => sessionFile'.primary[t] = "registered"
<1>1. Init => UploadInv
  BY UploadInvInit
<1>2. UploadInv /\ [Next]_vars => UploadInv'
  BY UploadInvStep
<1>3. UploadInv /\ [Next]_vars => [Kept]_vars
  <2> SUFFICES ASSUME UploadInv, Next, NEW t \in Targets,
                      Valid(sessionFile.primary), Valid(sessionFile'.primary),
                      sessionFile.primary[t] = "registered"
               PROVE  sessionFile'.primary[t] = "registered"
    OBVIOUS
  <2>0. /\ sessionFile \in FileOf(SessionSet) /\ sessionFile.primary \in OnDisk
        /\ TypeOK /\ StepSession /\ PodAhead
    BY DEF UploadInv, TypeOK, SessionSet, OnDisk
  <2>1. ASSUME NEW p \in SessionPhases, SessionRaised(p)
        PROVE  sessionFile'.primary[t] = "registered"
    <3>1. sessions' \in SessionSet /\ sessions'[t] = "registered"
      BY <2>0, <2>1, SessionTypes DEF SessionRaised, PodAhead, Covers
    <3>2. CASE sessionFile' = Written(sessionFile, sessions')
      BY <2>0, <3>1, <3>2, WrittenFile
    <3>3. CASE sessionFile' \in NotWritten(sessionFile)
      BY <2>0, <3>3, NotWrittenFile
    <3> QED BY <2>1, <3>2, <3>3 DEF SessionRaised
  <2>2. CASE SessionDamaged
    BY <2>0, <2>2, DamagedFile, ValidContent DEF SessionDamaged
  <2>3. CASE StartPod
    BY <2>3 DEF StartPod, files
  <2> QED
    BY <2>0, <2>1, <2>2, <2>3, SessionEffects
<1> QED
  BY <1>1, <1>2, <1>3, PTL DEF Spec, RegisteredOnDiskStays
=============================================================================
