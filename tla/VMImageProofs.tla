--------------------------- MODULE VMImageProofs ---------------------------
(***************************************************************************)
(* Proofs about VMImage, for every number of generations, tokens and       *)
(* faults and every retain policy.  CurrentInv, that a reconcile under way *)
(* belongs to the attempt the status names, is inductive by itself.  The   *)
(* other invariants are inductive relative to it; those that speak of Jobs *)
(* and PVCs, which are named after the revision token, speak of the tokens *)
(* that no earlier attempt has used.                                       *)
(***************************************************************************)
EXTENDS VMImage, TLAPS

(* The phases of an attempt that has not ended.                            *)
Unfinished == {"Pending"} \cup Active

(* The version of the spec and the token of the attempt, before the status *)
(* names them and after.                                                   *)
Version == IF obsGen = 0 THEN gen ELSE obsGen
Token == IF obsGen = 0 THEN rev ELSE obsRev

(* A reconcile under way belongs to the phase it was started in, and an    *)
(* attempt that has not ended is that of the latest version of the spec.   *)
ReconcileCurrent ==
  /\ phase \in Unfinished => gen = Version /\ rev = Token
  /\ phase \in Active => obsGen # 0
  /\ phase = "Gone" => deleting /\ pc = "idle"
  /\ pc # "idle" => finalizer
  /\ pc \in {"createBuildJob", "markBuilding", "collect"} => phase = "Pending"
  /\ pc = "recordUpload" => phase = "Uploading"
  /\ pc = "releaseStorage" => phase \in Terminal /\ obsGen # 0

CurrentInv == TypeOK /\ ReconcileCurrent

(* The tokens that attempts have had.  An image that an earlier operator   *)
(* finished has not begun the attempt its spec asks for.                   *)
Taken ==
  tokens \cup (IF obsGen = 0 /\ phase \in Terminal THEN {} ELSE {Token})

(* Jobs and artifacts of a token that no earlier attempt had were made for *)
(* the version of the attempt.                                             *)
Provenance ==
  \A r \in Revisions \ tokens :
    {buildGen[r], volume[r], uploadGen[r]} \subseteq {0, Version}

(* Nothing exists yet for a token that no attempt has had.                 *)
Untouched ==
  \A r \in Revisions \ Taken :
    /\ build[r] = "none" /\ upload[r] = "none" /\ cleanup[r] = "none"
    /\ pod[r] = FALSE /\ pvc[r] = "none"
    /\ buildGen[r] = 0 /\ volume[r] = 0 /\ uploadGen[r] = 0

(* The workspace of the attempt is not being deleted, and from the         *)
(* creation of the build Job on it is there.                               *)
WorkspaceReady ==
  rev \notin tokens =>
    /\ phase \in Unfinished => pvc[rev] # "terminating"
    /\ phase \in Active \/ pc \in {"createBuildJob", "markBuilding"}
         => pvc[rev] = "bound"

(* The Pod of an upload Job ends with it, but for one whose Job was        *)
(* deleted with the image.                                                 *)
PodKnown ==
  \A r \in Revisions :
    pod[r] => upload[r] = "active" \/ (deleting /\ upload[r] = "none")

(* In an image that is not being deleted cleanup comes after the upload:   *)
(* no Pod runs beside the cleanup Job or is started after it.              *)
CleanupLast ==
  ~deleting =>
    /\ \A r \in Revisions \ tokens : cleanup[r] # "none" => ~pod[r]
    /\ \A r \in Revisions \ tokens :
         cleanup[r] = "succeeded" /\ record[r] => remote[r] = "clean"
    /\ phase \in Unfinished /\ rev \notin tokens /\ cleanup[rev] # "none"
         => uploadRef

(* An attempt whose version the status does not name yet shows nothing.    *)
StatusBegins ==
  obsGen = 0 /\ phase \in Unfinished => artifact = 0 /\ images = 0

(* Jobs, Pods, PVCs and the garbage collector do not write the VMImage.    *)
LEMMA EnvironmentKeepsStatus ==
  ASSUME NEW r \in Revisions, Environment(r)
  PROVE  UNCHANGED <<phase, specVars, obsVars, resultVars, metaVars, pc, history>>
BY DEF Environment, Ends, BuildJobEnds, UploadSucceeds, UploadFails,
       CleanupSucceeds, CleanupFails, UploadBegins, UploadRecorded,
       JobExpires, PVCFinalized, CollectOwned

(* A step is a write of the VMImage, a reconcile's write of a Job or a PVC,*)
(* or a step of the environment.                                           *)
StatusStep ==
  \/ AddFinalizer \/ MigrateObserved \/ ResetForRebuild \/ Queue
  \/ MarkBuilding \/ MarkProvisioning \/ MarkUploading \/ RecordUpload
  \/ RejectPending \/ AssembleFails \/ BuildFails \/ RejectUpload
  \/ UploadLost \/ FailUpload \/ MarkReady \/ FinishDelete
  \/ StatusConflict \/ Fault \/ RequestDelete \/ RequestRebuild

JobStep ==
  \/ CollectRevisions \/ EnsureStorage \/ CreateBuildJob \/ CreateUploadJob
  \/ StopUpload \/ StartCleanup \/ ReleaseStorage

(* Every step is one of these.                                             *)
LEMMA StepKinds ==
  Next => StatusStep \/ JobStep \/ \E r \in Revisions : Environment(r)
BY DEF Next, Reconcile, Progress, StatusStep, JobStep

(* A write of the VMImage touches neither Jobs nor PVCs nor the provider.  *)
LEMMA StatusStepKeepsJobs == StatusStep => UNCHANGED jobVars
BY DEF StatusStep, AddFinalizer, MigrateObserved, ResetForRebuild, Queue,
       MarkBuilding, MarkProvisioning, MarkUploading, RecordUpload,
       RejectPending, AssembleFails, BuildFails, RejectUpload, UploadLost,
       FailUpload, SetFailed, MarkReady, FinishDelete, StatusConflict, Fault,
       RequestDelete, RequestRebuild

(* A reconcile's write of a Job or a PVC does not touch the VMImage.       *)
LEMMA JobStepKeepsStatus ==
  JobStep =>
    UNCHANGED <<phase, specVars, obsVars, resultVars, metaVars, history>>
BY DEF JobStep, CollectRevisions, EnsureStorage, CreateBuildJob, CreateUploadJob,
       StopUpload, StartCleanup, ReleaseStorage

(* The initial states are of the type.                                     *)
LEMMA TypeOKInit == Init => TypeOK
<1> SUFFICES ASSUME Init PROVE TypeOK
  OBVIOUS
<1>1. 1 \in Generations /\ 1 \in Revisions
  BY GenerationAssumption, RevisionAssumption DEF Generations, Revisions
<1>2. retain \in {"Never", "OnFailure", "Always"}
  BY PolicyAssumption DEF Init
<1>3. /\ phase \in Phases /\ finalizer \in BOOLEAN
      /\ images \in Generations \cup {0} /\ tokens \subseteq Revisions
  BY <1>1 DEF Init, Phases, Terminal
<1>4. /\ gen \in Generations /\ rev \in Revisions
      /\ obsGen \in 0 .. gen /\ obsGen = 0 /\ obsRev = 0
      /\ artifact = 0 /\ adopted = 0
  BY <1>1 DEF Init
<1>5. deleting \in BOOLEAN /\ uploadRef \in BOOLEAN
  BY DEF Init
<1>6. /\ build \in [Revisions -> JobStates]
      /\ upload \in [Revisions -> JobStates]
      /\ cleanup \in [Revisions -> JobStates]
  BY DEF Init, JobStates
<1>7. /\ buildGen \in [Revisions -> Generations \cup {0}]
      /\ uploadGen \in [Revisions -> Generations \cup {0}]
      /\ volume \in [Revisions -> Generations \cup {0}]
  BY DEF Init
<1>8. /\ pod \in [Revisions -> BOOLEAN] /\ record \in [Revisions -> BOOLEAN]
      /\ pvc \in [Revisions -> {"none", "bound", "terminating"}]
      /\ remote \in [Revisions -> {"clean", "partial", "registered", "stuck"}]
  BY DEF Init
<1>9. pc \in Steps /\ faults \in 0 .. MaxFaults
  BY FaultAssumption DEF Init, Steps
<1> QED
  BY <1>2, <1>3, <1>4, <1>5, <1>6, <1>7, <1>8, <1>9 DEF TypeOK

(* DeletePVCs leaves a PVC and its content in their types.                 *)
LEMMA DeletePVCsTypes ==
  ASSUME TypeOK, NEW rs, DeletePVCs(rs)
  PROVE  /\ pvc' \in [Revisions -> {"none", "bound", "terminating"}]
         /\ volume' \in [Revisions -> Generations \cup {0}]
         /\ record' \in [Revisions -> BOOLEAN]
BY DEF DeletePVCs, TypeOK

(* The environment keeps the types.                                        *)
LEMMA EnvironmentTypes ==
  ASSUME TypeOK, NEW r \in Revisions, Environment(r)
  PROVE  TypeOK'
<1>1. UNCHANGED <<phase, specVars, obsVars, resultVars, metaVars, pc, history>>
  BY EnvironmentKeepsStatus
<1> USE DEF TypeOK, JobStates, specVars, obsVars, resultVars, metaVars, buildVars,
            uploadVars, storageVars, history
<1>2. CASE BuildJobEnds(r)
  BY <1>1, <1>2 DEF BuildJobEnds
<1>3. CASE UploadSucceeds(r)
  BY <1>1, <1>3 DEF UploadSucceeds, JobEnds
<1>4. CASE UploadFails(r)
  BY <1>1, <1>4 DEF UploadFails, JobEnds
<1>5. CASE CleanupSucceeds(r)
  BY <1>1, <1>5 DEF CleanupSucceeds
<1>6. CASE CleanupFails(r)
  BY <1>1, <1>6 DEF CleanupFails
<1>7. CASE UploadBegins(r)
  BY <1>1, <1>7 DEF UploadBegins
<1>7a. CASE UploadRecorded(r)
  BY <1>1, <1>7a DEF UploadRecorded
<1>8. CASE JobExpires(r)
  BY <1>1, <1>8 DEF JobExpires, Expired
<1>9. CASE PVCFinalized(r)
  BY <1>1, <1>9 DEF PVCFinalized
<1>10. CASE CollectOwned(r)
  BY <1>1, <1>10 DEF CollectOwned
<1> QED
  BY <1>2, <1>3, <1>4, <1>5, <1>6, <1>7, <1>7a, <1>8, <1>9, <1>10
  DEF Environment, Ends

(* What a status update writes has its type.                               *)
LEMMA UpdateStatusTypes ==
  ASSUME TypeOK, NEW p, UpdateStatus(p), gen' = gen
  PROVE  /\ obsGen' \in 0 .. gen'
         /\ obsRev' \in IF obsGen' = 0 THEN {0} ELSE Revisions
BY GenerationAssumption DEF TypeOK, UpdateStatus, Generations

(* Every step keeps the types; AlreadyExists, expiry and deletion included.*)
LEMMA TypeOKStep == TypeOK /\ [Next]_vars => TypeOK'
<1> SUFFICES ASSUME TypeOK, [Next]_vars PROVE TypeOK'
  OBVIOUS
<1> USE DEF specVars, obsVars, resultVars, metaVars, buildVars,
            uploadVars, storageVars, jobVars, history
<1>U. ASSUME NEW p, UpdateStatus(p), gen' = gen
      PROVE  /\ obsGen' \in 0 .. gen'
             /\ obsRev' \in IF obsGen' = 0 THEN {0} ELSE Revisions
  BY <1>U, UpdateStatusTypes
<1>1. CASE MigrateObserved \/ Queue \/ MarkBuilding \/ MarkProvisioning
  BY <1>1, <1>U DEF MigrateObserved, Queue, MarkBuilding, MarkProvisioning,
     UpdateStatus, TypeOK, Phases, Active, Terminal, Steps
<1>1a. CASE AddFinalizer \/ StatusConflict \/ FinishDelete \/ RequestDelete
  <2>1. /\ finalizer' \in BOOLEAN /\ deleting' \in BOOLEAN
        /\ phase' \in Phases /\ pc' \in Steps
    BY <1>1a DEF AddFinalizer, StatusConflict, FinishDelete, RequestDelete,
       TypeOK, Phases, Steps
  <2>2. UNCHANGED <<specVars, obsVars, resultVars, jobVars, history>>
    BY <1>1a DEF AddFinalizer, StatusConflict, FinishDelete, RequestDelete
  <2> QED
    BY <2>1, <2>2 DEF TypeOK
<1>2. CASE RejectPending \/ AssembleFails \/ BuildFails \/ RejectUpload
           \/ UploadLost \/ FailUpload
  <2>1. SetFailed
    BY <1>2 DEF RejectPending, AssembleFails, BuildFails, RejectUpload,
       UploadLost, FailUpload
  <2> QED
    BY <2>1, <1>U DEF SetFailed, UpdateStatus, TypeOK, Phases, Terminal, Steps
<1>3. CASE ResetForRebuild
  <2>1. tokens' \subseteq Revisions
    BY <1>3 DEF ResetForRebuild, TypeOK
  <2> QED
    BY <1>3, <1>U, <2>1 DEF ResetForRebuild, UpdateStatus, TypeOK, Phases, Steps
<1>4. CASE CollectRevisions
  <2>1. PICK old \in SUBSET Historical :
          /\ build' = [r \in Revisions |-> IF r \in old THEN "none" ELSE build[r]]
          /\ upload' = [r \in Revisions |-> IF r \in old THEN "none" ELSE upload[r]]
          /\ cleanup' = [r \in Revisions |-> IF r \in old THEN "none" ELSE cleanup[r]]
          /\ pod' = [r \in Revisions |->
                       pod[r] /\ ~(r \in old /\ upload[r] = "active")]
          /\ DeletePVCs(old)
    BY <1>4 DEF CollectRevisions
  <2>2. /\ build' \in [Revisions -> JobStates]
        /\ upload' \in [Revisions -> JobStates]
        /\ cleanup' \in [Revisions -> JobStates]
        /\ pod' \in [Revisions -> BOOLEAN]
    BY <2>1 DEF TypeOK, JobStates
  <2> QED
    BY <1>4, <2>1, <2>2, DeletePVCsTypes DEF CollectRevisions, TypeOK, Steps
<1>5. CASE EnsureStorage
  BY <1>5 DEF EnsureStorage, TypeOK, Steps
<1>6. CASE CreateBuildJob
  BY <1>6 DEF CreateBuildJob, TypeOK, JobStates, Steps, Generations, Revisions
<1>7. CASE MarkUploading
  BY <1>7, <1>U DEF MarkUploading, UpdateStatus, TypeOK, Phases, Active
<1>8. CASE CreateUploadJob
  <2>1. pod' \in [Revisions -> BOOLEAN] /\ upload' \in [Revisions -> JobStates]
    BY <1>8 DEF CreateUploadJob, TypeOK, JobStates
  <2> QED
    BY <1>8, <2>1 DEF CreateUploadJob, TypeOK, Steps
<1>9. CASE StopUpload \/ StartCleanup
  BY <1>9 DEF StopUpload, StartCleanup, TypeOK, JobStates
<1>9a. CASE RecordUpload
  <2>1. uploadRef' \in BOOLEAN
    BY <1>9a DEF RecordUpload
  <2> QED
    BY <1>9a, <1>U, <2>1 DEF RecordUpload, UpdateStatus, TypeOK, Steps
<1>10. CASE MarkReady
  BY <1>10, <1>U DEF MarkReady, UpdateStatus, TypeOK, Phases, Terminal, Steps
<1>11. CASE ReleaseStorage
  <2>1. /\ pvc' \in [Revisions -> {"none", "bound", "terminating"}]
        /\ volume' \in [Revisions -> Generations \cup {0}]
        /\ record' \in [Revisions -> BOOLEAN]
    BY <1>11, DeletePVCsTypes DEF ReleaseStorage, TypeOK
  <2> QED
    BY <1>11, <2>1 DEF ReleaseStorage, TypeOK, Steps
<1>12. CASE Fault
  BY <1>12, FaultAssumption DEF Fault, TypeOK, Steps
<1>13. CASE RequestRebuild
  BY <1>13, GenerationAssumption DEF RequestRebuild, TypeOK, Generations, Revisions
<1>14. CASE \E r \in Revisions : Environment(r)
  BY <1>14, EnvironmentTypes
<1>15. CASE UNCHANGED vars
  BY <1>15 DEF vars, TypeOK
<1> QED
  BY <1>1, <1>2, <1>3, <1>4, <1>5, <1>6, <1>7, <1>8, <1>9, <1>10, <1>11, <1>12,
     <1>13, <1>14, <1>15, <1>1a, <1>9a
  DEF Next, Reconcile, Progress

(* TypeOK holds for every number of generations and faults: a Job, a PVC   *)
(* and an upload of every revision stay in the states that the controller  *)
(* handles.                                                                *)
THEOREM ImageTypeCorrect == Spec => []TypeOK
BY TypeOKInit, TypeOKStep, PTL DEF Spec

(* No reconcile is under way at first.                                     *)
LEMMA CurrentInit == Init => ReconcileCurrent
BY DEF Init, ReconcileCurrent, Version, Token, Unfinished, Active, Terminal

(* Generations and tokens are numbers.                                     *)
LEMMA Numbers ==
  ASSUME TypeOK
  PROVE  /\ gen \in Nat \ {0} /\ rev \in Revisions
         /\ obsGen \in Nat /\ obsGen <= gen
BY GenerationAssumption DEF TypeOK, Generations

(* Every path to setFailed starts in an attempt that has not ended.        *)
LEMMA SetFailedSteps ==
  ASSUME ReconcileCurrent,
         RejectPending \/ AssembleFails \/ BuildFails \/ RejectUpload
           \/ UploadLost \/ FailUpload
  PROVE  SetFailed /\ phase \in Unfinished /\ finalizer
BY DEF RejectPending, AssembleFails, BuildFails, DispatchBuilding, RejectUpload,
       UploadLost, FailUpload, Dispatch, ReconcileCurrent, Unfinished, Active

(* No step leaves a reconcile under way for another phase or attempt.      *)
LEMMA CurrentStep ==
  CurrentInv /\ [Next]_vars => ReconcileCurrent'
<1> SUFFICES ASSUME TypeOK, ReconcileCurrent, [Next]_vars
             PROVE  ReconcileCurrent'
  BY DEF CurrentInv
<1> USE DEF specVars, obsVars, metaVars
<1>0. /\ gen \in Nat \ {0} /\ obsGen \in Nat
      /\ phase \in Phases /\ finalizer \in BOOLEAN /\ deleting \in BOOLEAN
  BY Numbers DEF TypeOK
<1> USE DEF ReconcileCurrent, Version, Token, Unfinished, Active, Terminal
<1>1. CASE MigrateObserved
  BY <1>0, <1>1 DEF MigrateObserved, UpdateStatus
<1>2. CASE Queue \/ MarkBuilding \/ MarkProvisioning \/ MarkUploading \/ RecordUpload
  BY <1>0, <1>2 DEF Queue, MarkBuilding, MarkProvisioning, MarkUploading,
     DispatchBuilding, Dispatch, RecordUpload, UpdateStatus
<1>3. CASE AddFinalizer \/ FinishDelete \/ RequestDelete
  BY <1>0, <1>3 DEF AddFinalizer, FinishDelete, RequestDelete
<1>4. CASE RejectPending \/ AssembleFails \/ BuildFails \/ RejectUpload
           \/ UploadLost \/ FailUpload
  <2>1. SetFailed /\ phase \in Unfinished /\ finalizer
    BY <1>4, SetFailedSteps
  <2> QED
    BY <1>0, <2>1 DEF SetFailed, UpdateStatus
<1>5. CASE MarkReady
  BY <1>0, <1>5 DEF MarkReady, Dispatch, UpdateStatus
<1>6. CASE ResetForRebuild
  BY <1>0, <1>6 DEF ResetForRebuild, UpdateStatus
<1>7. CASE CollectRevisions \/ EnsureStorage \/ CreateBuildJob
           \/ CreateUploadJob \/ ReleaseStorage \/ StatusConflict \/ Fault
  BY <1>0, <1>7 DEF CollectRevisions, EnsureStorage, CreateBuildJob,
     CreateUploadJob, ReleaseStorage, StatusConflict, Fault, Dispatch
<1>8. CASE StopUpload \/ StartCleanup
  BY <1>8 DEF StopUpload, StartCleanup
<1>9. CASE RequestRebuild
  BY <1>0, <1>9 DEF RequestRebuild
<1>10. CASE \E r \in Revisions : Environment(r)
  BY <1>10, EnvironmentKeepsStatus
<1>11. CASE UNCHANGED vars
  BY <1>11 DEF vars
<1> QED
  BY <1>1, <1>2, <1>3, <1>4, <1>5, <1>6, <1>7, <1>8, <1>9, <1>10, <1>11
  DEF Next, Reconcile, Progress

(* CurrentInv is an invariant.                                             *)
LEMMA CurrentHolds == Spec => []CurrentInv
<1>1. Init => CurrentInv
  BY TypeOKInit, CurrentInit DEF CurrentInv
<1>2. CurrentInv /\ [Next]_vars => CurrentInv'
  BY TypeOKStep, CurrentStep DEF CurrentInv
<1> QED
  BY <1>1, <1>2, PTL DEF Spec

(* The first write of the status records the generation (UpdateStatus), and*)
(* only then can it show a result of the attempt.                          *)
LEMMA BeginsStep == CurrentInv /\ StatusBegins /\ [Next]_vars => StatusBegins'
<1> SUFFICES ASSUME CurrentInv, StatusBegins, [Next]_vars, obsGen' = 0,
                    phase' \in Unfinished
             PROVE  artifact' = 0 /\ images' = 0
  BY DEF StatusBegins
<1> USE DEF specVars, obsVars, resultVars, metaVars
<1>0. gen # 0
  BY Numbers DEF CurrentInv
<1>1. ASSUME NEW p, UpdateStatus(p) PROVE FALSE
  BY <1>0, <1>1 DEF UpdateStatus
<1>2. CASE \/ MigrateObserved \/ Queue \/ MarkBuilding \/ MarkProvisioning
           \/ MarkUploading \/ RecordUpload \/ MarkReady \/ ResetForRebuild
  BY <1>1, <1>2 DEF MigrateObserved, Queue, MarkBuilding, MarkProvisioning,
     MarkUploading, RecordUpload, MarkReady, ResetForRebuild
<1>3. CASE \/ RejectPending \/ AssembleFails \/ BuildFails \/ RejectUpload
           \/ UploadLost \/ FailUpload
  BY <1>1, <1>3, SetFailedSteps DEF SetFailed, CurrentInv
<1>4. CASE AddFinalizer \/ FinishDelete \/ RequestDelete
  BY <1>4 DEF AddFinalizer, FinishDelete, RequestDelete, StatusBegins,
     Unfinished, Active
<1>5. CASE \/ CollectRevisions \/ EnsureStorage \/ CreateBuildJob
           \/ CreateUploadJob \/ ReleaseStorage \/ StatusConflict \/ Fault
           \/ StopUpload \/ StartCleanup \/ RequestRebuild
  BY <1>5 DEF CollectRevisions, EnsureStorage, CreateBuildJob, CreateUploadJob,
     ReleaseStorage, StatusConflict, Fault, StopUpload, StartCleanup,
     RequestRebuild, StatusBegins
<1>6. CASE \E r \in Revisions : Environment(r)
  BY <1>6, EnvironmentKeepsStatus DEF StatusBegins
<1>7. CASE UNCHANGED vars
  BY <1>7 DEF vars, StatusBegins
<1> QED
  BY <1>2, <1>3, <1>4, <1>5, <1>6, <1>7 DEF Next, Reconcile, Progress

(* Every step of the controller is a step of the contract or leaves what   *)
(* the user sees unchanged.                                                *)
LEMMA ContractStep ==
  CurrentInv /\ [Next]_vars => [Contract!Next]_(Contract!cvars)
<1> SUFFICES ASSUME CurrentInv, [Next]_vars
             PROVE  [Contract!Next]_(Contract!cvars)
  OBVIOUS
<1> USE DEF specVars, obsVars, metaVars
<1>0. /\ gen \in Nat \ {0} /\ obsGen \in Nat /\ phase \in Phases
      /\ phase \in Unfinished => obsGen \in {0, gen}
      /\ phase \in Active => obsGen # 0
  BY Numbers DEF CurrentInv, TypeOK, ReconcileCurrent, Version
<1>Stay. ASSUME gen' = gen, phase' \in Unfinished, phase \in Unfinished,
                obsGen' = obsGen \/ obsGen' = gen
         PROVE  [Contract!Next]_(Contract!cvars)
  <2>1. CASE obsGen' = obsGen
    BY <2>1, <1>Stay DEF Contract!cvars, Unfinished, Active, Terminal
  <2>2. CASE obsGen = 0 /\ obsGen' = gen
    <3>1. Contract!Adopt
      BY <2>2, <1>Stay DEF Contract!Adopt, Unfinished, Active, Terminal
    <3> QED BY <3>1 DEF Contract!Next
  <2> QED BY <2>1, <2>2, <1>0, <1>Stay
<1>End. ASSUME gen' = gen, phase' \in Terminal, phase \in Unfinished, obsGen' = gen
        PROVE  Contract!Next
  <2>1. Contract!Conclude
    BY <1>0, <1>End DEF Contract!Conclude, Contract!Outcomes, Unfinished, Active,
       Terminal
  <2> QED BY <2>1 DEF Contract!Next
<1>1. CASE RequestRebuild
  <2>1. Contract!Request
    BY <1>1, <1>0 DEF RequestRebuild, Contract!Request, Contract!Outcomes, Terminal
  <2> QED BY <2>1 DEF Contract!Next
<1>2. CASE ResetForRebuild
  <2>2. Contract!TakeUp
    BY <1>2 DEF ResetForRebuild, UpdateStatus, Contract!TakeUp,
       Contract!Outcomes, Terminal
  <2> QED BY <2>2 DEF Contract!Next
<1>3. CASE FinishDelete
  <2>1. Contract!Remove
    BY <1>3 DEF FinishDelete, Contract!Remove, Terminal
  <2> QED BY <2>1 DEF Contract!Next
<1>4. CASE RequestDelete
  <2>1. CASE finalizer
    BY <1>4, <2>1 DEF RequestDelete, Contract!cvars
  <2>2. CASE ~finalizer
    <3>1. Contract!Remove
      BY <1>4, <2>2 DEF RequestDelete, Contract!Remove, Terminal
    <3> QED BY <3>1 DEF Contract!Next
  <2> QED BY <2>1, <2>2
<1>5. CASE \/ RejectPending \/ AssembleFails \/ BuildFails \/ RejectUpload
           \/ UploadLost \/ FailUpload
  <2>1. SetFailed /\ phase \in Unfinished
    BY <1>5, SetFailedSteps DEF CurrentInv
  <2> QED
    BY <1>End, <2>1 DEF SetFailed, UpdateStatus, Terminal
<1>6. CASE MarkReady
  BY <1>End, <1>6 DEF MarkReady, Dispatch, UpdateStatus, Terminal, Unfinished, Active
<1>7. CASE MigrateObserved
  <2>1. Contract!Adopt
    BY <1>7 DEF MigrateObserved, UpdateStatus, Contract!Adopt, Terminal
  <2> QED BY <2>1 DEF Contract!Next
<1>8. CASE Queue \/ MarkBuilding \/ MarkProvisioning \/ MarkUploading \/ RecordUpload
  BY <1>0, <1>Stay, <1>8 DEF Queue, MarkBuilding, MarkProvisioning, MarkUploading,
     DispatchBuilding, Dispatch, RecordUpload, UpdateStatus, CurrentInv,
     ReconcileCurrent, Unfinished, Active
<1>9. CASE \/ AddFinalizer \/ CollectRevisions \/ EnsureStorage \/ CreateBuildJob
           \/ CreateUploadJob \/ ReleaseStorage \/ StatusConflict \/ Fault
           \/ StopUpload \/ StartCleanup
  BY <1>9 DEF AddFinalizer, CollectRevisions, EnsureStorage, CreateBuildJob,
     CreateUploadJob, ReleaseStorage, StatusConflict, Fault, StopUpload,
     StartCleanup, Contract!cvars
<1>10. CASE \E r \in Revisions : Environment(r)
  BY <1>10, EnvironmentKeepsStatus DEF Contract!cvars
<1>11. CASE UNCHANGED vars
  BY <1>11 DEF vars, Contract!cvars
<1> QED
  BY <1>1, <1>2, <1>3, <1>4, <1>5, <1>6, <1>7, <1>8, <1>9, <1>10, <1>11
  DEF Next, Reconcile, Progress

(* The controller implements the contract of a VMImage, for tokens that are*)
(* named again too and for images of an earlier operator: outcomes stand   *)
(* until a newer request is taken up, requests are taken up in order, and  *)
(* removal is final.                                                       *)
THEOREM ImageMeetsContract == Spec => MeetsContract
<1>1. Init => Contract!Init
  BY DEF Init, Contract!Init, Contract!Outcomes, Terminal
<1> QED
  BY <1>1, ContractStep, CurrentHolds, PTL DEF Spec, MeetsContract, Contract!Spec

(* A step goes on with the attempt.                                        *)
AttemptStays == Token' = Token /\ Version' = Version /\ tokens' = tokens

(* The token and the version of an attempt stay what they are until a new  *)
(* revision is requested or taken up.                                      *)
LEMMA TokensStep ==
  ASSUME CurrentInv, [Next]_vars, ~ResetForRebuild, ~RequestRebuild
  PROVE  AttemptStays
<1> USE DEF specVars, obsVars, history, AttemptStays, Token, Version
<1>0. gen # 0 /\ obsGen \in Nat
  BY Numbers DEF CurrentInv
<1>1. ASSUME NEW p, UpdateStatus(p), UNCHANGED <<specVars, tokens>>,
             obsGen = 0 \/ phase \in Unfinished
      PROVE  AttemptStays
  BY <1>0, <1>1 DEF UpdateStatus, CurrentInv, ReconcileCurrent
<1>2. CASE \/ MigrateObserved \/ Queue \/ MarkBuilding \/ MarkProvisioning
           \/ MarkUploading \/ RecordUpload \/ MarkReady
  BY <1>1, <1>2 DEF MigrateObserved, Queue, MarkBuilding, MarkProvisioning,
     MarkUploading, DispatchBuilding, Dispatch, RecordUpload, MarkReady,
     CurrentInv, ReconcileCurrent, Unfinished, Active
<1>2a. CASE \/ RejectPending \/ AssembleFails \/ BuildFails \/ RejectUpload
            \/ UploadLost \/ FailUpload
  <2>1. SetFailed /\ phase \in Unfinished
    BY <1>2a, SetFailedSteps DEF CurrentInv
  <2> QED
    BY <1>1, <2>1 DEF SetFailed
<1>3. CASE AddFinalizer \/ FinishDelete \/ StatusConflict \/ Fault \/ RequestDelete
  BY <1>3 DEF AddFinalizer, FinishDelete, StatusConflict, Fault, RequestDelete
<1>5. CASE JobStep
  BY <1>5, JobStepKeepsStatus
<1>6. CASE \E r \in Revisions : Environment(r)
  BY <1>6, EnvironmentKeepsStatus
<1>7. CASE UNCHANGED vars
  BY <1>7 DEF vars
<1> QED
  BY <1>2, <1>2a, <1>3, <1>5, <1>6, <1>7, StepKinds DEF StatusStep

(* A new revision is requested or taken up: a token no earlier attempt had *)
(* keeps its version, or was that of no attempt.                           *)
LEMMA TokenChanges ==
  ASSUME CurrentInv, ResetForRebuild \/ RequestRebuild,
         NEW r \in Revisions \ tokens'
  PROVE  r \notin tokens /\ (Version' = Version \/ r \notin Taken)
<1>1. CASE ResetForRebuild
  BY <1>1 DEF ResetForRebuild, Taken, Token
<1>2. CASE RequestRebuild
  BY <1>2 DEF RequestRebuild, Taken, Version, obsVars, history
<1> QED
  BY <1>1, <1>2

(* A token that an attempt has had stays one of those.                     *)
LEMMA TakenGrows ==
  ASSUME CurrentInv, [Next]_vars
  PROVE  Taken \subseteq Taken' /\ tokens \subseteq tokens'
<1>1. CASE ResetForRebuild
  BY <1>1 DEF ResetForRebuild, Taken, Token
<1>2. CASE RequestRebuild
  BY <1>2 DEF RequestRebuild, Taken, Token, obsVars, history
<1>3. CASE ~ResetForRebuild /\ ~RequestRebuild
  <2>1. AttemptStays
    BY <1>3, TokensStep
  <2>2. obsGen' = 0 /\ phase' \in Terminal => obsGen = 0 /\ phase \in Terminal
    <3>1. CASE Next /\ (JobStep \/ \E r \in Revisions : Environment(r))
      BY <3>1, JobStepKeepsStatus, EnvironmentKeepsStatus DEF obsVars
    <3>2. CASE UNCHANGED vars
      BY <3>2 DEF vars, obsVars
    <3>3. CASE StatusStep
      <4>1. gen # 0
        BY Numbers DEF CurrentInv
      <4> QED
        BY <1>3, <3>3, <4>1 DEF StatusStep, AddFinalizer, MigrateObserved, Queue,
           MarkBuilding, MarkProvisioning, MarkUploading, RecordUpload,
           RejectPending, AssembleFails, BuildFails, RejectUpload, UploadLost,
           FailUpload, SetFailed, MarkReady, FinishDelete, StatusConflict, Fault,
           RequestDelete, UpdateStatus, obsVars, Terminal
    <3> QED
      BY <3>1, <3>2, <3>3, StepKinds
  <2> QED
    BY <2>1, <2>2 DEF AttemptStays, Taken
<1> QED
  BY <1>1, <1>2, <1>3

(* A reconcile of an attempt works on the revision of that attempt.        *)
LEMMA AtAttempt ==
  ASSUME CurrentInv, phase \in Unfinished
  PROVE  rev \in Taken /\ rev \in Revisions
BY DEF CurrentInv, TypeOK, ReconcileCurrent, Taken, Unfinished, Active, Terminal

(* No step makes anything for a revision that was not taken up.            *)
LEMMA UntouchedStep ==
  ASSUME CurrentInv, Untouched, [Next]_vars
  PROVE  Untouched'
<1> USE DEF buildVars, uploadVars, storageVars, jobVars
<1> DEFINE Nothing(r) ==
      /\ build[r] = "none" /\ upload[r] = "none" /\ cleanup[r] = "none"
      /\ pod[r] = FALSE /\ pvc[r] = "none"
      /\ buildGen[r] = 0 /\ volume[r] = 0 /\ uploadGen[r] = 0
<1> SUFFICES ASSUME NEW r \in Revisions \ Taken' PROVE Nothing(r)'
  BY DEF Untouched
<1>0. Nothing(r)
  BY TakenGrows DEF Untouched
<1>1. phase \in Unfinished => rev # r
  BY AtAttempt, TakenGrows
<1>T. TypeOK
  BY DEF CurrentInv
<1>2. CASE StatusStep \/ UNCHANGED vars
  BY <1>0, <1>2, StatusStepKeepsJobs DEF vars
<1>3. CASE CollectRevisions
  <2>1. PICK old \in SUBSET Historical :
          /\ build'[r] = IF r \in old THEN "none" ELSE build[r]
          /\ upload'[r] = IF r \in old THEN "none" ELSE upload[r]
          /\ cleanup'[r] = IF r \in old THEN "none" ELSE cleanup[r]
          /\ pod'[r] = (pod[r] /\ ~(r \in old /\ upload[r] = "active"))
          /\ DeletePVCs(old)
    BY <1>3 DEF CollectRevisions
  <2>2. pvc'[r] = "none" /\ volume'[r] = 0
    BY <1>0, <2>1 DEF DeletePVCs
  <2> QED BY <1>0, <1>3, <2>1, <2>2 DEF CollectRevisions
<1>4. CASE ReleaseStorage
  BY <1>0, <1>4 DEF ReleaseStorage, DeletePVCs
<1>5. CASE EnsureStorage \/ CreateBuildJob \/ CreateUploadJob \/ StopUpload
           \/ StartCleanup
  <2>1. phase \in Unfinished
    BY <1>5 DEF EnsureStorage, CreateBuildJob, CreateUploadJob, StopUpload,
       StartCleanup, CleanupDue, Dispatch, CurrentInv, ReconcileCurrent,
       Unfinished, Active
  <2>2. rev # r
    BY <1>1, <2>1
  <2> QED
    BY <1>0, <1>5, <2>2, <1>T DEF EnsureStorage, CreateBuildJob, CreateUploadJob,
       StopUpload, StartCleanup, TypeOK
<1>6. ASSUME NEW q \in Revisions, Environment(q)
      PROVE  Nothing(r)'
  <2>1. CASE BuildJobEnds(q) \/ PVCFinalized(q) \/ UploadBegins(q) \/ UploadRecorded(q)
    BY <1>0, <2>1, <1>T DEF BuildJobEnds, PVCFinalized, UploadBegins,
       UploadRecorded, TypeOK
  <2>2. CASE UploadSucceeds(q) \/ UploadFails(q)
    BY <1>0, <2>2, <1>T DEF UploadSucceeds, UploadFails, JobEnds, TypeOK
  <2>3. CASE CleanupSucceeds(q) \/ CleanupFails(q)
    BY <1>0, <2>3, <1>T DEF CleanupSucceeds, CleanupFails, TypeOK
  <2>4. CASE JobExpires(q)
    BY <1>0, <2>4, <1>T DEF JobExpires, Expired, TypeOK
  <2>5. CASE CollectOwned(q)
    BY <1>0, <2>5, <1>T DEF CollectOwned, TypeOK
  <2> QED
    BY <1>6, <2>1, <2>2, <2>3, <2>4, <2>5 DEF Environment, Ends
<1> QED
  BY <1>2, <1>3, <1>4, <1>5, <1>6, StepKinds DEF JobStep

(* A Job is assembled from the generation of its revision, and what it     *)
(* makes has that generation, however often it is adopted (CreateBuildJob).*)
LEMMA ProvenanceStep ==
  ASSUME CurrentInv, Untouched, Provenance, [Next]_vars
  PROVE  Provenance'
<1> USE DEF buildVars, uploadVars, storageVars, jobVars
<1> SUFFICES ASSUME NEW r \in Revisions \ tokens'
             PROVE  {buildGen'[r], volume'[r], uploadGen'[r]} \subseteq {0, Version'}
  BY DEF Provenance
<1>R. CASE ResetForRebuild \/ RequestRebuild
  <2>1. UNCHANGED jobVars /\ r \notin tokens
    BY <1>R, StatusStepKeepsJobs, TokenChanges DEF StatusStep
  <2>2. CASE Version' = Version
    BY <2>1, <2>2 DEF Provenance
  <2>3. CASE r \notin Taken
    BY <2>1, <2>3 DEF Untouched
  <2> QED
    BY <1>R, <2>2, <2>3, TokenChanges
<1>T. TypeOK
  BY DEF CurrentInv
<1> SUFFICES ASSUME ~ResetForRebuild, ~RequestRebuild
             PROVE  {buildGen'[r], volume'[r], uploadGen'[r]} \subseteq {0, Version'}
  BY <1>R
<1>S. Version' = Version /\ tokens' = tokens
  BY TokensStep DEF AttemptStays
<1>0. {buildGen[r], volume[r], uploadGen[r]} \subseteq {0, Version}
  BY <1>S DEF Provenance
<1>1. CASE StatusStep \/ UNCHANGED vars
  BY <1>S, <1>0, <1>1, StatusStepKeepsJobs DEF vars
<1>2. CASE CollectRevisions \/ ReleaseStorage
  <2>1. UNCHANGED <<buildGen, uploadGen>>
    BY <1>2 DEF CollectRevisions, ReleaseStorage
  <2>2. ASSUME NEW rs, DeletePVCs(rs) PROVE volume'[r] \in {0, volume[r]}
    BY <2>2 DEF DeletePVCs
  <2> QED
    BY <1>S, <1>0, <1>2, <2>1, <2>2 DEF CollectRevisions, ReleaseStorage
<1>3. CASE CreateBuildJob
  <2>1. buildGen'[r] \in {buildGen[r], IF r = rev THEN gen ELSE 0}
    BY <1>T, <1>3 DEF CreateBuildJob, TypeOK
  <2> QED
    <3>1. phase = "Pending"
      BY <1>3 DEF CreateBuildJob, CurrentInv, ReconcileCurrent
    <3>2. gen = Version
      BY <3>1 DEF CurrentInv, ReconcileCurrent, Unfinished
    <3> QED
      BY <1>S, <1>0, <1>3, <2>1, <3>2 DEF CreateBuildJob
<1>4. CASE EnsureStorage \/ CreateUploadJob \/ StopUpload \/ StartCleanup
  BY <1>S, <1>0, <1>4 DEF EnsureStorage, CreateUploadJob, StopUpload, StartCleanup
<1>5. ASSUME NEW q \in Revisions, Environment(q)
      PROVE  {buildGen'[r], volume'[r], uploadGen'[r]} \subseteq {0, Version'}
  <2>1. CASE BuildJobEnds(q)
    BY <1>T, <1>S, <1>0, <2>1 DEF BuildJobEnds, TypeOK
  <2>2. CASE UploadSucceeds(q)
    BY <1>T, <1>S, <1>0, <2>2 DEF UploadSucceeds, TypeOK
  <2>3. CASE PVCFinalized(q)
    BY <1>T, <1>S, <1>0, <2>3 DEF PVCFinalized, TypeOK
  <2>4. CASE \/ UploadFails(q) \/ CleanupSucceeds(q) \/ CleanupFails(q)
             \/ UploadBegins(q) \/ UploadRecorded(q) \/ JobExpires(q)
             \/ CollectOwned(q)
    BY <1>S, <1>0, <2>4 DEF UploadFails, CleanupSucceeds, CleanupFails, UploadBegins,
       UploadRecorded, JobExpires, CollectOwned
  <2> QED
    BY <1>5, <2>1, <2>2, <2>3, <2>4 DEF Environment, Ends
<1> QED
  BY <1>1, <1>2, <1>3, <1>4, <1>5, StepKinds DEF JobStep

(* What MarkUploading and MarkReady write comes from Jobs of the revision. *)
LEMMA OwnAttemptStep ==
  ASSUME CurrentInv, StatusBegins, Provenance, StatusShowsOwnAttempt, [Next]_vars
  PROVE  StatusShowsOwnAttempt'
<1> USE DEF specVars, obsVars, resultVars, history
<1>N. gen \in Nat \ {0} /\ rev \in Revisions
  BY Numbers DEF CurrentInv
<1>0. phase \in Unfinished /\ rev \notin tokens
        => buildGen[rev] \in {0, gen} /\ uploadGen[rev] \in {0, gen}
  BY <1>N DEF CurrentInv, ReconcileCurrent, Provenance
<1>1. phase \in Unfinished /\ rev \notin tokens /\ gen # adopted
        => artifact \in {0, gen} /\ images \in {0, gen}
  BY DEF CurrentInv, ReconcileCurrent, Version, Token, StatusBegins,
         StatusShowsOwnAttempt
<1>2. ASSUME rev \notin tokens /\ gen # adopted
               => artifact' \in {0, gen} /\ images' \in {0, gen},
             obsGen' = gen, obsRev' = rev, tokens' = tokens, adopted' = adopted
      PROVE  StatusShowsOwnAttempt'
  BY <1>2 DEF StatusShowsOwnAttempt
<1>3. CASE Queue \/ MarkBuilding \/ MarkProvisioning \/ RecordUpload
  <2>1. /\ phase \in Unfinished /\ obsGen' = gen /\ obsRev' = rev
        /\ UNCHANGED <<artifact, images, history>>
    BY <1>3 DEF Queue, MarkBuilding, MarkProvisioning, Dispatch, RecordUpload,
       UpdateStatus, CurrentInv, ReconcileCurrent, Unfinished, Active
  <2> QED
    BY <1>1, <1>2, <2>1
<1>4. CASE \/ RejectPending \/ AssembleFails \/ BuildFails \/ RejectUpload
           \/ UploadLost \/ FailUpload
  <2>1. phase \in Unfinished /\ SetFailed
    BY <1>4, SetFailedSteps DEF CurrentInv
  <2> QED
    BY <1>1, <1>2, <2>1 DEF SetFailed, UpdateStatus
<1>5. CASE MarkUploading
  <2>1. /\ phase \in Unfinished /\ obsGen' = gen /\ obsRev' = rev
        /\ images' = images /\ artifact' = buildGen[rev] /\ UNCHANGED history
    BY <1>5 DEF MarkUploading, DispatchBuilding, Dispatch, UpdateStatus, Unfinished,
       Active
  <2> QED
    BY <1>0, <1>1, <1>2, <2>1
<1>6. CASE MarkReady
  <2>1. /\ phase \in Unfinished /\ obsGen' = gen /\ obsRev' = rev
        /\ artifact' = artifact /\ images' = uploadGen[rev] /\ UNCHANGED history
    BY <1>6 DEF MarkReady, Dispatch, UpdateStatus, Unfinished, Active
  <2> QED
    BY <1>0, <1>1, <1>2, <2>1
<1>7. CASE ResetForRebuild
  BY <1>7 DEF ResetForRebuild, UpdateStatus, StatusShowsOwnAttempt
<1>8. CASE MigrateObserved
  BY <1>8 DEF MigrateObserved, UpdateStatus, StatusShowsOwnAttempt
<1>9. CASE \/ AddFinalizer \/ FinishDelete \/ StatusConflict \/ Fault
           \/ RequestDelete \/ RequestRebuild
  BY <1>9 DEF AddFinalizer, FinishDelete, StatusConflict, Fault, RequestDelete,
     RequestRebuild, StatusShowsOwnAttempt
<1>10. CASE JobStep \/ (\E r \in Revisions : Environment(r)) \/ UNCHANGED vars
  <2>1. UNCHANGED <<obsVars, resultVars, history>>
    BY <1>10, JobStepKeepsStatus, EnvironmentKeepsStatus DEF vars
  <2> QED
    BY <2>1 DEF StatusShowsOwnAttempt
<1> QED
  BY <1>3, <1>4, <1>5, <1>6, <1>7, <1>8, <1>9, <1>10, StepKinds DEF StatusStep

(* Untouched and what rests on it.                                         *)
LEMMA OwnRevisionsHold == Spec => [](Untouched /\ Provenance)
<1>1. Init => Untouched /\ Provenance
  BY DEF Init, Untouched, Provenance
<1>2. CurrentInv /\ Untouched /\ Provenance /\ [Next]_vars
        => Untouched' /\ Provenance'
  BY UntouchedStep, ProvenanceStep
<1> QED
  BY <1>1, <1>2, CurrentHolds, PTL DEF Spec

(* The artifact and the images in the status were built from the observed  *)
(* generation, whatever Jobs were adopted and wherever the operator        *)
(* stopped, unless an earlier attempt had the revision or the version was  *)
(* adopted without an attempt.                                             *)
THEOREM StatusIsOwn == Spec => []StatusShowsOwnAttempt
<1> DEFINE Inv == StatusBegins /\ StatusShowsOwnAttempt
<1>1. Init => Inv
  BY DEF Init, StatusBegins, StatusShowsOwnAttempt, Unfinished, Active
<1>2. CurrentInv /\ Provenance /\ Inv /\ [Next]_vars => Inv'
  BY BeginsStep, OwnAttemptStep
<1> QED
  BY <1>1, <1>2, CurrentHolds, OwnRevisionsHold, PTL DEF Spec

(* The PVC of the attempt is not deleted before the attempt ends           *)
(* (CollectRevisions, ReleaseStorage, CollectOwned).                       *)
LEMMA WorkspaceStep ==
  ASSUME CurrentInv, Untouched, WorkspaceReady, [Next]_vars
  PROVE  WorkspaceReady'
<1> USE DEF specVars, history, storageVars, jobVars, uploadVars, buildVars
<1>T. TypeOK /\ ReconcileCurrent
  BY DEF CurrentInv
<1>1. CASE ResetForRebuild
  <2>1. rev \in Revisions /\ (rev \notin tokens' => rev \notin Taken)
    BY <1>1, <1>T, Numbers DEF ResetForRebuild, Taken, Token
  <2>2. rev \notin tokens' => pvc[rev] = "none"
    BY <2>1 DEF Untouched
  <2> QED
    BY <1>1, <2>2 DEF ResetForRebuild, UpdateStatus, WorkspaceReady, Active
<1>2. CASE \/ RejectPending \/ AssembleFails \/ BuildFails \/ RejectUpload
           \/ UploadLost \/ FailUpload
  <2>1. SetFailed
    BY <1>2, <1>T, SetFailedSteps
  <2> QED
    BY <2>1 DEF SetFailed, UpdateStatus, WorkspaceReady, Unfinished, Active
<1>3. CASE \/ Queue \/ MarkBuilding \/ MarkProvisioning \/ MarkUploading
           \/ RecordUpload
  BY <1>3, <1>T DEF Queue, MarkBuilding, MarkProvisioning, MarkUploading,
     DispatchBuilding, Dispatch, RecordUpload, UpdateStatus, WorkspaceReady,
     ReconcileCurrent, Unfinished, Active
<1>4. CASE MigrateObserved \/ MarkReady \/ FinishDelete \/ RequestRebuild
  BY <1>4, <1>T DEF MigrateObserved, MarkReady, Dispatch, UpdateStatus, FinishDelete,
     RequestRebuild, WorkspaceReady, ReconcileCurrent, Unfinished, Active, Terminal
<1>5. CASE AddFinalizer \/ StatusConflict \/ Fault \/ RequestDelete
  BY <1>5, <1>T DEF AddFinalizer, StatusConflict, Fault, RequestDelete,
     WorkspaceReady, ReconcileCurrent, Unfinished, Active
<1>6. CASE CollectRevisions
  <2>1. PICK old \in SUBSET Historical : DeletePVCs(old)
    BY <1>6 DEF CollectRevisions
  <2>2. pvc'[rev] = pvc[rev]
    BY <2>1, <1>T DEF DeletePVCs, Historical, TypeOK
  <2> QED
    BY <1>6, <2>2 DEF CollectRevisions, WorkspaceReady
<1>7. CASE EnsureStorage
  BY <1>7, <1>T DEF EnsureStorage, Dispatch, WorkspaceReady, TypeOK, Unfinished
<1>8. CASE ReleaseStorage
  BY <1>8, <1>T DEF ReleaseStorage, WorkspaceReady, ReconcileCurrent, Unfinished,
     Active, Terminal
<1>9. CASE CreateBuildJob \/ CreateUploadJob \/ StopUpload \/ StartCleanup
  BY <1>9, <1>T DEF CreateBuildJob, CreateUploadJob, StopUpload, StartCleanup,
     CleanupDue, Dispatch, WorkspaceReady, ReconcileCurrent
<1>10. ASSUME NEW q \in Revisions, Environment(q) PROVE WorkspaceReady'
  <2>1. UNCHANGED <<phase, rev, pc, tokens>>
    BY <1>10, EnvironmentKeepsStatus
  <2>2. CASE PVCFinalized(q)
    BY <1>T, <2>1, <2>2 DEF PVCFinalized, WorkspaceReady, TypeOK, ReconcileCurrent,
       Unfinished
  <2>3. CASE CollectOwned(q)
    BY <1>T, <2>1, <2>3 DEF CollectOwned, WorkspaceReady, ReconcileCurrent, Unfinished,
       Active
  <2>4. CASE \/ Ends(q) \/ UploadBegins(q) \/ UploadRecorded(q) \/ JobExpires(q)
    BY <2>1, <2>4 DEF Ends, BuildJobEnds, UploadSucceeds, UploadFails,
       CleanupSucceeds, CleanupFails, UploadBegins, UploadRecorded,
       JobExpires, WorkspaceReady
  <2> QED
    BY <1>10, <2>2, <2>3, <2>4 DEF Environment
<1>11. CASE UNCHANGED vars
  BY <1>11 DEF vars, WorkspaceReady
<1> QED
  BY <1>1, <1>2, <1>3, <1>4, <1>5, <1>6, <1>7, <1>8, <1>9, <1>10, <1>11, StepKinds
  DEF StatusStep, JobStep

(* Neither the collection of historical revisions nor the end of another   *)
(* attempt takes the workspace from an attempt in progress, for any number *)
(* of rebuilds, unless an earlier attempt had the revision.                *)
THEOREM WorkspaceIsKept == Spec => []WorkspaceKept
<1>1. Init => WorkspaceReady
  <2> SUFFICES ASSUME Init PROVE WorkspaceReady
    OBVIOUS
  <2>1. pvc[rev] = "none"
    BY RevisionAssumption DEF Init, Revisions
  <2> QED BY <2>1 DEF Init, WorkspaceReady, Active
<1>2. CurrentInv /\ Untouched /\ WorkspaceReady /\ [Next]_vars => WorkspaceReady'
  BY WorkspaceStep
<1>3. CurrentInv /\ WorkspaceReady => WorkspaceKept
  BY DEF CurrentInv, ReconcileCurrent, Token, WorkspaceReady, WorkspaceKept, Unfinished
<1> QED
  BY <1>1, <1>2, <1>3, CurrentHolds, OwnRevisionsHold, PTL DEF Spec

(* A deletion request is never taken back.                                 *)
LEMMA DeletionStays == deleting /\ [Next]_vars => deleting'
BY StepKinds, JobStepKeepsStatus, EnvironmentKeepsStatus
DEF StatusStep, AddFinalizer, MigrateObserved, ResetForRebuild, Queue,
      MarkBuilding, MarkProvisioning, MarkUploading, RecordUpload,
      RejectPending, AssembleFails, BuildFails, RejectUpload, UploadLost,
      FailUpload, SetFailed, MarkReady, FinishDelete, StatusConflict, Fault,
      RequestDelete, RequestRebuild, vars, metaVars

(* The Pod of an upload ends when its Job does (JobEnds).                  *)
LEMMA PodKnownStep ==
  ASSUME TypeOK, PodKnown, [Next]_vars
  PROVE  PodKnown'
<1> USE DEF metaVars, buildVars, uploadVars, storageVars, jobVars
<1> SUFFICES ASSUME NEW r \in Revisions, pod'[r]
             PROVE  upload'[r] = "active" \/ (deleting' /\ upload'[r] = "none")
  BY DEF PodKnown
<1>0. pod[r] => upload[r] = "active" \/ (deleting /\ upload[r] = "none")
  BY DEF PodKnown
<1>1. deleting => deleting'
  BY DeletionStays
<1>2. CASE StatusStep \/ UNCHANGED vars
  BY <1>0, <1>1, <1>2, StatusStepKeepsJobs DEF vars
<1>3. CASE CollectRevisions
  <2>1. PICK old \in SUBSET Historical :
          /\ upload'[r] = IF r \in old THEN "none" ELSE upload[r]
          /\ pod'[r] = (pod[r] /\ ~(r \in old /\ upload[r] = "active"))
    BY <1>3 DEF CollectRevisions
  <2> QED BY <1>0, <1>1, <2>1
<1>4. CASE CreateUploadJob
  <2>1. /\ upload'[r] = IF r = rev /\ upload[r] = "none" THEN "active" ELSE upload[r]
        /\ pod'[r] = (pod[r] \/ (r = rev /\ upload[r] = "none"))
    BY <1>4 DEF CreateUploadJob, TypeOK
  <2> QED BY <1>0, <1>1, <2>1
<1>5. CASE StopUpload
  <2>1. upload'[r] = IF r = rev THEN "none" ELSE upload[r]
    BY <1>5 DEF StopUpload, TypeOK
  <2>2. pod' = pod /\ deleting
    BY <1>5 DEF StopUpload, CleanupDue, UploadStopped
  <2> QED BY <1>0, <1>1, <2>1, <2>2
<1>6. CASE EnsureStorage \/ CreateBuildJob \/ StartCleanup \/ ReleaseStorage
  BY <1>0, <1>1, <1>6 DEF EnsureStorage, CreateBuildJob, StartCleanup, ReleaseStorage
<1>7. ASSUME NEW q \in Revisions, Environment(q)
      PROVE  upload'[r] = "active" \/ (deleting' /\ upload'[r] = "none")
  <2>1. CASE \/ BuildJobEnds(q) \/ CleanupSucceeds(q) \/ CleanupFails(q)
             \/ UploadBegins(q) \/ UploadRecorded(q) \/ PVCFinalized(q)
    BY <1>0, <1>1, <2>1 DEF BuildJobEnds, CleanupSucceeds, CleanupFails,
       UploadBegins, UploadRecorded, PVCFinalized
  <2>2. CASE UploadSucceeds(q) \/ UploadFails(q)
    <3>1. /\ r # q /\ pod[r] /\ upload'[r] = upload[r]
      BY <2>2 DEF UploadSucceeds, UploadFails, JobEnds, TypeOK
    <3> QED BY <1>0, <1>1, <3>1
  <2>3. CASE JobExpires(q)
    <3>1. pod' = pod /\ (upload'[r] = upload[r] \/ upload[r] \in {"succeeded", "failed"})
      BY <2>3 DEF JobExpires, Expired, Finished, TypeOK
    <3> QED BY <1>0, <1>1, <3>1
  <2>4. CASE CollectOwned(q)
    <3>1. pod[r] /\ (r = q => upload[r] # "active" /\ upload'[r] = "none")
          /\ (r # q => upload'[r] = upload[r])
      BY <2>4 DEF CollectOwned, TypeOK
    <3> QED BY <1>0, <1>1, <3>1
  <2> QED
    BY <1>7, <2>1, <2>2, <2>3, <2>4 DEF Environment, Ends
<1> QED
  BY <1>2, <1>3, <1>4, <1>5, <1>6, <1>7, StepKinds DEF JobStep

(* Cleanup starts when the upload has failed, and no upload starts after it*)
(* (CreateUploadJob, StartCleanup).                                        *)
LEMMA CleanupLastStep ==
  ASSUME CurrentInv, Untouched, PodKnown, CleanupLast, [Next]_vars
  PROVE  CleanupLast'
<1> USE DEF specVars, resultVars, metaVars, buildVars, uploadVars, storageVars,
            jobVars, history
<1>T. TypeOK /\ ReconcileCurrent
  BY DEF CurrentInv
<1> SUFFICES ASSUME ~deleting'
             PROVE  /\ \A r \in Revisions \ tokens' : cleanup'[r] # "none" => ~pod'[r]
                    /\ \A r \in Revisions \ tokens' :
                         cleanup'[r] = "succeeded" /\ record'[r]
                           => remote'[r] = "clean"
                    /\ phase' \in Unfinished /\ rev' \notin tokens'
                         /\ cleanup'[rev'] # "none" => uploadRef'
  BY DEF CleanupLast
<1>D. ~deleting
  BY DeletionStays
<1>G. tokens \subseteq tokens'
  BY TakenGrows
<1>0. /\ \A r \in Revisions \ tokens : cleanup[r] # "none" => ~pod[r]
      /\ \A r \in Revisions \ tokens :
           cleanup[r] = "succeeded" /\ record[r] => remote[r] = "clean"
      /\ phase \in Unfinished /\ rev \notin tokens /\ cleanup[rev] # "none"
           => uploadRef
  BY <1>D DEF CleanupLast
<1>1. CASE StatusStep
  <2>1. UNCHANGED <<cleanup, pod, remote, record>>
    BY <1>1, StatusStepKeepsJobs
  <2>2. ASSUME phase' \in Unfinished, rev' \notin tokens', cleanup[rev'] # "none"
        PROVE  uploadRef'
    <3>1. CASE ResetForRebuild
      <4>1. rev' = rev /\ rev \in Revisions /\ rev \notin Taken
        BY <2>2, <3>1, <1>T, Numbers DEF ResetForRebuild, Taken, Token
      <4> QED BY <2>2, <4>1 DEF Untouched
    <3>2. CASE RecordUpload
      BY <3>2 DEF RecordUpload
    <3>3. CASE \/ Queue \/ MarkBuilding \/ MarkProvisioning \/ MarkUploading
               \/ AddFinalizer \/ StatusConflict \/ Fault \/ RequestDelete
      <4>1. phase \in Unfinished /\ rev' = rev /\ uploadRef' = uploadRef
        BY <1>T, <2>2, <3>3 DEF Queue, MarkBuilding, MarkProvisioning, MarkUploading,
           DispatchBuilding, Dispatch, UpdateStatus, AddFinalizer, StatusConflict,
           Fault, RequestDelete, ReconcileCurrent, Unfinished, Active
      <4> QED BY <1>0, <1>G, <2>2, <4>1
    <3>4. CASE \/ MigrateObserved \/ MarkReady \/ FinishDelete \/ RequestRebuild
               \/ RejectPending \/ AssembleFails \/ BuildFails \/ RejectUpload
               \/ UploadLost \/ FailUpload
      BY <2>2, <3>4 DEF MigrateObserved, MarkReady, FinishDelete, RequestRebuild,
         RejectPending, AssembleFails, BuildFails, RejectUpload, UploadLost,
         FailUpload, SetFailed, UpdateStatus, Unfinished, Active, Terminal
    <3> QED BY <1>1, <3>1, <3>2, <3>3, <3>4 DEF StatusStep
  <2> QED BY <1>0, <1>G, <2>1, <2>2
<1>2. CASE CollectRevisions
  <2>1. PICK old \in SUBSET Historical :
          /\ \A r \in Revisions :
               /\ cleanup'[r] = IF r \in old THEN "none" ELSE cleanup[r]
               /\ pod'[r] = (pod[r] /\ ~(r \in old /\ upload[r] = "active"))
          /\ DeletePVCs(old)
    BY <1>2 DEF CollectRevisions
  <2>2. UNCHANGED <<phase, rev, uploadRef, remote, tokens>> /\ rev \in Revisions
    BY <1>2, <1>T DEF CollectRevisions, TypeOK
  <2>3. \A r \in Revisions : record'[r] => record[r]
    BY <2>1 DEF DeletePVCs
  <2> QED BY <1>0, <2>1, <2>2, <2>3
<1>3. CASE CreateUploadJob
  <2>1. /\ UNCHANGED <<phase, rev, uploadRef, remote, cleanup, record, tokens>>
        /\ rev \in Revisions /\ phase \in Unfinished /\ ~uploadRef
    BY <1>3, <1>T DEF CreateUploadJob, Dispatch, TypeOK, Unfinished, Active
  <2>2. \A r \in Revisions : r # rev => pod'[r] = pod[r]
    BY <1>3, <1>T DEF CreateUploadJob, TypeOK
  <2>3. rev \notin tokens => cleanup[rev] = "none"
    BY <1>0, <2>1
  <2> QED BY <1>0, <2>1, <2>2, <2>3
<1>4. CASE StartCleanup
  <2>1. /\ UNCHANGED <<phase, rev, uploadRef, remote, pod, record, tokens>>
        /\ rev \in Revisions /\ uploadRef /\ upload[rev] = "failed"
    BY <1>4, <1>T, <1>D DEF StartCleanup, CleanupDue, TypeOK
  <2>2. \A r \in Revisions : cleanup'[r] = IF r = rev THEN "active" ELSE cleanup[r]
    BY <1>4, <1>T DEF StartCleanup, TypeOK
  <2>3. ~pod[rev]
    BY <1>D, <2>1 DEF PodKnown
  <2> QED BY <1>0, <2>1, <2>2, <2>3
<1>5. CASE EnsureStorage \/ CreateBuildJob \/ StopUpload
  BY <1>0, <1>5 DEF EnsureStorage, CreateBuildJob, StopUpload
<1>5a. CASE ReleaseStorage
  <2>1. \A r \in Revisions : record'[r] => record[r]
    BY <1>5a DEF ReleaseStorage, DeletePVCs
  <2> QED BY <1>0, <1>5a, <2>1 DEF ReleaseStorage
<1>6. ASSUME NEW q \in Revisions, Environment(q)
      PROVE  /\ \A r \in Revisions \ tokens' : cleanup'[r] # "none" => ~pod'[r]
             /\ \A r \in Revisions \ tokens' :
                  cleanup'[r] = "succeeded" /\ record'[r] => remote'[r] = "clean"
             /\ phase' \in Unfinished /\ rev' \notin tokens' /\ cleanup'[rev'] # "none"
                  => uploadRef'
  <2>0. UNCHANGED <<phase, rev, uploadRef, tokens>> /\ rev \in Revisions
    BY <1>6, <1>T, EnvironmentKeepsStatus DEF TypeOK
  <2>1. CASE BuildJobEnds(q)
    BY <1>0, <2>0, <2>1 DEF BuildJobEnds
  <2>1a. CASE PVCFinalized(q)
    <3>1. \A r \in Revisions : record'[r] => record[r]
      BY <2>1a, <1>T DEF PVCFinalized, TypeOK
    <3> QED BY <1>0, <2>0, <2>1a, <3>1 DEF PVCFinalized
  <2>2. CASE UploadSucceeds(q) \/ UploadFails(q) \/ UploadBegins(q) \/ UploadRecorded(q)
    <3>1. /\ pod[q] /\ cleanup' = cleanup
          /\ \A r \in Revisions : pod'[r] => pod[r]
          /\ \A r \in Revisions : r # q => remote'[r] = remote[r] /\ record'[r] = record[r]
      BY <2>2, <1>T DEF UploadSucceeds, UploadFails, UploadBegins, UploadRecorded, TypeOK
    <3> QED BY <1>0, <2>0, <3>1
  <2>4. CASE CleanupSucceeds(q) \/ CleanupFails(q) \/ JobExpires(q) \/ CollectOwned(q)
    <3>1. \A r \in Revisions : cleanup'[r] # "none" => cleanup[r] # "none"
      BY <2>4, <1>T DEF CleanupSucceeds, CleanupFails, JobExpires, Expired,
         CollectOwned, TypeOK
    <3>2. \A r \in Revisions :
            cleanup'[r] = "succeeded" /\ record'[r] =>
              \/ remote'[r] = "clean"
              \/ cleanup[r] = "succeeded" /\ remote'[r] = remote[r]
      <4>1. CASE CleanupSucceeds(q)
        BY <4>1, <1>T DEF CleanupSucceeds, TypeOK
      <4>2. CASE CleanupFails(q)
        BY <4>2, <1>T DEF CleanupFails, TypeOK
      <4>3. CASE JobExpires(q) \/ CollectOwned(q)
        BY <4>3, <1>T DEF JobExpires, Expired, CollectOwned, TypeOK
      <4> QED BY <2>4, <4>1, <4>2, <4>3
    <3>3. record' = record
      BY <2>4 DEF CleanupSucceeds, CleanupFails, JobExpires, CollectOwned
    <3>4. \A r \in Revisions : pod'[r] => pod[r]
      BY <2>4, <1>T DEF CleanupSucceeds, CleanupFails, JobExpires, CollectOwned, TypeOK
    <3> QED BY <1>0, <2>0, <3>1, <3>2, <3>3, <3>4
  <2> QED
    BY <1>6, <2>1, <2>1a, <2>2, <2>4 DEF Environment, Ends
<1>7. CASE UNCHANGED vars
  BY <1>0, <1>7 DEF vars
<1> QED
  BY <1>1, <1>2, <1>3, <1>4, <1>5, <1>5a, <1>6, <1>7, StepKinds DEF JobStep

(* An image whose recorded upload Job failed is marked Failed when cleanup *)
(* has removed what the uploader recorded: for any number of rebuilds,     *)
(* crashes and expired Jobs, unless an earlier attempt had the revision.   *)
THEOREM FailedUploadIsCleaned == Spec => UploadFailureCleaned
<1>1. Init => PodKnown /\ CleanupLast
  BY RevisionAssumption DEF Init, PodKnown, CleanupLast, Revisions
<1>2. CurrentInv /\ Untouched /\ PodKnown /\ CleanupLast /\ [Next]_vars
        => PodKnown' /\ CleanupLast'
  BY PodKnownStep, CleanupLastStep DEF CurrentInv
<1>3. CurrentInv /\ CleanupLast /\ [Next]_vars
        => [phase = "Uploading" /\ phase' = "Failed" /\ uploadRef
              /\ upload[rev] = "failed" /\ rev \notin tokens /\ record[rev]
              => remote[rev] = "clean"]_vars
  <2> SUFFICES ASSUME CurrentInv, CleanupLast, Next, phase = "Uploading",
                      phase' = "Failed", uploadRef, upload[rev] = "failed",
                      rev \notin tokens, record[rev]
               PROVE  remote[rev] = "clean"
    OBVIOUS
  <2>1. FailUpload
    <3>1. ~(JobStep \/ \E r \in Revisions : Environment(r))
      BY JobStepKeepsStatus, EnvironmentKeepsStatus
    <3>2. ~(\/ AddFinalizer \/ MigrateObserved \/ ResetForRebuild \/ Queue
            \/ MarkBuilding \/ MarkProvisioning \/ MarkUploading \/ RecordUpload
            \/ MarkReady \/ FinishDelete \/ StatusConflict \/ Fault
            \/ RequestDelete \/ RequestRebuild)
      BY DEF AddFinalizer, MigrateObserved, ResetForRebuild, Queue, MarkBuilding,
             MarkProvisioning, MarkUploading, RecordUpload, MarkReady,
             FinishDelete, StatusConflict, Fault, RequestDelete, RequestRebuild,
             UpdateStatus, Terminal
    <3>3. ~(RejectPending \/ AssembleFails \/ BuildFails \/ RejectUpload \/ UploadLost)
      BY DEF RejectPending, AssembleFails, BuildFails, DispatchBuilding, Dispatch,
             RejectUpload, UploadLost, CurrentInv, ReconcileCurrent
    <3> QED
      BY <3>1, <3>2, <3>3, StepKinds DEF StatusStep
  <2>2. ~deleting /\ cleanup[rev] = "succeeded" /\ rev \in Revisions
    BY <2>1 DEF FailUpload, Dispatch, CleanupDone, CurrentInv, TypeOK
  <2> QED
    BY <2>2 DEF CleanupLast
<1> QED
  BY <1>1, <1>2, <1>3, CurrentHolds, OwnRevisionsHold, PTL
  DEF Spec, UploadFailureCleaned
=============================================================================
