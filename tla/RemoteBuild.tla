---------------------------- MODULE RemoteBuild ----------------------------
(***************************************************************************)
(* A VMImage that its platform provider builds remotely                    *)
(* (reconcileRemoteBuild in pkg/controller/vmimage/reconciler.go).  Every  *)
(* reconcile asks the provider to start or to continue the build of the    *)
(* attempt, named by a BuildID that is derived from the revision token,    *)
(* and records the answer: the provider's operation reference, the state   *)
(* of its retries, or the outcome.  The provider has already acted when    *)
(* the status is written, so a crash, a conflict or a lost answer leaves   *)
(* work at the provider that the status does not show.                     *)
(*                                                                         *)
(* The providers are told apart by what their cleanup can find: resources  *)
(* of the BuildID, or only what the recorded reference names.              *)
(*                                                                         *)
(* Time is counted from status.startTime.  The finalizer is present from   *)
(* the start (VMImage adds it), and a rebuild names a new token.           *)
(***************************************************************************)
EXTENDS Integers

CONSTANTS
  MaxGeneration,    \* bound: accepted versions of the spec
  Timeout,          \* spec.build.timeout
  RequeueAfter,     \* the delay of the first retry
  MaxDelay,         \* remoteRetryMaxDelay
  MinDelay,         \* the least delay of a retry
  RetryAfters,      \* delays a provider asks for in a transient error
  Kinds,            \* the kinds of remote builds considered
  MaxFaults         \* bound: reconciles that end early (crash, API error)

ASSUME GenerationAssumption == MaxGeneration \in Nat \ {0}
ASSUME TimeAssumption ==
  /\ Timeout \in Nat /\ RequeueAfter \in Nat \ {0}
  /\ MaxDelay \in Nat /\ MinDelay \in Nat \ {0}
  /\ RequeueAfter <= MaxDelay /\ MinDelay <= MaxDelay
  /\ RetryAfters \subseteq Nat
ASSUME KindAssumption ==
  Kinds \subseteq {"aws", "awsSnapshot", "azure", "azureDirect", "gcp",
                  "openstack", "vsphere"}
ASSUME FaultAssumption == MaxFaults \in Nat

Generations == 1 .. MaxGeneration

VARIABLES
  phase,      \* status.phase, or "Gone" once the object is removed
  gen,        \* metadata.generation; also the revision token of the spec
  obs,        \* observedGeneration and observedRevision, 0 if unset
  deleting,   \* metadata.deletionTimestamp is set
  started,    \* status.startTime is set
  elapsed,    \* time since then; Timeout + 1 stands for any later time
  retries,    \* status.remoteRetryCount
  nextRetry,  \* status.nextRemoteRetryTime, 0 if unset
  ref,        \* attempt that status.remoteBuildRef belongs to, 0 if unset
  named,      \* that reference names an image
  healthy,    \* the PlatformProvider is Healthy
  kind,       \* the provider and the way the source asks it to build
  remote,     \* what the provider holds of each attempt
  answer,     \* the provider's answer to the reconcile under way
  pc,         \* next step of the reconcile
  faults      \* reconciles that ended early so far

attemptVars == <<started, retries, nextRetry, ref, named>>
specVars == <<gen, deleting>>
vars == <<phase, specVars, obs, attemptVars, elapsed, healthy, kind, remote,
          answer, pc, faults>>

Active == {"Pending", "Building"}
Terminal == {"Ready", "Failed"}

(* A snapshot or a disk is registered by one call, without a builder.      *)
Direct == {"awsSnapshot", "azureDirect", "gcp"}

(* "snapshot": those of an AMI that is deregistered.  "orphan": a server   *)
(* that a second one has replaced in the reference.                        *)
Things == {"builder", "image", "snapshot", "orphan"}

(* "noImages": the build is done without an image.  "rejected": the image  *)
(* fails the hygiene or the evidence check.                                *)
Results == {"progress", "done", "noImages", "rejected"}
Answers == Results \cup {"none", "transient", "terminal"}

(* Retries in a row are at least a unit of time apart: the timeout bounds  *)
(* their number.                                                           *)
TypeOK ==
  /\ phase \in Active \cup Terminal \cup {"Gone"}
  /\ gen \in Generations
  /\ obs \in 0 .. gen
  /\ deleting \in BOOLEAN
  /\ started \in BOOLEAN
  /\ elapsed \in 0 .. Timeout + 1
  /\ retries \in 0 .. Timeout + 1
  /\ nextRetry \in Nat
  /\ ref \in {0, obs}
  /\ named \in BOOLEAN
  /\ healthy \in BOOLEAN
  /\ kind \in Kinds
  /\ remote \in [Generations -> SUBSET Things]
  /\ answer \in Answers
  /\ pc \in {"idle", "answered", "cleaned", "finalize"}
  /\ faults \in 0 .. MaxFaults

Init ==
  /\ phase = "Pending"
  /\ gen = 1 /\ obs = 0
  /\ deleting = FALSE
  /\ started = FALSE /\ elapsed = 0
  /\ retries = 0 /\ nextRetry = 0 /\ ref = 0 /\ named = FALSE
  /\ healthy = TRUE
  /\ kind \in Kinds
  /\ remote = [g \in Generations |-> {}]
  /\ answer = "none" /\ pc = "idle"
  /\ faults = 0

-----------------------------------------------------------------------------
(* Helpers                                                                 *)

AtMost(a, b) == IF a < b THEN a ELSE b
AtLeast(a, b) == IF a > b THEN a ELSE b

(* 1 << shift, for a shift of at most 5.                                   *)
Shifted == <<1, 2, 4, 8, 16, 32>>

(* The n-th retry in a row: doubled each time, up to the maximum.          *)
remoteRetryDelay(n) ==
  AtMost(RequeueAfter * Shifted[AtMost(AtLeast(n, 1), 6)], MaxDelay)

MutRetryDelay(requested) ==
  AtLeast(AtMost(AtLeast(remoteRetryDelay(retries + 1), requested), MaxDelay),
          MinDelay)

(* The delay of retryRemoteBuild: what the provider asks for if that is    *)
(* more, no more than the maximum or what is left of the timeout.          *)
RetryDelay(requested) ==
  AtLeast(AtMost(AtMost(AtLeast(remoteRetryDelay(retries + 1), requested),
                        MaxDelay),
                 Timeout - elapsed),
          MinDelay)

(* A reconcile of the live, current object in an active phase.             *)
Dispatch ==
  /\ pc = "idle"
  /\ ~deleting
  /\ obs \in {0, gen}
  /\ phase \in Active

(* The reference a status write records: the answer's, or the one it has.  *)
AnswerRef == IF answer \in Results THEN gen ELSE ref

(* It names the image of a done build, and the AMI once that is made.      *)
AnswerNames ==
  \/ answer \in {"done", "rejected"}
  \/ answer = "progress" /\ "image" \in remote[gen]
  \/ answer \notin Results /\ named

(* Any answer that is not an error resets the state of the retries.        *)
RecordAnswer ==
  /\ ref' = AnswerRef
  /\ named' = AnswerNames
  /\ IF answer \in Results
       THEN retries' = 0 /\ nextRetry' = 0
       ELSE UNCHANGED <<retries, nextRetry>>
  /\ UNCHANGED started

(* A write of the status ends the reconcile; after a deletion request it   *)
(* would be a conflict.                                                    *)
EndReconcile(p) ==
  /\ ~deleting
  /\ phase' = p /\ obs' = gen
  /\ answer' = "none"
  /\ pc' = "idle"
  /\ UNCHANGED <<specVars, elapsed, healthy, kind, remote, faults>>

(* The attempt whose resources CleanupRemoteBuild looks for, with the      *)
(* reference r: that of r or, without one, that of the spec's BuildID.     *)
Searched(r) == IF r = 0 THEN gen ELSE r

MutFound(r, names) == IF r = 0 THEN {} ELSE {"builder", "image"}

(* What it finds of that attempt.  AWS goes by the reference and by the    *)
(* tags of the BuildID, and Azure by names; the AMI of a snapshot has      *)
(* another name.  GCP and OpenStack go by the reference alone, and vSphere *)
(* by the reference or a name that it did not give.  Azure's captured      *)
(* images and those of OpenStack are not looked for.                       *)
Found(r, names) ==
  CASE kind = "aws" ->
         IF r \in {0, gen} \/ names THEN {"builder", "image"} ELSE {"builder"}
    [] kind = "azure" -> {"builder"}
    [] kind = "azureDirect" -> IF r \in {0, gen} THEN {"image"} ELSE {}
    [] kind = "gcp" /\ r # 0 -> {"image"}
    [] kind = "openstack" /\ r # 0 -> {"builder"}
    [] kind = "vsphere" /\ r # 0 -> {"builder", "image"}
    [] OTHER -> {}

(* An AMI that is gone cannot be described, nor the reference to that of a *)
(* snapshot be parsed: such a cleanup fails each time.                     *)
CleanupStuck(r, names) ==
  /\ r # 0
  /\ \/ kind = "aws" /\ names /\ "image" \notin remote[r]
     \/ kind = "awsSnapshot"

(* CleanupRemoteBuild without an error; vSphere's Destroy may be refused.  *)
Cleaned(r, names) ==
  /\ ~CleanupStuck(r, names)
  /\ \E gone \in {{}, Found(r, names)} :
       /\ gone = {} => kind = "vsphere" \/ Found(r, names) = {}
       /\ remote' = [remote EXCEPT ![Searched(r)] = @ \ gone]

(* With an error, some of it is deleted; an AMI may leave its snapshots.   *)
PartlyCleaned(r, names) ==
  \E gone \in SUBSET Found(r, names), left \in SUBSET {"snapshot"} :
    /\ left # {} => kind = "aws" /\ "image" \in gone \cap remote[Searched(r)]
    /\ remote' = [remote EXCEPT ![Searched(r)] = (@ \ gone) \cup left]

-----------------------------------------------------------------------------
(* reconcileSpecGeneration                                                 *)

MutResetForRebuild ==
  /\ pc = "idle" /\ ~deleting
  /\ phase \in Terminal /\ obs # gen
  /\ phase' = "Pending"
  /\ started' = FALSE /\ retries' = 0 /\ nextRetry' = 0
  /\ ref' = 0 /\ named' = FALSE
  /\ UNCHANGED <<specVars, obs, elapsed, healthy, kind, remote, answer, pc,
                 faults>>

(* The status of the old attempt is cleared; its resources are not.        *)
ResetForRebuild ==
  /\ pc = "idle" /\ ~deleting
  /\ phase \in Terminal /\ obs \notin {0, gen}
  /\ phase' = "Pending" /\ obs' = gen
  /\ started' = FALSE /\ retries' = 0 /\ nextRetry' = 0
  /\ ref' = 0 /\ named' = FALSE
  /\ UNCHANGED <<specVars, elapsed, healthy, kind, remote, answer, pc,
                 faults>>

-----------------------------------------------------------------------------
(* reconcileRemoteBuild                                                    *)

(* The provider lookup, its health or its support for remote builds fails. *)
RejectProvider ==
  /\ Dispatch
  /\ UNCHANGED attemptVars
  /\ EndReconcile("Failed")

MutStartBuild ==
  /\ Dispatch /\ healthy
  /\ started' = TRUE
  /\ elapsed' = 0
  /\ phase' = "Building" /\ obs' = gen
  /\ UNCHANGED <<specVars, retries, nextRetry, ref, named, healthy, kind,
                 remote, answer, pc, faults>>

StartBuild ==
  /\ Dispatch /\ healthy
  /\ ~started
  /\ started' = TRUE
  /\ elapsed' = 0
  /\ phase' = "Building" /\ obs' = gen
  /\ UNCHANGED <<specVars, retries, nextRetry, ref, named, healthy, kind,
                 remote, answer, pc, faults>>

TimedOut == elapsed > Timeout

MutDue ==
  /\ Dispatch /\ healthy
  /\ started
  /\ ~TimedOut

(* The attempt is running, within its time, and no retry is pending.       *)
Due ==
  /\ Dispatch /\ healthy
  /\ started
  /\ ~TimedOut
  /\ nextRetry <= elapsed

MutTimeoutCleanup ==
  /\ Dispatch /\ healthy /\ started
  /\ TimedOut
  /\ pc' = "cleaned"
  /\ UNCHANGED <<phase, specVars, obs, attemptVars, elapsed, healthy, kind,
                 remote, answer, faults>>

TimeoutCleanup ==
  /\ Dispatch /\ healthy /\ started
  /\ TimedOut
  /\ Cleaned(ref, named)
  /\ pc' = "cleaned"
  /\ UNCHANGED <<phase, specVars, obs, attemptVars, elapsed, healthy, kind,
                 answer, faults>>

(* The provider is not initialised: it rejects its configuration, or the   *)
(* credentials of the request cannot be read.                              *)
RejectConfig ==
  /\ Due
  /\ UNCHANGED attemptVars
  /\ EndReconcile("Failed")

(* A transient error of the initialisation: nothing has been asked for.    *)
InitUnavailable ==
  /\ Due
  /\ answer' = "transient"
  /\ pc' = "answered"
  /\ UNCHANGED <<phase, specVars, obs, attemptVars, elapsed, healthy, kind,
                 remote, faults>>

(* What a call may make of what the provider holds, and answer.  A         *)
(* reference is never given a new builder; without one OpenStack starts a  *)
(* second.  An image comes of a builder, and is deleted again only when    *)
(* the call fails.                                                         *)
ProviderMay(old, now, a) ==
  /\ old \cap {"snapshot", "orphan"} \subseteq now
  /\ "snapshot" \in now \ old => kind = "aws" /\ "image" \in old \ now
  /\ "orphan" \in now \ old =>
       kind = "openstack" /\ ref = 0 /\ "builder" \in old
  /\ "builder" \in now => kind \notin Direct /\ ("builder" \in old \/ ref = 0)
  /\ "image" \in now => "image" \in old \/ "builder" \in old \/ kind \in Direct
  /\ "image" \in old \ now =>
       kind \in {"aws", "vsphere"} /\ a \in {"transient", "terminal"}
  /\ a = "progress" => "builder" \in now
  /\ a \in {"done", "rejected"} =>
       /\ "image" \in now /\ "builder" \notin now
       /\ ref # 0 \/ kind \in Direct
  /\ a = "noImages" => "builder" \notin now

(* ReconcileRemoteBuild of the provider; any answer may be lost.           *)
CallProvider ==
  /\ Due
  /\ \E now \in SUBSET Things, a \in Answers \ {"none"} :
       /\ ProviderMay(remote[gen], now, a)
       /\ remote' = [remote EXCEPT ![gen] = now]
       /\ answer' = a
  /\ pc' = "answered"
  /\ UNCHANGED <<phase, specVars, obs, attemptVars, elapsed, healthy, kind,
                 faults>>

RecordProgress ==
  /\ pc = "answered" /\ answer = "progress"
  /\ RecordAnswer
  /\ EndReconcile(phase)

retryRemoteBuild ==
  /\ pc = "answered" /\ answer = "transient"
  /\ \E requested \in RetryAfters \cup {0} :
       nextRetry' = elapsed + RetryDelay(requested)
  /\ retries' = retries + 1
  /\ UNCHANGED <<started, ref, named>>
  /\ EndReconcile(phase)

(* A done result without an image, or an empty one (whose reference is     *)
(* unknown), fails the attempt at once.                                    *)
FailUnfinished ==
  /\ pc = "answered" /\ answer = "noImages"
  /\ \/ ref' = AnswerRef /\ named' = AnswerNames
     \/ UNCHANGED <<ref, named>>
  /\ retries' = 0 /\ nextRetry' = 0
  /\ UNCHANGED started
  /\ EndReconcile("Failed")

(* A terminal error, or an image that is not accepted, is cleaned up.      *)
FailureCleanup ==
  /\ pc = "answered" /\ answer \in {"terminal", "rejected"}
  /\ healthy
  /\ Cleaned(AnswerRef, AnswerNames)
  /\ pc' = "cleaned"
  /\ UNCHANGED <<phase, specVars, obs, attemptVars, elapsed, healthy, kind,
                 answer, faults>>

FailCleaned ==
  /\ pc = "cleaned"
  /\ RecordAnswer
  /\ EndReconcile("Failed")

MarkReady ==
  /\ pc = "answered" /\ answer = "done"
  /\ RecordAnswer
  /\ EndReconcile("Ready")

(* Cleanup fails, possibly after its effect; markCleanupFailure writes the *)
(* status if it can, and the reconcile ends with an error.                 *)
CleanupFails ==
  /\ \/ pc = "answered" /\ answer \in {"terminal", "rejected"}
     \/ Dispatch /\ healthy /\ started /\ TimedOut
  /\ PartlyCleaned(AnswerRef, AnswerNames)
  /\ \/ ~deleting /\ RecordAnswer
     \/ UNCHANGED attemptVars
  /\ answer' = "none"
  /\ pc' = "idle"
  /\ UNCHANGED <<phase, specVars, obs, elapsed, healthy, kind, faults>>

-----------------------------------------------------------------------------
(* reconcileDelete                                                         *)

MutDeleteCleanup ==
  /\ pc = "idle" /\ deleting /\ phase # "Gone"
  /\ healthy
  /\ ref # 0
  /\ Cleaned(ref, named)
  /\ pc' = "finalize"
  /\ UNCHANGED <<phase, specVars, obs, attemptVars, elapsed, healthy, kind,
                 answer, faults>>

(* cleanupRemoteBuild, for the BuildID of the current spec.                *)
DeleteCleanup ==
  /\ pc = "idle" /\ deleting /\ phase # "Gone"
  /\ healthy
  /\ Cleaned(ref, named)
  /\ pc' = "finalize"
  /\ UNCHANGED <<phase, specVars, obs, attemptVars, elapsed, healthy, kind,
                 answer, faults>>

DeleteCleanupFails ==
  /\ pc = "idle" /\ deleting /\ phase # "Gone"
  /\ PartlyCleaned(ref, named)
  /\ UNCHANGED <<phase, specVars, obs, attemptVars, elapsed, healthy, kind,
                 answer, pc, faults>>

FinishDelete ==
  /\ pc = "finalize"
  /\ phase' = "Gone"
  /\ pc' = "idle"
  /\ UNCHANGED <<specVars, obs, attemptVars, elapsed, healthy, kind, remote,
                 answer, faults>>

-----------------------------------------------------------------------------
(* What cuts a reconcile short, and the environment                        *)

(* The status cannot be written: the object changed during the reconcile.  *)
StatusConflict ==
  /\ pc \in {"answered", "cleaned"} /\ deleting
  /\ answer' = "none"
  /\ pc' = "idle"
  /\ UNCHANGED <<phase, specVars, obs, attemptVars, elapsed, healthy, kind,
                 remote, faults>>

(* The controller stops, or the API server refuses the write.              *)
Fault ==
  /\ pc # "idle" /\ faults < MaxFaults
  /\ answer' = "none"
  /\ pc' = "idle"
  /\ faults' = faults + 1
  /\ UNCHANGED <<phase, specVars, obs, attemptVars, elapsed, healthy, kind,
                 remote>>

RequestDelete ==
  /\ ~deleting
  /\ deleting' = TRUE
  /\ UNCHANGED <<phase, gen, obs, attemptVars, elapsed, healthy, kind, remote,
                 answer, pc, faults>>

(* The webhook admits a new revision in a terminal phase only.             *)
RequestRebuild ==
  /\ ~deleting /\ phase \in Terminal
  /\ gen < MaxGeneration
  /\ gen' = gen + 1
  /\ UNCHANGED <<phase, deleting, obs, attemptVars, elapsed, healthy, kind,
                 remote, answer, pc, faults>>

Tick ==
  /\ started /\ phase = "Building"
  /\ elapsed <= Timeout
  /\ elapsed' = elapsed + 1
  /\ UNCHANGED <<phase, specVars, obs, attemptVars, healthy, kind, remote,
                 answer, pc, faults>>

(* The PlatformProvider's health probe fails, and succeeds again.          *)
LoseHealth ==
  /\ healthy /\ phase # "Gone"
  /\ healthy' = FALSE
  /\ UNCHANGED <<phase, specVars, obs, attemptVars, elapsed, kind, remote,
                 answer, pc, faults>>

Recover ==
  /\ ~healthy
  /\ healthy' = TRUE
  /\ UNCHANGED <<phase, specVars, obs, attemptVars, elapsed, kind, remote,
                 answer, pc, faults>>

-----------------------------------------------------------------------------

Reconcile ==
  \/ ResetForRebuild \/ RejectProvider \/ StartBuild \/ TimeoutCleanup
  \/ RejectConfig \/ InitUnavailable \/ CallProvider
  \/ RecordProgress \/ retryRemoteBuild \/ FailUnfinished
  \/ FailureCleanup \/ FailCleaned \/ MarkReady \/ CleanupFails
  \/ DeleteCleanup \/ FinishDelete \/ StatusConflict

Next ==
  \/ Reconcile \/ DeleteCleanupFails \/ Fault
  \/ RequestDelete \/ RequestRebuild \/ Tick \/ LoseHealth \/ Recover

Spec == Init /\ [][Next]_vars

(* The work queue retries every reconcile that ends early, time passes, a  *)
(* provider that is unhealthy recovers, and a cleanup that is tried again  *)
(* and again succeeds.                                                     *)
Fairness ==
  /\ WF_vars(Reconcile) /\ WF_vars(Tick) /\ WF_vars(Recover)
  /\ SF_vars(TimeoutCleanup) /\ SF_vars(DeleteCleanup)

FairSpec == Spec /\ Fairness

-----------------------------------------------------------------------------
(* Properties                                                              *)

(* A retry is never put off past the timeout by more than the least delay, *)
(* whatever the provider asks for: a reconcile that returns only to wait   *)
(* for it still finds the timeout in time (retryRemoteBuild).              *)
RetryWithinBudget == nextRetry <= Timeout + 1 + MinDelay

(* What is left of the current attempt after a cleanup that reported no    *)
(* error: a builder only where vSphere refused to destroy it or where      *)
(* OpenStack's reference r was never recorded, an image only where the     *)
(* provider does not look for it.                                          *)
OnlyKnownLeft(r) ==
  /\ "builder" \in remote[gen] =>
       kind = "vsphere" \/ (kind = "openstack" /\ r # gen)
  /\ "image" \in remote[gen] =>
       \/ kind \in {"azure", "openstack", "vsphere", "awsSnapshot"}
       \/ kind = "gcp" /\ r # gen

(* A timeout, a terminal error or a rejected image makes the VMImage       *)
(* Failed only when the attempt's resources are cleaned up, with the       *)
(* reference that is then recorded, also when an earlier one was lost by a *)
(* crash (cleanupRemoteBuild before setFailedWithReason).                  *)
CleanedBeforeFailed ==
  [][phase' = "Failed" /\ phase # "Failed"
       /\ (pc = "cleaned" \/ answer \in {"terminal", "rejected"})
     => OnlyKnownLeft(ref')]_vars

(* A VMImage whose finalizer is gone leaves only that of its current       *)
(* attempt, and no builder of the attempt its reference names, which may   *)
(* be the one before, wherever the deletion met the reconcile              *)
(* (reconcileDelete, cleanupRemoteBuild).                                  *)
DeletionRemovesBuild ==
  phase = "Gone" =>
    /\ OnlyKnownLeft(ref)
    /\ ref # 0 /\ "builder" \in remote[ref] => kind = "vsphere"

(* The image as its user sees it.                                          *)
Contract == INSTANCE ImageContract WITH
  requested <- gen,
  attempt <- obs,
  state <- IF phase \in Active THEN "active" ELSE phase

(* A remote build keeps the same contract as a local one.                  *)
MeetsContract == Contract!Spec

(* Every remote attempt ends, although transient errors, lost answers and  *)
(* an unhealthy provider may repeat for ever (the timeout of               *)
(* reconcileRemoteBuild); but for a cleanup at AWS that cannot succeed any *)
(* more, because the AMI of its reference is gone.                         *)
AttemptsConclude ==
  phase \in Active ~> phase \notin Active \/ CleanupStuck(ref, named)

(* A deleted image loses its finalizer (reconcileDelete), but for such a   *)
(* cleanup.                                                                *)
DeletionCompletes == deleting ~> phase = "Gone" \/ CleanupStuck(ref, named)

(* docs/architecture/ARCHITECTURE.md: terminal errors "retain              *)
(* fail-and-cleanup behavior": a Failed VMImage leaves no builder running. *)
(* The code does not keep this (README): errors before the provider call   *)
(* fail the image without cleanup.                                         *)
FailedLeavesNoBuilder == phase = "Failed" => "builder" \notin remote[gen]

=============================================================================
