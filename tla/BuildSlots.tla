----------------------------- MODULE BuildSlots -----------------------------
(***************************************************************************)
(* Admission of local builds through Kubernetes Leases.                    *)
(*                                                                         *)
(* The VMImage controller bounds the number of parallel build Jobs with    *)
(* one Lease per global slot (pkg/controller/vmimage/scheduler.go).  A     *)
(* reconcile acquires a slot, creates the build Job and only then records  *)
(* the slot in VMImage.status.buildLeaseRefs; later reconciles renew the   *)
(* Lease, and the reconcile that observes the end of the build releases it *)
(* before it writes the status.  Every API call is a step of its own here, *)
(* so a crash, a conflict or an API error may come between any two.        *)
(*                                                                         *)
(* The controller has one worker (controller-runtime's default), so        *)
(* reconciles of different images do not overlap.  A Get is served by the  *)
(* informer cache of the manager's client, which lags behind the API       *)
(* server; writes go to the API server.  A Get and the write that depends  *)
(* on it form one step: the write sees the API server's state and the Get  *)
(* the cache's, so a step between the two changes nothing.                 *)
(***************************************************************************)
EXTENDS Integers, FiniteSets, Sequences

CONSTANTS
  Images,               \* the VMImages that request a local build
  MaxConcurrentBuilds,  \* the operator flag --max-concurrent-builds
  MaxFaults,            \* bound: reconciles that end early (crash, error)
  NoLease               \* the Lease object of a slot does not exist

(* A Lease of a slot: its holder, and whether its renewal is younger than  *)
(* the lease duration of six hours.                                        *)
Lease == [holder : Images, fresh : BOOLEAN]

(* The effective limit: a negative flag switches the limit off (0), and    *)
(* zero means the default of 3.                                            *)
maxConcurrentBuilds ==
  IF MaxConcurrentBuilds < 0 THEN 0
  ELSE IF MaxConcurrentBuilds = 0 THEN 3 ELSE MaxConcurrentBuilds

Slots == 0 .. maxConcurrentBuilds - 1

ASSUME FlagAssumption == MaxConcurrentBuilds \in Int
ASSUME FaultAssumption == MaxFaults \in Nat
ASSUME LeaseAssumption == NoLease \notin Lease

VARIABLES
  versions,   \* the Lease of each slot, from the version that the cache
              \* has, the first, to that of the API server, the last
  phase,      \* VMImage.status.phase; "Gone" once the finalizer is removed
  refs,       \* VMImage.status.buildLeaseRefs
  deleting,   \* VMImage.metadata.deletionTimestamp is set
  job,        \* the build Job
  timedOut,   \* while building: more than spec.build.timeout has passed
              \* since startTime
  claim,      \* history: "lapsed" once a Lease of the image expired,
              \* "misread" once it took a slot by an outdated copy, or took
              \* over an expired Lease, and "sound" otherwise
  pc,         \* where the reconcile of the image stands
  slot,       \* acquireLeaseSlot's loop variable
  mem,        \* the lease refs the reconcile holds in memory
  goal,       \* the phase the reconcile is about to write
  faults      \* reconciles that ended early so far

vars == <<versions, phase, refs, deleting, job, timedOut, claim,
          pc, slot, mem, goal, faults>>

Phases == {"Pending", "Building", "Uploading", "Failed", "Gone"}
JobStates == {"none", "active", "succeeded", "failed"}
Steps == {"idle", "acquire", "recreate", "createJob", "markBuilding",
          "release", "writeStatus"}

TypeOK ==
  /\ versions \in [Slots -> Seq(Lease \cup {NoLease}) \ {<<>>}]
  /\ phase \in [Images -> Phases]
  /\ refs \in [Images -> SUBSET Slots]
  /\ deleting \in [Images -> BOOLEAN]
  /\ job \in [Images -> JobStates]
  /\ timedOut \in [Images -> BOOLEAN]
  /\ claim \in [Images -> {"sound", "misread", "lapsed"}]
  /\ pc \in [Images -> Steps]
  /\ slot \in [Images -> Nat]
  /\ mem \in [Images -> SUBSET Slots]
  /\ goal \in [Images -> Phases]
  /\ faults \in Nat

Init ==
  /\ versions = [s \in Slots |-> <<NoLease>>]
  /\ phase = [i \in Images |-> "Pending"]
  /\ refs = [i \in Images |-> {}]
  /\ deleting = [i \in Images |-> FALSE]
  /\ job = [i \in Images |-> "none"]
  /\ timedOut = [i \in Images |-> FALSE]
  /\ claim = [i \in Images |-> "sound"]
  /\ pc = [i \in Images |-> "idle"]
  /\ slot = [i \in Images |-> 0]
  /\ mem = [i \in Images |-> {}]
  /\ goal = [i \in Images |-> "Pending"]
  /\ faults = 0

-----------------------------------------------------------------------------
(* Helpers                                                                 *)

WorkerFree == \A j \in Images : pc[j] = "idle"

(* The Lease of a slot in the API server, and what a Get of it returns.    *)
lease(s) == versions[s][Len(versions[s])]
Seen(s) == versions[s][1]
Current(s) == Len(versions[s]) = 1

(* The API server's version of the Leases of some slots is replaced; the   *)
(* deletion of a Lease that is gone is no change.                          *)
Write(ss, l) ==
  versions' = [s \in Slots |->
                 IF s \in ss /\ ~(l = NoLease /\ lease(s) = NoLease)
                   THEN Append(versions[s], l) ELSE versions[s]]

HeldBy(l, i) == l # NoLease /\ l.holder = i

MutExpiredAlways(l) == l # NoLease

MutExpiredNever(l) == FALSE

(* A Lease whose last renewal is older than its duration may be taken.     *)
buildLeaseExpired(l) == l # NoLease /\ ~l.fresh

FreshLease(i) == [holder |-> i, fresh |-> TRUE]

(* The slots among rs whose Lease releaseBuildSlots deletes: those it sees *)
(* held by the image.  The Delete carries no precondition.                 *)
MutReleasedSlotsAny(i, rs) == {s \in rs : Seen(s) # NoLease}

ReleasedSlots(i, rs) == {s \in rs : HeldBy(Seen(s), i)}

(* What the image goes by when it takes slot s: nothing, or its own Lease, *)
(* and nothing newer.                                                      *)
ReadsWell(i, s) == Current(s) /\ (Seen(s) = NoLease \/ HeldBy(Seen(s), i))

Claims(i, well) ==
  claim' = [claim EXCEPT ![i] = IF @ = "sound" /\ ~well THEN "misread" ELSE @]

statusVars == <<phase, refs>>
envVars == <<deleting, job, timedOut>>
opVars == <<slot, mem, goal>>

(* A reconcile of image i starts: one worker, and phase p read from the    *)
(* API; an image with a deletion timestamp never reaches the phases.       *)
Begin(i, p) ==
  /\ WorkerFree
  /\ phase[i] = p
  /\ ~deleting[i]

Goto(i, step) == pc' = [pc EXCEPT ![i] = step]

MutTakeOneBased(i, s) ==
  /\ mem' = [mem EXCEPT ![i] = {s + 1}]
  /\ Claims(i, ReadsWell(i, s))
  /\ Goto(i, "createJob")
  /\ UNCHANGED <<slot, goal>>

(* acquireLeaseSlot returns slot s.                                        *)
Take(i, s) ==
  /\ mem' = [mem EXCEPT ![i] = {s}]
  /\ Claims(i, ReadsWell(i, s))
  /\ Goto(i, "createJob")
  /\ UNCHANGED <<slot, goal>>

NextSlot(i) ==
  /\ slot' = [slot EXCEPT ![i] = @ + 1]
  /\ Goto(i, "acquire")
  /\ UNCHANGED <<mem, goal, claim>>

(* Create the Lease; AlreadyExists moves the loop on to the next slot.     *)
CreateLease(i, s) ==
  IF lease(s) = NoLease
    THEN Write({s}, FreshLease(i)) /\ Take(i, s)
    ELSE UNCHANGED versions /\ NextSlot(i)

-----------------------------------------------------------------------------
(* reconcilePending: validation, acquireBuildSlots, the build Job, status  *)

(* A target or the artifact storage is rejected: setFailed.  No slot is    *)
(* recorded in the status of a Pending image, so none is released.         *)
RejectPending(i) ==
  /\ Begin(i, "Pending")
  /\ phase' = [phase EXCEPT ![i] = "Failed"]
  /\ Write(ReleasedSlots(i, refs[i]), NoLease)
  /\ refs' = [refs EXCEPT ![i] = {}]
  /\ UNCHANGED <<envVars, claim, pc, opVars, faults>>

StartPending(i) ==
  /\ Begin(i, "Pending")
  /\ IF refs[i] # {} \/ maxConcurrentBuilds = 0
       THEN Goto(i, "createJob") /\ mem' = [mem EXCEPT ![i] = refs[i]]
       ELSE Goto(i, "acquire") /\ UNCHANGED mem
  /\ slot' = [slot EXCEPT ![i] = 0]
  /\ UNCHANGED <<versions, statusVars, envVars, claim, goal, faults>>

Acquiring(i) == pc[i] = "acquire" /\ slot[i] \in Slots

AcquireFree(i) ==
  /\ Acquiring(i)
  /\ Seen(slot[i]) = NoLease
  /\ CreateLease(i, slot[i])
  /\ UNCHANGED <<statusVars, envVars, faults>>

(* The slot already belongs to the image (an earlier reconcile was cut     *)
(* short): it is taken as it is, without a renewal.                        *)
AcquireOwn(i) ==
  /\ Acquiring(i)
  /\ HeldBy(Seen(slot[i]), i)
  /\ Take(i, slot[i])
  /\ UNCHANGED <<versions, statusVars, envVars, faults>>

AcquireExpired(i) ==
  /\ Acquiring(i)
  /\ ~HeldBy(Seen(slot[i]), i)
  /\ buildLeaseExpired(Seen(slot[i]))
  /\ Write({slot[i]}, NoLease)
  /\ Goto(i, "recreate")
  /\ UNCHANGED <<statusVars, envVars, claim, opVars, faults>>

RecreateExpired(i) ==
  /\ pc[i] = "recreate"
  /\ CreateLease(i, slot[i])
  /\ UNCHANGED <<statusVars, envVars, faults>>

SkipHeld(i) ==
  /\ Acquiring(i)
  /\ Seen(slot[i]) # NoLease
  /\ ~HeldBy(Seen(slot[i]), i)
  /\ ~buildLeaseExpired(Seen(slot[i]))
  /\ NextSlot(i)
  /\ UNCHANGED <<versions, statusVars, envVars, faults>>

(* Every slot is taken: the image reports BuildQueued and is requeued.     *)
QueueBuild(i) ==
  /\ pc[i] = "acquire"
  /\ slot[i] \notin Slots
  /\ Goto(i, "idle")
  /\ slot' = [slot EXCEPT ![i] = 0]
  /\ UNCHANGED <<versions, statusVars, envVars, claim, mem, goal,
                 faults>>

(* buildpod.Assemble fails: the slots are released and the image fails.    *)
AssembleFails(i) ==
  /\ pc[i] = "createJob"
  /\ Goto(i, "release")
  /\ goal' = [goal EXCEPT ![i] = "Failed"]
  /\ UNCHANGED <<versions, statusVars, envVars, claim, slot, mem,
                 faults>>

(* Create the Job; AlreadyExists is tolerated.                             *)
CreateJob(i) ==
  /\ pc[i] = "createJob"
  /\ job' = [job EXCEPT ![i] = IF @ = "none" THEN "active" ELSE @]
  /\ Goto(i, "markBuilding")
  /\ UNCHANGED <<versions, statusVars, deleting, timedOut, claim, opVars,
                 faults>>

(* Create reports an error, and the request may have been applied all the  *)
(* same; the slots are released, unless that fails too (ignored).          *)
CreateJobFails(i) ==
  /\ pc[i] = "createJob"
  /\ faults < MaxFaults
  /\ \E applied, released \in BOOLEAN :
       /\ job' = [job EXCEPT ![i] =
                    IF applied /\ @ = "none" THEN "active" ELSE @]
       /\ Write(IF released THEN ReleasedSlots(i, mem[i]) ELSE {}, NoLease)
  /\ Goto(i, "idle")
  /\ mem' = [mem EXCEPT ![i] = {}]
  /\ faults' = faults + 1
  /\ UNCHANGED <<statusVars, deleting, timedOut, claim, slot, goal>>

(* A reconcile that began before the deletion request holds an old         *)
(* resourceVersion of the VMImage: its status update is a conflict.        *)
Outdated(i) == deleting[i] /\ goal[i] # "Gone"

MarkBuilding(i) ==
  /\ pc[i] = "markBuilding"
  /\ ~Outdated(i)
  /\ phase' = [phase EXCEPT ![i] = "Building"]
  /\ refs' = [refs EXCEPT ![i] = mem[i]]
  /\ mem' = [mem EXCEPT ![i] = {}]
  /\ Goto(i, "idle")
  /\ UNCHANGED <<versions, envVars, claim, slot, goal, faults>>

-----------------------------------------------------------------------------
(* reconcileBuilding: end of the build, renewal, timeout; setFailed        *)

(* What the controller makes of a Job that is not running: a succeeded one *)
(* fails the image all the same when its result cannot be read.            *)
Outcomes(j) ==
  CASE j = "succeeded" -> {"Uploading", "Failed"}
    [] OTHER -> {"Failed"}

BeginRelease(i, g) ==
  /\ Goto(i, "release")
  /\ mem' = [mem EXCEPT ![i] = refs[i]]
  /\ goal' = [goal EXCEPT ![i] = g]

MutObserveFinishedAny(i) ==
  /\ Begin(i, "Building")
  /\ \E g \in Outcomes(job[i]) : BeginRelease(i, g)
  /\ UNCHANGED <<versions, statusVars, envVars, claim, slot, faults>>

ObserveFinished(i) ==
  /\ Begin(i, "Building")
  /\ job[i] # "active"
  /\ \E g \in Outcomes(job[i]) : BeginRelease(i, g)
  /\ UNCHANGED <<versions, statusVars, envVars, claim, slot, faults>>

(* The renewal of slot s succeeds: a missing Lease is recreated (and       *)
(* AlreadyExists tolerated); another holder's live Lease is an error; an   *)
(* Update needs the version that was read to be current.                   *)
CanRenew(i, s) ==
  \/ Seen(s) = NoLease
  \/ /\ HeldBy(Seen(s), i) \/ buildLeaseExpired(Seen(s))
     /\ Current(s)

(* It writes the Lease, unless that exists and was not seen.               *)
Renews(i, s) == CanRenew(i, s) /\ ~(Seen(s) = NoLease /\ lease(s) # NoLease)

(* renewBuildSlots, then the timeout check: a build that has timed out     *)
(* releases its slots and fails; its Job is left to its own deadline.      *)
RenewSlots(i) ==
  /\ Begin(i, "Building")
  /\ job[i] = "active"
  /\ \A s \in refs[i] : CanRenew(i, s)
  /\ Write({s \in refs[i] : Renews(i, s)}, FreshLease(i))
  /\ Claims(i, \A s \in refs[i] : Renews(i, s) => ReadsWell(i, s))
  /\ IF timedOut[i]
       THEN BeginRelease(i, "Failed")
       ELSE UNCHANGED <<pc, mem, goal>>
  /\ UNCHANGED <<statusVars, envVars, slot, faults>>

ReleaseSlots(i) ==
  /\ pc[i] = "release"
  /\ Write(ReleasedSlots(i, mem[i]), NoLease)
  /\ mem' = [mem EXCEPT ![i] = {}]
  /\ Goto(i, "writeStatus")
  /\ UNCHANGED <<statusVars, envVars, claim, slot, goal, faults>>

(* The status update that ends a release, or the removal of the finalizer. *)
WriteStatus(i) ==
  /\ pc[i] = "writeStatus"
  /\ ~Outdated(i)
  /\ phase' = [phase EXCEPT ![i] = goal[i]]
  /\ refs' = [refs EXCEPT ![i] = {}]
  /\ timedOut' = [timedOut EXCEPT ![i] = FALSE]
  /\ Goto(i, "idle")
  /\ goal' = [goal EXCEPT ![i] = "Pending"]
  /\ UNCHANGED <<versions, deleting, job, claim, slot, mem, faults>>

(* reconcileDelete of a local build: the slots in the status are released  *)
(* and the finalizer is removed.                                           *)
StartDelete(i) ==
  /\ WorkerFree
  /\ deleting[i]
  /\ phase[i] # "Gone"
  /\ BeginRelease(i, "Gone")
  /\ UNCHANGED <<versions, statusVars, envVars, claim, slot, faults>>

(* The reconcile ends with an error: nothing it kept in memory survives,   *)
(* and the image is reconciled again.                                      *)
Abort(i) ==
  /\ Goto(i, "idle")
  /\ slot' = [slot EXCEPT ![i] = 0]
  /\ mem' = [mem EXCEPT ![i] = {}]
  /\ goal' = [goal EXCEPT ![i] = "Pending"]
  /\ UNCHANGED <<versions, statusVars, envVars, claim>>

StatusConflict(i) ==
  /\ pc[i] \in {"markBuilding", "writeStatus"}
  /\ Outdated(i)
  /\ Abort(i)
  /\ UNCHANGED faults

(* The operator crashes, or an API call of the reconcile fails.            *)
Fault(i) ==
  /\ pc[i] # "idle"
  /\ faults < MaxFaults
  /\ Abort(i)
  /\ faults' = faults + 1

-----------------------------------------------------------------------------
(* The environment                                                         *)

RequestDelete(i) ==
  /\ ~deleting[i]
  /\ phase[i] # "Gone"
  /\ deleting' = [deleting EXCEPT ![i] = TRUE]
  /\ UNCHANGED <<versions, statusVars, job, timedOut, claim, pc,
                 opVars, faults>>

JobFinishes(i) ==
  /\ job[i] = "active"
  /\ \E r \in {"succeeded", "failed"} : job' = [job EXCEPT ![i] = r]
  /\ UNCHANGED <<versions, statusVars, deleting, timedOut, claim, pc,
                 opVars, faults>>

(* The Job is deleted: by its TTL, by a user, or by the garbage collector  *)
(* once its owner is gone.                                                 *)
JobRemoved(i) ==
  /\ job[i] # "none"
  /\ job' = [job EXCEPT ![i] = "none"]
  /\ UNCHANGED <<versions, statusVars, deleting, timedOut, claim, pc,
                 opVars, faults>>

BuildTimesOut(i) ==
  /\ phase[i] = "Building"
  /\ ~timedOut[i]
  /\ timedOut' = [timedOut EXCEPT ![i] = TRUE]
  /\ UNCHANGED <<versions, statusVars, deleting, job, claim, pc,
                 opVars, faults>>

Aged(l) == [holder |-> l.holder, fresh |-> FALSE]

(* Six hours pass without a renewal of the Lease.  The watch is assumed to *)
(* have delivered it by then.                                              *)
Expire(s) ==
  /\ Current(s)
  /\ lease(s) # NoLease
  /\ lease(s).fresh
  /\ versions' = [versions EXCEPT ![s] = <<Aged(@[1])>>]
  /\ claim' = [claim EXCEPT ![lease(s).holder] = "lapsed"]
  /\ UNCHANGED <<statusVars, envVars, pc, opVars, faults>>

(* The watch delivers the next version of a Lease to the informer cache.   *)
CacheSync(s) ==
  /\ ~Current(s)
  /\ versions' = [versions EXCEPT ![s] = Tail(@)]
  /\ UNCHANGED <<statusVars, envVars, claim, pc, opVars, faults>>

-----------------------------------------------------------------------------

(* The steps of a reconcile that is under way.                             *)
Advance(i) ==
  \/ AcquireFree(i) \/ AcquireOwn(i) \/ AcquireExpired(i)
  \/ RecreateExpired(i) \/ SkipHeld(i) \/ QueueBuild(i)
  \/ CreateJob(i) \/ MarkBuilding(i) \/ ReleaseSlots(i) \/ WriteStatus(i)
  \/ StatusConflict(i)

(* A reconcile that has work to do starts.                                 *)
Start(i) == StartPending(i) \/ ObserveFinished(i) \/ StartDelete(i)

Reconcile(i) ==
  \/ Start(i) \/ RejectPending(i) \/ RenewSlots(i) \/ Advance(i)
  \/ AssembleFails(i) \/ CreateJobFails(i) \/ Fault(i)

Environment(i) ==
  \/ RequestDelete(i) \/ JobFinishes(i) \/ JobRemoved(i) \/ BuildTimesOut(i)

Next ==
  \/ \E i \in Images : Reconcile(i) \/ Environment(i)
  \/ \E s \in Slots : Expire(s) \/ CacheSync(s)

Spec == Init /\ [][Next]_vars

(* No image whose build is in progress records slot s: nobody renews it.   *)
Abandoned(s) ==
  \A i \in Images : s \in refs[i] => phase[i] # "Building" \/ deleting[i]

(* The work queue serves every image that is due again and again, a        *)
(* reconcile that has started goes on, Jobs end (activeDeadlineSeconds),   *)
(* the watch delivers, and time passes for Leases nobody renews.           *)
Fairness ==
  /\ \A i \in Images : SF_vars(Start(i)) /\ WF_vars(JobFinishes(i))
  /\ WF_vars(\E i \in Images : Advance(i))
  /\ \A s \in Slots : /\ WF_vars(Abandoned(s) /\ Expire(s))
                      /\ WF_vars(CacheSync(s))

FairSpec == Spec /\ Fairness

-----------------------------------------------------------------------------
(* Properties                                                              *)

Holds(i) == \E s \in Slots : HeldBy(lease(s), i)

(* An image the controller counts as building: its Job runs within its     *)
(* timeout and it is not being deleted.                                    *)
InProgress(i) ==
  phase[i] = "Building" /\ job[i] = "active" /\ ~timedOut[i] /\ ~deleting[i]

(* A build in progress whose claim is sound, that is, which took its slot  *)
(* by a current copy and whose Leases did not expire, holds the Lease its  *)
(* status records, whatever crashed between acquiring, recording, renewing and    *)
(* releasing slots, and however old the copies are by which this image is  *)
(* renewed and others acquire, take over and release (reconcilePending,    *)
(* renewBuildSlots, releaseBuildSlots).                                    *)
BuildingHoldsSlot ==
  \A i \in Images : InProgress(i) /\ claim[i] = "sound" =>
    maxConcurrentBuilds = 0 \/ \E s \in refs[i] : HeldBy(lease(s), i)

(* Such builds never exceed the limit of maxConcurrentBuilds.              *)
BuildsWithinLimit ==
  maxConcurrentBuilds > 0 =>
    Cardinality({i \in Images : InProgress(i) /\ claim[i] = "sound"})
      <= maxConcurrentBuilds

(* The live Lease of an image with a sound claim leaves it only by a step  *)
(* of the image's own reconcile: neither the takeover of acquireLeaseSlot  *)
(* nor the release of another image, which may go by an old copy and whose *)
(* status may still record the slot after a crash, removes it, although    *)
(* the Delete has no precondition.                                         *)
LiveLeaseKept ==
  [][\A s \in Slots :
       /\ lease(s) # NoLease /\ lease(s).fresh
       /\ claim[lease(s).holder] = "sound"
       /\ ~HeldBy(lease(s)', lease(s).holder)
       => pc[lease(s).holder] # "idle"]_vars

(* docs/operations/operator.md: "Global slots enforce                      *)
(* --max-concurrent-builds", of builds whose Leases never expired.  The    *)
(* code does not keep this: acquireLeaseSlot takes the cached copy of a    *)
(* Lease that the image has released itself for the Lease.                 *)
LimitEnforced ==
  maxConcurrentBuilds > 0 /\ (\A i \in Images : claim[i] # "lapsed") =>
    Cardinality({i \in Images : InProgress(i)}) <= maxConcurrentBuilds

(* A queued image is eventually admitted, rejected or deleted: slots that  *)
(* a crash left behind come back when their Leases expire.                 *)
QueuedImagesProgress ==
  \A i \in Images : phase[i] = "Pending" ~> phase[i] # "Pending"

(* docs/operations/operator.md: "Slots are released after build success,   *)
(* failure, timeout, or deletion": a deleted image holds no slot.  The code *)
(* does not keep this (README): a Lease that is not yet recorded stays.    *)
DeletedImagesHoldNoSlot ==
  \A i \in Images : phase[i] = "Gone" => ~Holds(i)
=============================================================================
