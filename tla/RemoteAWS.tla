------------------------------ MODULE RemoteAWS ------------------------------
(***************************************************************************)
(* The AWS client (plugins/aws/remote_client.go): an EC2 instance that is  *)
(* found again by its client token, provisioned by SSM commands, stopped   *)
(* and captured as an AMI.  Each call looks at the state of the instance   *)
(* or of the AMI and takes one step.  A snapshot source is registered as   *)
(* an AMI without an instance.                                             *)
(***************************************************************************)
EXTENDS RemoteClient

AWSSettings(q) ==
  /\ q.settings.key => q.settings.allowKey
  /\ q.ssh => q.settings.key
  /\ q.steps # <<>> => q.settings.identity

validateSecurityGroups(q) == q.settings.allowPublic \/ ~q.settings.publicGroup

(* The newest AMI of the publisher's that matches.                         *)
resolveMarketplaceAMI(q) == q.source = "marketplace" => q.sourceFits

(* The AMI exists, for the operating system and the architecture.          *)
validateSourceAMI(q) == q.sourceFits

validateRemoteProvisioners(q) == AdmittedTypes(q, {"shell", "powershell", "file"})

(* Every call repeats the checks of the request.                           *)
validateRemoteBuildSettings(q) ==
  /\ q.source \in {"image", "marketplace"} /\ resolveMarketplaceAMI(q)
  /\ AWSSettings(q) /\ validateRemoteProvisioners(q)
  /\ validateSourceAMI(q) /\ validateSecurityGroups(q)

ssmProvisionerCommand(q, p) == Buildable(q, p)

AWSCall == Calls("aws") /\ request.source # "snapshot"
AWSValidCall == AWSCall /\ validateRemoteBuildSettings(request)

(* One of the Describe calls fails, which all of the steps make first.     *)
AWSReadFails == AWSCall /\ Error(cloud)

AWSRefuse ==
  /\ AWSCall /\ ~validateRemoteBuildSettings(request)
  /\ Terminal(cloud)

-----------------------------------------------------------------------------
(* A reference that names a build instance; that of a snapshot source is   *)
(* not one that can be parsed.                                             *)
parseAWSRemoteOperationRef(r) == ~r.direct

(* Cleanup.  Each outcome is the cloud it leaves and whether it succeeds.  *)

(* An AMI that is not there any more is an error of DescribeImages.  A     *)
(* snapshot cannot be deleted while its AMI is registered.                 *)
cleanupRemoteImage(c, i) ==
  IF c.image[i] = "none"
    THEN {Outcome(c, FALSE)}
    ELSE {Outcome(c, FALSE),
          Outcome([c EXCEPT !.image[i] = "none"], FALSE),
          Outcome([c EXCEPT !.image[i] = "none", !.snapshots = @ \ {i}], TRUE)}

TerminateInstances(c, s) == DeleteServer(c, s)

(* By the reference: the AMI, then the instance, whatever becomes of the   *)
(* AMI.                                                                    *)
cleanupRemoteBuild(c) ==
  UNION {{Outcome(vm.cloud, image.ok /\ vm.ok) :
            vm \in IF ref.vm # 0 THEN TerminateInstances(image.cloud, ref.vm)
                                 ELSE Skip(image.cloud)} :
         image \in IF ref.image # 0 THEN cleanupRemoteImage(c, ref.image)
                                    ELSE Skip(c)}

(* The AMI of the build by its name and tag; that of a snapshot source has *)
(* another name.                                                           *)
findExistingRemoteImage(c) == c.image[1] # "none" /\ request.source # "snapshot"

MutCleanupByBuildID(c) == Skip(c)

(* By the tags: the instances of the build that are alive, then its AMI.   *)
cleanupRemoteResourcesByBuildID(c) ==
  UNION {{Outcome(image.cloud, vm.ok /\ image.ok) :
            image \in IF findExistingRemoteImage(vm.cloud)
                        THEN cleanupRemoteImage(vm.cloud, 1)
                        ELSE Skip(vm.cloud)} :
         vm \in IF Live(c, 1) THEN TerminateInstances(c, 1) ELSE Skip(c)}

AWSCleanup ==
  /\ Cleans("aws")
  /\ IF ~parseAWSRemoteOperationRef(ref)
       THEN CleanupReturns(cloud, FALSE)
       ELSE \E byRef \in cleanupRemoteBuild(cloud) :
              \E byID \in cleanupRemoteResourcesByBuildID(byRef.cloud) :
                CleanupReturns(byID.cloud, byRef.ok /\ byID.ok)

failRemoteBuild(c) == \E o \in cleanupRemoteBuild(c) : Terminal(o.cloud)

-----------------------------------------------------------------------------
(* ReconcileRemoteBuild                                                    *)

AWSInstanceIs(states) ==
  /\ AWSValidCall /\ ref.image = 0 /\ ref.vm # 0
  /\ cloud.vm[ref.vm] \in states

(* The client token makes a repeated start find the first instance.        *)
startInstance ==
  /\ AWSValidCall /\ ref.image = 0 /\ ref.vm = 0
  /\ LET started == IF cloud.vm[1] = "none" THEN Created(1, "pending") ELSE cloud
     IN  \/ Answer(started, [NoRef EXCEPT !.vm = 1])
         \/ Error(cloud) \/ Error(started)

AWSWait ==
  /\ \/ AWSInstanceIs({"pending", "stopping"})
     \/ AWSInstanceIs({"running"}) /\ ~Provisioned      \* SSM is not ready yet
  /\ Answer(cloud, ref)

stopBuildInstance(r) ==
  LET stopped == [cloud EXCEPT !.vm[ref.vm] = "stopping"]
  IN  Answer(stopped, r) \/ Error(cloud) \/ Error(stopped)

AWSStop ==
  /\ AWSInstanceIs({"running"}) /\ Provisioned
  /\ stopBuildInstance(ref)

(* A command whose identifier is lost is sent again beside the first.      *)
startProvisionerCommand ==
  /\ AWSInstanceIs({"running"}) /\ ~Provisioned /\ ~ref.command
  /\ LET sent == [cloud EXCEPT !.command = "running"]
     IN  \/ /\ ssmProvisionerCommand(request, NextStep)
            /\ \/ Answer(sent, [ref EXCEPT !.command = TRUE])
               \/ failRemoteBuild(sent)
         \/ failRemoteBuild(cloud)

(* The index does not move while a command runs.                           *)
CommandEnds ==
  /\ kind = "aws" /\ cloud.command = "running"
  /\ \/ cloud' = [cloud EXCEPT !.command = "failed"]
     \/ /\ cloud.vm[1] = "running"
        /\ cloud' = [Ran(cloud, 1, ref.index + 1) EXCEPT !.command = "succeeded"]
  /\ UNCHANGED <<kind, request, ref, saved, mode>>

(* A command that has ended well moves the reference on; after the last    *)
(* one the instance is stopped in the same call.                           *)
reconcileProvisioning ==
  /\ AWSInstanceIs({"running"}) /\ ~Provisioned /\ ref.command
  /\ LET next == [ref EXCEPT !.index = @ + 1, !.command = FALSE]
     IN  \/ cloud.command = "running" /\ Answer(cloud, ref)
         \/ cloud.command = "failed" /\ failRemoteBuild(cloud)
         \/ /\ cloud.command = "succeeded"
            /\ IF next.index >= Len(request.steps)
                 THEN stopBuildInstance(next)
                 ELSE Answer(cloud, next)

MutCreateImage ==
  /\ AWSInstanceIs({"stopped"})
  /\ Answer([Captured(cloud, 1, "pending") EXCEPT !.snapshots = {1}],
            [ref EXCEPT !.image = 1])

(* The AMI is found again by its name and the tag of the build.            *)
createImage ==
  /\ AWSInstanceIs({"stopped"}) /\ Provisioned
  /\ LET made == IF findExistingRemoteImage(cloud) THEN cloud
                 ELSE [Captured(cloud, 1, "pending") EXCEPT !.snapshots = {1}]
     IN  \/ Answer(made, [ref EXCEPT !.image = 1])
         \/ failRemoteBuild(cloud) \/ failRemoteBuild(made)

AWSInstanceLost ==
  /\ \/ AWSInstanceIs({"stopped"}) /\ ~Provisioned
     \/ AWSInstanceIs({"none", "gone"})
  /\ failRemoteBuild(cloud)

(* The instance is terminated before the build is reported as done.        *)
reconcileImage ==
  /\ AWSValidCall /\ ref.image # 0
  /\ \/ /\ cloud.image[ref.image] = "available"
        /\ \E o \in TerminateInstances(cloud, ref.vm) :
             IF o.ok THEN Done(o.cloud, ref) ELSE Error(o.cloud)
     \/ cloud.image[ref.image] = "pending" /\ Answer(cloud, ref)
     \/ cloud.image[ref.image] = "failed" /\ failRemoteBuild(cloud)
     \/ cloud.image[ref.image] = "none" /\ Error(cloud)

(* A snapshot is registered as an AMI; an AMI of the build that exists is  *)
(* taken as it is, in whatever state.                                      *)
reconcileSnapshotImage ==
  /\ Calls("aws") /\ request.source = "snapshot"
  /\ IF request.steps # <<>> THEN Terminal(cloud)
     ELSE LET registered == [cloud EXCEPT !.image[1] = "available"]
          IN  \/ cloud.image[1] # "none" /\ Done(cloud, [NoRef EXCEPT !.direct = TRUE])
              \/ /\ cloud.image[1] = "none"
                 /\ \/ Done(registered, [NoRef EXCEPT !.direct = TRUE])
                    \/ \E state \in ImageStates :
                         Error([cloud EXCEPT !.image[1] = state])

AWSNext ==
  \/ AWSReadFails \/ AWSRefuse \/ startInstance \/ AWSWait \/ AWSStop \/ startProvisionerCommand
  \/ CommandEnds \/ reconcileProvisioning \/ createImage \/ AWSInstanceLost
  \/ reconcileImage \/ reconcileSnapshotImage \/ AWSCleanup
=============================================================================
