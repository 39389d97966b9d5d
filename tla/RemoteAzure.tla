----------------------------- MODULE RemoteAzure -----------------------------
(***************************************************************************)
(* The Azure client (plugins/azure/remote_client.go): an OS disk copied    *)
(* from the source, a VM under a name made of the build ID, Run Command    *)
(* provisioners, and an image registered from the deallocated VM.  Each    *)
(* call waits for the long-running operations that it starts.  A snapshot  *)
(* or disk without provisioners is registered directly.  The client's      *)
(* answer to a reference with an image is left out here and in the other   *)
(* modules: such a reference comes with Done, and then no call follows.    *)
(***************************************************************************)
EXTENDS RemoteClient

validateMarketplaceRef(q) == q.source = "marketplace" => q.sourceFits

azureRemoteRequiresNetwork(q) ==
  q.source = "marketplace" \/ q.steps # <<>> \/ q.ssh

AzureSettings(q) ==
  /\ azureRemoteRequiresNetwork(q) => q.settings.network
  /\ q.evidence => q.settings.identity

(* An evidence step is the last one, and needs an evidence policy.         *)
validateAzureRemoteProvisioners(q) ==
  /\ AdmittedTypes(q, {"shell", "powershell", "file", "evidence"})
  /\ \A i \in DOMAIN q.steps :
       q.steps[i].type = "evidence" => i = Len(q.steps) /\ q.evidence

azureRunCommand(q, p) ==
  /\ Buildable(q, p)
  /\ p.type = "evidence" => q.family \in {"linux", "windows"}

AzureDirect(q) == q.steps = <<>> /\ q.source # "marketplace"

AzureAccepts(q) ==
  /\ q.source \in {"snapshot", "disk", "marketplace"}
  /\ validateMarketplaceRef(q)
  /\ ~AzureDirect(q) => validateAzureRemoteProvisioners(q) /\ AzureSettings(q)

AzureCall == Calls("azure") /\ AzureAccepts(request) /\ ~AzureDirect(request)

AzureRefuse ==
  /\ Calls("azure") /\ ~AzureAccepts(request)
  /\ Terminal(cloud)

-----------------------------------------------------------------------------
MutCleanupAzure(c) ==
  {Outcome([o.cloud EXCEPT !.disk = FALSE], o.ok /\ Live(c, 1)) : o \in DeleteServer(c, 1)}

(* The VM, then the disk, which cannot go while the VM has it.  What is    *)
(* not there counts as deleted.  A marketplace VM takes its disk with it.  *)
cleanupAzureRemoteResources(c) ==
  {Outcome(c, FALSE)}
    \cup UNION {{Outcome(vm.cloud, ~c.disk),
                 Outcome([vm.cloud EXCEPT !.disk = FALSE], TRUE)} :
                vm \in {o \in DeleteServer(c, 1) : o.ok}}

(* The plugin cleans a direct registration by deleting the image, and      *)
(* every other build by the names of the VM and the disk.                  *)
AzureCleanup ==
  /\ Cleans("azure")
  /\ \E o \in IF AzureDirect(request)
                THEN {Outcome(cloud, FALSE),
                      Outcome([cloud EXCEPT !.image[1] = "none"], TRUE)}
                ELSE cleanupAzureRemoteResources(cloud) :
       CleanupReturns(o.cloud, o.ok)

-----------------------------------------------------------------------------
(* The disk is left behind when its creation is answered with an error.    *)
createRemoteOSDisk == [cloud EXCEPT !.disk = request.source # "marketplace"]

(* The VM is named after the build, so that every call finds it.           *)
AzureRef == [NoRef EXCEPT !.vm = 1]

(* Creating a VM that exists updates it.                                   *)
startRemoteBuildVM ==
  /\ AzureCall /\ ref.vm = 0 /\ ref.image = 0
  /\ LET withDisk == createRemoteOSDisk
         withVM == IF Live(withDisk, 1) THEN withDisk
                   ELSE [withDisk EXCEPT !.vm[1] = "running", !.ran[1] = {}]
     IN  \/ Error(cloud) \/ Error(withDisk)
         \/ ErrorAfter(cleanupAzureRemoteResources(withDisk))
         \/ ErrorAfter(cleanupAzureRemoteResources(withVM))
         \/ Answer(withVM, AzureRef)

(* What the evidence step may report; no report is an error.               *)
EvidenceResults == {"passed", "failed"}

(* One provisioner to its end.  A failed command, or evidence that is not  *)
(* returned, is an error.                                                  *)
runAzureProvisioner ==
  /\ AzureCall /\ ref.vm # 0 /\ ref.image = 0 /\ ~Provisioned
  /\ LET ran == Ran(cloud, 1, ref.index + 1)
         next == [ref EXCEPT !.index = @ + 1]
     IN  \/ ErrorAfter(cleanupAzureRemoteResources(cloud))
         \/ /\ azureRunCommand(request, NextStep) /\ cloud.vm[1] = "running"
            /\ \/ ErrorAfter(cleanupAzureRemoteResources(ran))
               \/ IF NextStep.type = "evidence"
                    THEN \E e \in EvidenceResults :
                           Answer(ran, [next EXCEPT !.evidence = e])
                    ELSE Answer(ran, next)

(* Required evidence has passed, with digests in the policy's registry.    *)
validateAzureEvidence(r) == request.evidence => r.evidence = "passed"

(* Deallocated, generalised, registered, and cleaned up.  When cleaning up *)
(* fails the answer is an error that does not tell of the image.           *)
finishRemoteBuildVM ==
  /\ AzureCall /\ ref.vm # 0 /\ ref.image = 0 /\ Provisioned
  /\ LET stopped == [cloud EXCEPT !.vm[1] = "stopped"]
         registered == Captured(stopped, 1, "available")
     IN  \/ ErrorAfter(cleanupAzureRemoteResources(cloud))
         \/ /\ validateAzureEvidence(ref) /\ Live(cloud, 1)
            /\ \/ \E c \in {stopped, registered, Captured(stopped, 1, "failed")} :
                    ErrorAfter(cleanupAzureRemoteResources(c))
               \/ \E o \in cleanupAzureRemoteResources(registered) :
                    IF o.ok THEN Done(o.cloud, [ref EXCEPT !.image = 1])
                            ELSE Error(o.cloud)

AzureRegisterDirect ==
  /\ Calls("azure") /\ AzureAccepts(request) /\ AzureDirect(request)
  /\ LET registered == [cloud EXCEPT !.image[1] = "available"]
     IN  \/ Error(cloud) \/ Error(registered)
         \/ Done(registered, [NoRef EXCEPT !.direct = TRUE])

AzureNext ==
  \/ AzureRefuse \/ startRemoteBuildVM \/ runAzureProvisioner
  \/ finishRemoteBuildVM \/ AzureRegisterDirect \/ AzureCleanup
=============================================================================
