---------------------------- MODULE RemoteVSphere ----------------------------
(***************************************************************************)
(* The vSphere client (plugins/vsphere/remote_client.go): the source is    *)
(* cloned, or deployed from a content library, under the name of the       *)
(* image; guest programs provision it; and the VM itself, shut down, is    *)
(* the image.                                                              *)
(***************************************************************************)
EXTENDS RemoteClient

(* The first of the configured and the usual names that is there.          *)
resolveMarketplaceSourceRef(q) == q.source = "marketplace" => q.sourceFits

validateVSphereRemoteProvisioners(q) ==
  AdmittedTypes(q, {"shell", "powershell", "file"})

validateVSphereRemoteNetwork(q) == q.ssh => q.settings.network

VSphereAccepts(q) ==
  /\ resolveMarketplaceSourceRef(q)
  /\ validateVSphereRemoteProvisioners(q) /\ validateVSphereRemoteNetwork(q)

VSphereCall == Calls("vsphere") /\ VSphereAccepts(request) /\ ref.image = 0

VSphereRefuse ==
  /\ Calls("vsphere") /\ ~VSphereAccepts(request)
  /\ Terminal(cloud)

(* A program, and the guest's user and password.                           *)
vsphereGuestProgram(q, p) == Buildable(q, p) /\ q.settings.key

-----------------------------------------------------------------------------
(* A destroy that is refused is not an error; one whose task fails is.     *)
cleanupVSphereRemoteVM(c, s) ==
  IF s = 0 THEN Skip(c) ELSE DeleteServer(c, s) \cup Skip(c)

(* Without a reference the VM is looked for under a name made of the build *)
(* ID, which is not the name of the image that it was cloned under.        *)
VSphereCleanup ==
  /\ Cleans("vsphere")
  /\ \E o \in cleanupVSphereRemoteVM(cloud, ref.vm) : CleanupReturns(o.cloud, o.ok)

-----------------------------------------------------------------------------
VSphereRef == [NoRef EXCEPT !.vm = 1]

(* A library item that fails to deploy is deleted, and so is a VM that     *)
(* gets no network card; a clone that the client stops waiting for is not. *)
deployRemoteLibrarySource(c) ==
  request.source = "library" /\ ErrorAfter(cleanupVSphereRemoteVM(c, 1))
ensureVSphereRemoteNIC(c) ==
  request.ssh /\ ErrorAfter(cleanupVSphereRemoteVM(c, 1))

(* A second VM of the same name is refused; for a library item the first   *)
(* one is deleted then, as if it were the failed deployment.               *)
cloneRemoteSource ==
  /\ VSphereCall /\ ref.vm = 0
  /\ LET cloned == Created(1, "stopped")
     IN  \/ Error(cloud)
         \/ /\ Live(cloud, 1)
            /\ \/ request.source # "library" /\ Terminal(cloud)
               \/ deployRemoteLibrarySource(cloud)
         \/ /\ ~Live(cloud, 1)
            /\ \/ Answer(cloned, VSphereRef)
               \/ request.source # "library" /\ Error(cloned)
               \/ deployRemoteLibrarySource(cloned)
               \/ ensureVSphereRemoteNIC(cloned)

(* Powered on, and VMware Tools answer.                                    *)
ensureRemoteVMReady == [cloud EXCEPT !.vm[ref.vm] = "running"]

(* A VM that does not get ready is left, one whose program fails deleted.  *)
runVSphereProvisioner ==
  /\ VSphereCall /\ ref.vm # 0 /\ ~Provisioned
  /\ LET ready == ensureRemoteVMReady
         ran == Ran(ready, ref.vm, ref.index + 1)
     IN  \/ Error(cloud)
         \/ /\ Live(cloud, ref.vm)
            /\ \/ Error(ready)
               \/ ErrorAfter(cleanupVSphereRemoteVM(ready, ref.vm))
               \/ /\ vsphereGuestProgram(request, NextStep)
                  /\ \/ ErrorAfter(cleanupVSphereRemoteVM(ran, ref.vm))
                     \/ Answer(ran, [ref EXCEPT !.index = @ + 1])

(* A power state that cannot be read leaves the VM as it is, running or    *)
(* gone; marking it as a template would tell.                              *)
finishRemoteVM ==
  /\ VSphereCall /\ ref.vm # 0 /\ Provisioned
  /\ LET off == [cloud EXCEPT !.vm[ref.vm] = "stopped"]
         done == [ref EXCEPT !.image = ref.vm]
         taken(c) == [c EXCEPT !.captured = @ \cup {ref.vm}]
     IN  \/ ErrorAfter(cleanupVSphereRemoteVM(cloud, ref.vm))
         \/ /\ Live(cloud, ref.vm)
            /\ \/ Done(taken(off), done)
               \/ ErrorAfter(cleanupVSphereRemoteVM(off, ref.vm))
         \/ ~request.settings.template /\ Done(taken(cloud), done)

VSphereNext ==
  \/ VSphereRefuse \/ cloneRemoteSource \/ runVSphereProvisioner
  \/ finishRemoteVM \/ VSphereCleanup
=============================================================================
