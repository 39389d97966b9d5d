---------------------------- MODULE RemoteClients ----------------------------
(***************************************************************************)
(* The five providers' clients under one controller.  A behaviour is one   *)
(* build of one of them.                                                   *)
(***************************************************************************)
EXTENDS RemoteAWS, RemoteAzure, RemoteOpenStack, RemoteVSphere, RemoteGCP

CloudMoves == ServerMoves \/ ImageSettles

Cleanup ==
  AWSCleanup \/ AzureCleanup \/ OpenStackCleanup \/ VSphereCleanup \/ GCPCleanup

Next ==
  \/ AWSNext \/ AzureNext \/ OpenStackNext \/ VSphereNext \/ GCPNext
  \/ CloudMoves \/ StartCleanup

(* The finalizer requeues until cleanup succeeds, and a platform that can  *)
(* carry a deletion out does not refuse it forever.                        *)
Spec ==
  /\ Init /\ [][Next]_vars
  /\ SF_vars(Cleanup /\ mode' = "cleaned")

-----------------------------------------------------------------------------
(* An image is never made of a server on which a provisioner has yet to    *)
(* run, nor, on Azure, before the required evidence has passed, whichever  *)
(* answers were lost and whichever commands were repeated                  *)
(* (reconcileProvisioning, runAzureProvisioner, runOpenStackProvisioner,   *)
(* runVSphereProvisioner).                                                 *)
CapturesProvisioned ==
  \A s \in cloud.captured :
    /\ Steps \subseteq cloud.ran[s]
    /\ kind = "azure" /\ request.evidence => ref.evidence = "passed"

(* A build is reported as ready when its image can be used and its build   *)
(* server is gone (reconcileImage, finishRemoteBuildVM, GetImage); on      *)
(* vSphere, where the VM is the image, when the template is switched off.  *)
(* AWS takes an AMI of a snapshot in any state, and without MarkAsTemplate *)
(* vSphere may report a VM that runs or is gone (finishRemoteVM): these    *)
(* two are left out.                                                       *)
ReadyIsComplete ==
  mode = "ready" =>
    IF kind = "vsphere"
      THEN request.settings.template => cloud.vm[ref.vm] = "stopped"
      ELSE \/ kind = "aws" /\ ref.direct
           \/ /\ cloud.image[IF ref.direct THEN 1 ELSE ref.image] = "available"
              /\ ref.vm # 0 => ~Live(cloud, ref.vm)

(* What a successful cleanup guarantees although calls failed after their  *)
(* effect and references were lost.  AWS and Azure find the resources by   *)
(* the build ID (cleanupRemoteResourcesByBuildID, azureRemoteVMName);      *)
(* OpenStack and GCP only those that the saved reference names.            *)
CleanedUp ==
  mode = "cleaned" =>
    CASE kind = "aws" -> /\ \A s \in Servers : ~Live(cloud, s)
                         /\ request.source # "snapshot" => cloud.image[1] = "none"
      [] kind = "azure" -> ~cloud.disk /\ \A s \in Servers : ~Live(cloud, s)
      [] kind = "openstack" -> saved.vm # 0 => ~Live(cloud, saved.vm)
      [] kind = "gcp" -> saved.image # 0 => cloud.image[1] = "none"
      [] kind = "vsphere" -> TRUE

(* A VMImage that is being deleted, or whose build timed out, is cleaned   *)
(* up in the end by every provider but AWS.                                *)
OthersConclude == (mode = "cleaning" /\ kind # "aws") ~> (mode = "cleaned")

(* The same of every provider, as the provider contract asks.  The code    *)
(* does not keep this (README): a half-finished AWS cleanup fails for ever. *)
CleanupConcludes == (mode = "cleaning") ~> (mode = "cleaned")
=============================================================================
