------------------------------ MODULE RemoteGCP ------------------------------
(***************************************************************************)
(* The GCP plugin (plugins/gcp/plugin.go) makes an image of an image or a  *)
(* snapshot, without a server.  The request carries an identifier made of  *)
(* the build ID, and an image that exists must carry the build's labels.   *)
(***************************************************************************)
EXTENDS RemoteClient

GCPAccepts(q) ==
  /\ q.steps = <<>> /\ ~q.ssh
  /\ q.source \in {"image", "marketplace", "snapshot"}
  /\ q.source = "marketplace" => q.sourceFits

GCPRefuse ==
  /\ Calls("gcp") /\ ~GCPAccepts(request)
  /\ Terminal(cloud)

MutCreateImageFromSource ==
  /\ Calls("gcp") /\ GCPAccepts(request)
  /\ Done([cloud EXCEPT !.image[1] = "pending"], [NoRef EXCEPT !.image = 1])

(* GetImage waits for READY or FAILED.                                     *)
CreateImageFromSource ==
  /\ Calls("gcp") /\ GCPAccepts(request)
  /\ \E state \in IF cloud.image[1] = "none" THEN {"pending", "available", "failed"}
                                             ELSE {cloud.image[1]} :
       LET made == [cloud EXCEPT !.image[1] = state]
       IN  \/ state = "available" /\ Done(made, [NoRef EXCEPT !.image = 1])
           \/ Error(made)
           \/ Error(cloud)

(* Without a reference nothing is deleted.                                 *)
GCPCleanup ==
  /\ Cleans("gcp")
  /\ IF ref.image = 0
       THEN CleanupReturns(cloud, TRUE)
       ELSE \/ CleanupReturns(cloud, FALSE)
            \/ CleanupReturns([cloud EXCEPT !.image[1] = "none"], TRUE)

GCPNext == GCPRefuse \/ CreateImageFromSource \/ GCPCleanup
=============================================================================
