--------------------------- MODULE UploadOpenStack ---------------------------
(***************************************************************************)
(* The OpenStack plugin's local images (plugins/openstack/plugin.go,       *)
(* gophercloud_client.go, sdk_provider.go).  The object is the Glance      *)
(* image that the provider reference names; each attempt makes a new one,  *)
(* and "stale" says that an earlier one is left.                           *)
(***************************************************************************)
EXTENDS UploadStream

OpenStackPrepare ==
  /\ At("openstack", "prepare") /\ Reachable
  /\ Prepared(cloud, 1, 0)

(* Created, filled and waited for.  After an error the image is deleted if *)
(* it can be.                                                              *)
UploadImage ==
  /\ At("openstack", "send") /\ BodyRead
  /\ LET c == [cloud EXCEPT !.object = Artifact, !.stale = @ \/ cloud.object # Absent]
     IN  Finished(c, Window) \/ Fails(c)

UploadImageFails ==
  /\ At("openstack", "send")
  /\ Fails([cloud EXCEPT !.stale = TRUE])

(* The image is waited for once more.                                      *)
OpenStackRegister ==
  /\ At("openstack", "register") /\ Reachable
  /\ cloud.object # Absent
  /\ Registered([cloud EXCEPT !.image = cloud.object], FALSE)

(* The reference is the image's ID, so the cache is not needed.            *)
OpenStackCleanup ==
  /\ Cleaning("openstack")
  /\ \/ Recorded = "none" /\ CleanupReturns(cloud, TRUE, TRUE)
     \/ /\ Recorded # "none"
        /\ \/ CleanupReturns([cloud EXCEPT !.object = Absent, !.image = Absent], TRUE, FALSE)
           \/ CleanupReturns(cloud, FALSE, TRUE)

OpenStackUploads == UploadImage

(* The operations of the plugin, and of SDKProvider around it.             *)
OpenStackNext ==
  \/ OpenStackPrepare \/ UploadImage \/ UploadImageFails
  \/ OpenStackRegister \/ OpenStackCleanup
=============================================================================
