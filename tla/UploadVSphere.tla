---------------------------- MODULE UploadVSphere ----------------------------
(***************************************************************************)
(* The vSphere plugin's local images (plugins/vsphere/plugin.go,           *)
(* sdk_provider.go).  The object is the file on the datastore.  It is the  *)
(* image itself for "vmdk"; "ova" is imported as a template and "library"  *)
(* published as an item of a content library, both from the local archive. *)
(***************************************************************************)
EXTENDS UploadStream

VSpherePrepare ==
  /\ At("vsphere", "prepare") /\ Reachable
  /\ Prepared(cloud, 1, 0)

(* The file is overwritten.                                                *)
UploadDatastoreFile ==
  /\ At("vsphere", "send") /\ BodyRead
  /\ LET c == [cloud EXCEPT !.object = Artifact]
     IN  Finished(c, Window) \/ Fails(c)

(* A part of the file may be there; the uploader then asks the plugin to   *)
(* clean up, and an external one has no reference to do so.                *)
UploadDatastoreFileFails ==
  /\ At("vsphere", "send")
  /\ Fails([cloud EXCEPT !.object = IF via = "plugin" THEN Absent ELSE Broken])

-----------------------------------------------------------------------------
(* The local archive: on the workspace, or the spooled file of the         *)
(* external provider.                                                      *)
ArtifactPathKnown == via = "plugin" \/ server.cache

(* After an error the file is deleted, if it can be.                       *)
RegisterFails(c) ==
  \/ Fails(c)
  \/ ArtifactPathKnown /\ Fails([c EXCEPT !.object = Absent])

(* A template may be left when marking it fails.                           *)
importOVF ==
  LET made == [cloud EXCEPT !.image = Artifact]
  IN  ArtifactPathKnown /\ (Registered(made, FALSE) \/ RegisterFails(made))

(* An item is created before its content is uploaded.                      *)
publishContentLibraryItem ==
  \/ importOVF
  \/ ArtifactPathKnown /\ RegisterFails([cloud EXCEPT !.image = Broken])

(* A disk file is not looked at.  A VM or an item with the marker of the   *)
(* registration is taken as it is.                                         *)
VSphereRegister ==
  /\ At("vsphere", "register") /\ Reachable
  /\ CASE layout = "vmdk" -> Registered([cloud EXCEPT !.image = cloud.object], FALSE)
       [] layout # "vmdk" /\ cloud.image # Absent ->
            Registered(cloud, FALSE) \/ RegisterFails(cloud)
       [] OTHER -> \/ RegisterFails(cloud)
                   \/ layout = "ova" /\ importOVF
                   \/ layout = "library" /\ publishContentLibraryItem

(* The file is deleted by its path; one that is not there is an error.     *)
(* Templates and items stay.  An external provider that has forgotten the  *)
(* upload asks for a path that names no file.                              *)
VSphereCleanup ==
  /\ Cleaning("vsphere")
  /\ LET deleted == [cloud EXCEPT !.object = Absent,
                                  !.image = IF layout = "vmdk" THEN Absent ELSE @]
     IN  CASE via = "grpc" /\ Recorded = "none" -> CleanupReturns(cloud, TRUE, TRUE)
           [] via = "grpc" /\ Recorded # "none" /\ ~Cached -> CleanupReturns(cloud, FALSE, TRUE)
           [] OTHER -> \/ CleanupReturns(cloud, FALSE, TRUE)
                       \/ cloud.object # Absent /\ CleanupReturns(deleted, TRUE, FALSE)

VSphereUploads == UploadDatastoreFile

(* The operations of the plugin, and of SDKProvider around it.             *)
VSphereNext ==
  \/ VSpherePrepare \/ UploadDatastoreFile \/ UploadDatastoreFileFails
  \/ VSphereRegister \/ VSphereCleanup
=============================================================================
