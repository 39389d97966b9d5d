----------------------------- MODULE UploadAzure -----------------------------
(***************************************************************************)
(* The Azure plugin's local images (plugins/azure/plugin.go,               *)
(* sdk_provider.go): a page blob, a managed image and, for the layout      *)
(* "gallery", a version of a compute gallery image.                        *)
(***************************************************************************)
EXTENDS UploadStream

(* The blob of a session is taken on trust: the offset is that of the      *)
(* saved token.  Without a token an existing blob is an error.  A blob     *)
(* that is gone is replaced by an empty one, to which the saved offset     *)
(* does not apply: that is right unless the answer is lost.                *)
preparePageBlobSession ==
  /\ At("azure", "prepare") /\ Reachable
  /\ IF cloud.object # Absent
       THEN IF saved.token = 0 THEN Fails(cloud)
            ELSE Prepared(cloud, saved.token, saved.offset)
       ELSE LET fresh == [cloud EXCEPT !.object = Zeroes, !.torn = {}]
            IN  \/ Accepted(fresh, 1, 0)
                \/ Fails([fresh EXCEPT !.torn =
                            IF saved.offset = 0 THEN {} ELSE {saved.token}])

MutUploadPages(offset) ==
  [i \in 1 .. Units |-> IF i \in offset + 1 .. offset + Count - 1
                          THEN Chunk[i - offset] ELSE cloud.object[i]]

(* The pages of one range.                                                 *)
UploadPages(offset) ==
  [i \in 1 .. Units |-> IF i \in offset + 1 .. offset + Count
                          THEN Chunk[i - offset] ELSE cloud.object[i]]

uploadPageBlobResume ==
  /\ At("azure", "send") /\ pod.offset < Units /\ Readable
  /\ IF cloud.object = Absent THEN Fails(cloud)
     ELSE LET c == [cloud EXCEPT !.object = UploadPages(pod.offset)]
          IN  Stored(c, pod.offset + Count, Window) \/ Fails(c)

AzureUploaded ==
  /\ At("azure", "send") /\ pod.offset = Units
  /\ Finished(cloud, Window)

-----------------------------------------------------------------------------
(* c with this version, image and blob.                                    *)
Leaves(c, version, image, object) ==
  [c EXCEPT !.version = version, !.image = image, !.object = object]

(* What deletions, each of which may fail, can leave of c.                 *)
CleanupBlobImage(c, blobKnown) ==
  {Leaves(c, v, i, o) :
     v \in {c.version, FALSE}, i \in {c.image, Absent},
     o \in {c.object} \cup (IF blobKnown THEN {Absent} ELSE {})}

(* CreateOrUpdate of the image, and of the version.                        *)
RegisterImage == [cloud EXCEPT !.image = cloud.object]
publishGalleryVersion == [RegisterImage EXCEPT !.version = layout = "gallery"]

(* The metadata of the upload names the blob, but an external provider may *)
(* have forgotten it.                                                      *)
BlobNamed == via = "plugin" \/ server.cache

(* A failure deletes what there is, the blob too if its name is known; a   *)
(* Pod that is lost leaves it.                                             *)
AzureRegister ==
  /\ At("azure", "register") /\ Reachable
  /\ LET left == {cloud} \cup (IF cloud.object = Absent THEN {}
                               ELSE {RegisterImage, publishGalleryVersion})
     IN  \/ \E l \in left : \E c \in CleanupBlobImage(l, BlobNamed) : Fails(c)
         \/ cloud.object # Absent /\ Registered(publishGalleryVersion, FALSE)

(* The version is known once the image is recorded, the image and the blob *)
(* once the upload is.  What is not there counts as deleted.               *)
AzureCleanup ==
  /\ Cleaning("azure") /\ via = "plugin"
  /\ IF Recorded = "none" THEN CleanupReturns(cloud, TRUE, TRUE)
     ELSE LET v(c) == Recorded = "registered" /\ c.version
          IN  \E c \in CleanupBlobImage(cloud, TRUE) :
                /\ Recorded = "uploaded" => c.version = cloud.version
                /\ CleanupReturns(c, ~v(c) /\ c.image = Absent /\ c.object = Absent, TRUE)

(* An external provider knows the image and the blob of a cached upload,   *)
(* and nothing of any other.                                               *)
AzureDeleteArtifact ==
  /\ Cleaning("azure") /\ via = "grpc"
  /\ IF ~Cached THEN CleanupReturns(cloud, TRUE, FALSE)
     ELSE \E c \in CleanupBlobImage(cloud, TRUE) :
            /\ c.version = cloud.version
            /\ LET ok == c.image = Absent /\ c.object = Absent
               IN  CleanupReturns(c, ok, ~ok)

AzureUploads == uploadPageBlobResume \/ AzureUploaded

(* The operations of the plugin, and of SDKProvider around it.             *)
AzureNext ==
  \/ preparePageBlobSession \/ uploadPageBlobResume \/ AzureUploaded
  \/ AzureRegister \/ AzureCleanup \/ AzureDeleteArtifact
=============================================================================
