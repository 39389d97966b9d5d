------------------------------ MODULE UploadAWS ------------------------------
(***************************************************************************)
(* The AWS plugin's local images (plugins/aws/plugin.go, sdk_provider.go): *)
(* a multipart upload to S3, an imported snapshot, and an AMI.  A part of  *)
(* the upload has ChunkUnits units; ListParts tells how many are stored.   *)
(***************************************************************************)
EXTENDS UploadStream

(* An upload that S3 still has goes on after its last part.  Any other,    *)
(* a completed one too, is replaced by a fresh one.  A token whose offset  *)
(* is not that of a whole part is refused: the token that was checkpointed *)
(* after a last part which is shorter.                                     *)
prepareMultipartSession ==
  /\ At("aws", "prepare") /\ Reachable
  /\ \/ saved.offset % ChunkUnits # 0 /\ Fails(cloud)
     \/ /\ saved.offset % ChunkUnits = 0 /\ saved.token \in cloud.open
        /\ Prepared(cloud, saved.token, Len(cloud.parts[saved.token]))
     \/ /\ saved.offset % ChunkUnits = 0 /\ saved.token \notin cloud.open
        /\ cloud.last < MaxTokens
        /\ LET t == cloud.last + 1
           IN  Prepared([cloud EXCEPT !.open = @ \cup {t}, !.last = t], t, 0)

(* UploadPart, and the checkpoint after it.                                *)
uploadMultipartResume ==
  /\ At("aws", "send") /\ pod.offset < Units /\ Readable
  /\ IF pod.token \in cloud.open
       THEN LET c == [cloud EXCEPT !.parts[pod.token] = SubSeq(@, 1, pod.offset) \o Chunk]
            IN  Stored(c, pod.offset + Count, Window) \/ Fails(c)
       ELSE Fails(cloud)

completeMultipartUpload ==
  /\ At("aws", "send") /\ pod.offset = Units
  /\ IF pod.token \in cloud.open
       THEN LET c == [cloud EXCEPT !.open = @ \ {pod.token}, !.object = cloud.parts[pod.token]]
            IN  Finished(c, Window) \/ Fails(c)
       ELSE Fails(cloud)

-----------------------------------------------------------------------------
(* What deletions, each of which may fail, can leave of c.  A snapshot     *)
(* cannot go while an AMI uses it.                                         *)
CleanupLocalImage(c) ==
  {l \in {[c EXCEPT !.image = i, !.snapshot = s, !.object = o] :
            i \in {c.image, Absent}, s \in {c.snapshot, Absent}, o \in {c.object, Absent}} :
     l.image # Absent => l.snapshot = c.snapshot}

(* Importing again with the client token of the build gives the snapshot   *)
(* that was imported before.                                               *)
importSnapshot ==
  [cloud EXCEPT !.snapshot = IF @ = Absent THEN cloud.object ELSE @]

registerImage == [importSnapshot EXCEPT !.image = importSnapshot.snapshot]

(* An AMI with the build's name and tags is taken as it is.  A failure     *)
(* deletes what there is, the uploaded object too; success deletes the     *)
(* object, if it can be.  A Pod that is lost leaves everything.            *)
RegisterAMI ==
  LET found == cloud.image # Absent
      importable == found \/ importSnapshot.snapshot # Absent
      done == IF found THEN cloud ELSE registerImage
  IN  \/ \E c \in CleanupLocalImage(cloud) : Fails(c)
      \/ /\ importable /\ ~found
         /\ \E c \in CleanupLocalImage(importSnapshot) \cup CleanupLocalImage(done) : Fails(c)
      \/ /\ importable
         /\ Registered([done EXCEPT !.object = Absent], TRUE) \/ Registered(done, TRUE)

(* The metadata of the upload names bucket and key, but an external        *)
(* provider may have forgotten it.                                         *)
BucketNamed == via = "plugin" \/ server.cache

AWSRegister ==
  /\ At("aws", "register") /\ Reachable
  /\ IF BucketNamed THEN RegisterAMI ELSE Fails(cloud)

-----------------------------------------------------------------------------
(* Without a record the bucket and the key are known, the image is not.    *)
(* The snapshot stays.  A recorded AMI that is gone already is an error.   *)
AWSCleanup ==
  /\ Cleaning("aws") /\ via = "plugin"
  /\ \E image \in {cloud.image} \cup (IF Recorded = "none" THEN {} ELSE {Absent}),
        object \in {cloud.object, Absent} :
       CleanupReturns([cloud EXCEPT !.image = image, !.object = object],
         /\ object = Absent
         /\ Recorded # "none" => image = Absent
         /\ Recorded = "registered" => cloud.image # Absent,
         TRUE)

(* An external provider aborts the multipart upload of the cached session, *)
(* which is completed: an error.  Without the cache there is no bucket.    *)
AWSDeleteArtifact ==
  /\ Cleaning("aws") /\ via = "grpc"
  /\ CleanupReturns(cloud, ~Cached, TRUE)

AWSUploads == uploadMultipartResume \/ completeMultipartUpload

(* The operations of the plugin, and of SDKProvider around it.             *)
AWSNext ==
  \/ prepareMultipartSession \/ uploadMultipartResume \/ completeMultipartUpload
  \/ AWSRegister \/ AWSCleanup \/ AWSDeleteArtifact
=============================================================================
