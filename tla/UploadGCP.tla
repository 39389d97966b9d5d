------------------------------ MODULE UploadGCP ------------------------------
(***************************************************************************)
(* The GCP plugin's local images (plugins/gcp/plugin.go, sdk_provider.go): *)
(* a resumable upload to GCS and a custom image.  A session that has       *)
(* completed still answers a query, with the size of the object.           *)
(***************************************************************************)
EXTENDS UploadStream

(* An expired session, or one that is six days old, is replaced.           *)
prepareGCSResumeSession ==
  /\ At("gcp", "prepare") /\ Reachable
  /\ \/ /\ saved.token \in cloud.open
        /\ Prepared(cloud, saved.token, Len(cloud.parts[saved.token]))
     \/ /\ saved.token \notin cloud.open /\ cloud.last < MaxTokens
        /\ LET t == cloud.last + 1
           IN  Prepared([cloud EXCEPT !.open = @ \cup {t}, !.last = t], t, 0)

(* How many units of a chunk GCS commits, as its Range header says.        *)
gcsRangeOffset == 1 .. Count

(* A chunk, of which GCS commits n units.  The reader goes on behind the   *)
(* whole chunk all the same, so that the next chunk of this Pod is out of  *)
(* place.  The last unit makes the object.                                 *)
uploadGCSResume ==
  /\ At("gcp", "send") /\ pod.offset < Units
  /\ IF BodyEnds \/ pod.token \notin cloud.open THEN Fails(cloud)
     ELSE /\ Readable
          /\ \E n \in gcsRangeOffset :
               LET parts == SubSeq(cloud.parts[pod.token], 1, pod.offset) \o SubSeq(Chunk, 1, n)
                   c == [cloud EXCEPT !.parts[pod.token] = parts,
                                      !.torn = IF pod.pos = pod.offset THEN @
                                               ELSE @ \cup {pod.token},
                                      !.object = IF Len(parts) = Units THEN parts ELSE @]
               IN  Stored(c, pod.offset + n, Window) \/ Fails(c)

GCPUploaded ==
  /\ At("gcp", "send") /\ pod.offset = Units
  /\ Finished(cloud, Window)

-----------------------------------------------------------------------------
(* An image of the same name and identity is waited for.                   *)
createImage == [cloud EXCEPT !.image = IF @ = Absent THEN cloud.object ELSE @]

(* The object goes when the image is ready, if it can be deleted and is    *)
(* not to be kept.                                                         *)
GCPRegister ==
  /\ At("gcp", "register") /\ Reachable
  /\ LET made == createImage
     IN  \/ Fails(cloud) \/ Fails(made)
         \/ /\ made.image # Absent
            /\ \/ Registered(made, FALSE)
               \/ Registered([made EXCEPT !.object = Absent], FALSE)
               \/ Fails([made EXCEPT !.object = Absent])

MutGCPCleanup ==
  /\ Cleaning("gcp") /\ via = "plugin"
  /\ \E image \in {cloud.image} \cup (IF Recorded = "registered" THEN {Absent} ELSE {}),
        object \in {cloud.object} \cup (IF Recorded # "none" THEN {Absent} ELSE {}) :
       CleanupReturns([cloud EXCEPT !.image = image, !.object = object],
                      Recorded # "none" => object = Absent, TRUE)

(* What is not there counts as deleted.                                    *)
GCPCleanup ==
  /\ Cleaning("gcp") /\ via = "plugin"
  /\ \E image \in {cloud.image} \cup (IF Recorded = "registered" THEN {Absent} ELSE {}),
        object \in {cloud.object} \cup (IF Recorded # "none" THEN {Absent} ELSE {}) :
       CleanupReturns([cloud EXCEPT !.image = image, !.object = object],
         /\ Recorded = "registered" => image = Absent
         /\ Recorded # "none" => object = Absent,
         TRUE)

(* The reference names the object; the image is not known.                 *)
GCPDeleteArtifact ==
  /\ Cleaning("gcp") /\ via = "grpc"
  /\ \/ Recorded = "none" /\ CleanupReturns(cloud, TRUE, TRUE)
     \/ Recorded # "none" /\ CleanupReturns([cloud EXCEPT !.object = Absent], TRUE, FALSE)
     \/ Recorded # "none" /\ CleanupReturns(cloud, FALSE, TRUE)

GCPUploads == uploadGCSResume \/ GCPUploaded

(* The operations of the plugin, and of SDKProvider around it.             *)
GCPNext ==
  \/ prepareGCSResumeSession \/ uploadGCSResume \/ GCPUploaded
  \/ GCPRegister \/ GCPCleanup \/ GCPDeleteArtifact
=============================================================================
