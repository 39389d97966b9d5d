--------------------------- MODULE PlatformUpload ---------------------------
(***************************************************************************)
(* The five plugins' uploads, linked in or external, under the Pods of one *)
(* upload Job and the cleanup Job after it.                                *)
(***************************************************************************)
EXTENDS UploadAWS, UploadAzure, UploadGCP, UploadOpenStack, UploadVSphere

(* Lifecycle rules or an operator remove what an unfinished upload has     *)
(* stored: a multipart upload, a resumable session, a staging blob.        *)
UploadExpires ==
  /\ Offset(kind) /\ job = "active"
  /\ \/ /\ kind # "azure"
        /\ \E t \in cloud.open : cloud' = [cloud EXCEPT !.open = @ \ {t}]
     \/ /\ kind = "azure" /\ cloud.object # Absent /\ saved.phase = "uploading"
        /\ cloud' = [cloud EXCEPT !.object = Absent]
  /\ UNCHANGED <<kind, via, layout, saved, ops, job, pod, wire, server>>

Plugins == AWSNext \/ AzureNext \/ GCPNext \/ OpenStackNext \/ VSphereNext

Done == job = "cleaned" /\ UNCHANGED vars

Next ==
  \/ StartPod \/ PodDies \/ StreamNext \/ Plugins
  \/ WriteUploaded \/ Record \/ RecordFails \/ WriteRegistered \/ RecordImage
  \/ UploadExpires \/ StartCleanup \/ Done

(* The sender, the provider and the receiver of a stream are goroutines:   *)
(* one that can go on does.                                                *)
Attempt ==
  Streams \/ AWSUploads \/ AzureUploads \/ GCPUploads \/ OpenStackUploads \/ VSphereUploads

Spec == Init /\ [][Next]_vars /\ WF_vars(Attempt)

-----------------------------------------------------------------------------
(* The first n units of what is stored are those of the artifact.          *)
Stores(content, n) == Len(content) >= n /\ SubSeq(content, 1, n) = SubSeq(Artifact, 1, n)

(* The committed offset on the workspace is never ahead of the backend:    *)
(* whatever Pods, connections and providers were lost, a session that the  *)
(* platform still has holds the artifact up to there (checkpoint in        *)
(* uploadMultipartResume, uploadPageBlobResume, uploadGCSResume;           *)
(* UploadResumable of the adapter).  The only sessions it does not hold of *)
(* are those with a chunk behind one that GCS committed in part, and those *)
(* of a blob that was created again without an answer.                     *)
CommittedIsStored ==
  saved.mode = "offset" /\ saved.phase = "uploading" /\ saved.token \notin cloud.torn =>
    CASE kind = "azure" -> cloud.object # Absent => Stores(cloud.object, saved.offset)
      [] OTHER -> saved.token \in cloud.open => Stores(cloud.parts[saved.token], saved.offset)

(* A registered image has the content of the artifact, however often the   *)
(* upload was broken off, resumed or rotated to a fresh session and the    *)
(* registration repeated (ARCHITECTURE.md, "whole-artifact integrity"),    *)
(* whatever became of the sessions before the last one.  It does not hold  *)
(* of a session with a gap, as above, of a vSphere library item, which is  *)
(* created before its content is (publishContentLibraryItem), and of a     *)
(* vSphere disk that the uploader deleted when it could not write the      *)
(* record.                                                                 *)
ImageIsArtifact ==
  /\ saved.phase = "registered" /\ job \in {"active", "succeeded", "failed"}
  /\ saved.token \notin cloud.torn
  /\ layout # "library" /\ ~(layout = "vmdk" /\ via = "plugin")
  => cloud.image = Artifact

(* A cleanup Job that succeeds has deleted what was recorded: the staging  *)
(* object, and the image but for a vSphere template or item, although      *)
(* attempts before it stopped halfway.  External providers other than      *)
(* OpenStack forget an upload, and answer "deleted" all the same.          *)
CleanedTarget ==
  job = "cleaned" /\ Recorded # "none" /\ (via = "plugin" \/ kind = "openstack") =>
    /\ cloud.object = Absent
    /\ Recorded = "registered" =>
         ~cloud.version /\ (layout \notin {"ova", "library"} => cloud.image = Absent)

(* An upload that has begun ends, with a result or an error: sender and    *)
(* provider never wait for each other until something else ends them.  The *)
(* adapter reads no progress before it has sent everything                 *)
(* (UploadResumable), although the server reports every part.              *)
AttemptEnds ==
  (job = "active" /\ pod.pc \in {"send", "answer"}) ~> (pod.pc \notin {"send", "answer"})
=============================================================================
