---------------------------- MODULE UploadTarget ----------------------------
(***************************************************************************)
(* One upload target as a provider sees it: the calls that the Pods of an  *)
(* upload Job make of a platform plugin, in the order of                   *)
(* processUploadTarget, and the DeleteArtifact of the cleanup Job.  The    *)
(* plugin is linked into the uploader or runs behind a gRPC stream         *)
(* (UploadStream).  UploadAWS, UploadAzure, UploadGCP, UploadOpenStack and *)
(* UploadVSphere are the plugins.                                          *)
(*                                                                         *)
(* The artifact is the sequence of its units; a part, a page range or a    *)
(* chunk holds ChunkUnits of them.  What is stored is the sequence of the  *)
(* units that were written there, 0 for a unit never written, so that a    *)
(* resumed upload which skips or repeats data can be told from a right     *)
(* one.  cloud.torn is history: the sessions that a plugin went on with    *)
(* out of place, behind data which the platform had not taken (GCP) or had *)
(* lost (Azure).  Module Uploader has the workspace files in more detail.  *)
(***************************************************************************)
EXTENDS Integers, Sequences, FiniteSets

CONSTANTS
  Kinds,        \* the providers of this instance
  Vias,         \* "plugin": linked in; "grpc": behind an adapter
  Units,        \* size of the artifact
  ChunkUnits,   \* units of a part, page range or chunk
  MaxTokens     \* bound: backend sessions started for one target

ASSUME UnitsAssumption ==
  Units \in Nat \ {0} /\ ChunkUnits \in 1 .. Units /\ MaxTokens \in Nat \ {0}

VARIABLES
  kind,    \* the provider
  via,     \* how the uploader reaches it
  layout,  \* vSphere: "vmdk", "ova" or "library"; Azure: "gallery" or "image"
  cloud,   \* what the platform holds for the target
  saved,   \* the session record on the workspace PVC
  ops,     \* the operation record on the workspace PVC
  job,     \* the upload Job, then the cleanup Job
  pod,     \* the upload Pod: its next step and its resumable session
  wire,    \* the gRPC stream
  server   \* memory of the external provider: SDKProvider

vars == <<kind, via, layout, cloud, saved, ops, job, pod, wire, server>>

Artifact == [i \in 1 .. Units |-> i]
Tokens == 1 .. MaxTokens
Absent == <<>>          \* no object, no image
Broken == <<0>>         \* an image without its content
Zeroes == [i \in 1 .. Units |-> 0]

Offset(k) == k \in {"aws", "azure", "gcp"}   \* ResumeMode "offset"

(* plugin: a plugin for the ProviderConfig exists; cache: SDKProvider      *)
(* remembers the result of the upload.                                     *)
NoServer == [plugin |-> FALSE, cache |-> FALSE]
NoWire == [sent |-> 0, progress |-> <<>>]
NoPod == [pc |-> "down", token |-> 0, offset |-> 0, pos |-> 0]

Content == UNION {[1 .. n -> 0 .. Units] : n \in 0 .. Units}

TypeOK ==
  /\ kind \in Kinds /\ via \in Vias
  /\ layout \in {"image", "gallery", "vmdk", "ova", "library"}
  /\ cloud.open \subseteq Tokens /\ cloud.last \in 0 .. MaxTokens
  /\ cloud.torn \subseteq 0 .. MaxTokens
  /\ \A t \in Tokens : cloud.parts[t] \in Content
  /\ {cloud.object, cloud.snapshot, cloud.image} \subseteq Content
  /\ cloud.version \in BOOLEAN /\ cloud.stale \in BOOLEAN
  /\ saved \in [phase : {"uploading", "uploaded", "registered"},
                token : 0 .. MaxTokens, offset : 0 .. Units,
                mode : {"none", "restart", "offset"}]
  /\ ops \in {"none", "uploaded", "registered"}
  /\ job \in {"active", "succeeded", "failed", "cleaning", "cleaned"}
  /\ pod \in [pc : {"down", "prepare", "send", "answer", "uploaded", "record",
                    "register", "registered", "recordImage"},
              token : 0 .. MaxTokens, offset : 0 .. Units, pos : 0 .. Units]
  /\ wire.sent \in 0 .. Units
  /\ wire.progress \in Seq([token : 0 .. MaxTokens, offset : 0 .. Units])
  /\ server \in [plugin : BOOLEAN, cache : BOOLEAN]

Layouts(k) ==
  CASE k = "vsphere" -> {"vmdk", "ova", "library"}
    [] k = "azure" -> {"image", "gallery"}
    [] OTHER -> {"image"}

Init ==
  /\ kind \in Kinds /\ via \in Vias /\ layout \in Layouts(kind)
  /\ cloud = [open |-> {}, last |-> 0, torn |-> {}, parts |-> [t \in Tokens |-> <<>>],
              object |-> Absent, image |-> Absent,
              version |-> FALSE, snapshot |-> Absent, stale |-> FALSE]
  /\ saved = [phase |-> "uploading", token |-> 0, offset |-> 0, mode |-> "none"]
  /\ ops = "none" /\ job = "active"
  /\ pod = NoPod /\ wire = NoWire /\ server = NoServer

-----------------------------------------------------------------------------
(* A Pod and its end                                                       *)

At(k, pc) == kind = k /\ job = "active" /\ pod.pc = pc

(* The SDK provider has a plugin for the ProviderConfig (pluginForConfig). *)
Reachable == via = "grpc" => server.plugin

(* The Pod ends with an error and leaves the cloud as c: the Job starts    *)
(* another one, or fails.                                                  *)
Fails(c) ==
  /\ cloud' = c
  /\ pod' = NoPod /\ wire' = NoWire
  /\ job' \in {"active", "failed"}
  /\ UNCHANGED <<kind, via, layout, saved, ops, server>>

(* Connect and Init, which leaves the SDK provider with a plugin, then the *)
(* phase that the session record restores.                                 *)
StartPod ==
  /\ job = "active" /\ pod.pc = "down"
  /\ pod' = [NoPod EXCEPT !.pc = CASE saved.phase = "uploading" -> "prepare"
                                   [] saved.phase = "uploaded" -> "record"
                                   [] saved.phase = "registered" -> "recordImage"]
  /\ server' = IF via = "grpc" /\ saved.phase # "registered"
                 THEN [server EXCEPT !.plugin = TRUE] ELSE server
  /\ UNCHANGED <<kind, via, layout, cloud, saved, ops, job, wire>>

(* The node, the Pod or the connection is lost, or a read of the workspace *)
(* or a request that changes nothing fails.                                *)
PodDies == job = "active" /\ pod.pc # "down" /\ Fails(cloud)

-----------------------------------------------------------------------------
(* Sessions                                                                *)

(* The session that PrepareUpload returns, or the server for a provider    *)
(* without it, is checkpointed before any data is sent.                    *)
Accepted(c, token, offset) ==
  /\ cloud' = c
  /\ saved' = [saved EXCEPT !.token = token, !.offset = offset,
                            !.mode = IF Offset(kind) THEN "offset" ELSE "restart"]
  /\ pod' = [pc |-> "send", token |-> token, offset |-> offset, pos |-> offset]
  /\ wire' = [sent |-> offset, progress |-> <<>>]
  /\ UNCHANGED <<kind, via, layout, ops, job, server>>

(* The effect without the checkpoint: the answer is lost or not written.   *)
Prepared(c, token, offset) == Accepted(c, token, offset) \/ Fails(c)

(* The next units that the provider reads of its body: of the file, or of  *)
(* the pipe that the stream fills.  io.ReadFull fails when they end early. *)
Count == IF Units - pod.offset < ChunkUnits THEN Units - pod.offset ELSE ChunkUnits
BodyEnds == pod.pos + Count > Units
Readable == pod.pos + Count <= (IF via = "grpc" THEN wire.sent ELSE Units)
Chunk == SubSeq(Artifact, pod.pos + 1, pod.pos + Count)

(* A progress message of the external provider; a restart session always   *)
(* reports the committed offset 0.                                         *)
Report(offset) == [token |-> pod.token, offset |-> IF Offset(kind) THEN offset ELSE 0]

(* A chunk was stored up to the given offset, and the checkpoint reported. *)
Stored(c, offset, window) ==
  /\ cloud' = c
  /\ pod' = [pod EXCEPT !.offset = offset, !.pos = @ + Count]
  /\ IF via = "grpc"
       THEN /\ Len(wire.progress) < window
            /\ wire' = [wire EXCEPT !.progress = Append(@, Report(offset))]
            /\ UNCHANGED saved
       ELSE /\ saved' = [saved EXCEPT !.offset = IF Offset(kind) THEN offset ELSE 0]
            /\ UNCHANGED wire
  /\ UNCHANGED <<kind, via, layout, ops, job, server>>

(* The provider has everything.  An external one remembers the result and  *)
(* answers with a last message.                                            *)
Finished(c, window) ==
  /\ cloud' = c
  /\ IF via = "grpc"
       THEN /\ Len(wire.progress) < window /\ wire.sent = Units
            /\ wire' = [wire EXCEPT !.progress =
                          Append(@, [token |-> pod.token, offset |-> Units])]
            /\ server' = [server EXCEPT !.cache = TRUE]
            /\ pod' = [pod EXCEPT !.pc = "answer"]
       ELSE pod' = [pod EXCEPT !.pc = "uploaded"] /\ UNCHANGED <<wire, server>>
  /\ UNCHANGED <<kind, via, layout, saved, ops, job>>

-----------------------------------------------------------------------------
(* The other steps of processUploadTarget                                  *)

WriteUploaded ==
  /\ job = "active" /\ pod.pc = "uploaded"
  /\ saved' = [saved EXCEPT !.phase = "uploaded", !.offset = Units]
  /\ pod' = [NoPod EXCEPT !.pc = "record"] /\ wire' = NoWire
  /\ UNCHANGED <<kind, via, layout, cloud, ops, job, server>>

Record ==
  /\ job = "active" /\ pod.pc = "record"
  /\ ops' = "uploaded"
  /\ pod' = [pod EXCEPT !.pc = "register"]
  /\ UNCHANGED <<kind, via, layout, cloud, saved, job, wire, server>>

(* The record cannot be written: the Pod cleans up, with the metadata of   *)
(* the artifact.  vSphere finds its file by path; the other plugins find   *)
(* nothing in it.                                                          *)
RecordFails ==
  /\ job = "active" /\ pod.pc = "record"
  /\ Fails(IF kind = "vsphere" /\ via = "plugin"
             THEN [cloud EXCEPT !.object = Absent] ELSE cloud)

(* Register has answered.                                                  *)
Registered(c, cached) ==
  /\ cloud' = c
  /\ pod' = [pod EXCEPT !.pc = "registered"]
  /\ server' = [server EXCEPT !.cache = @ /\ cached]
  /\ UNCHANGED <<kind, via, layout, saved, ops, job, wire>>

WriteRegistered ==
  /\ job = "active" /\ pod.pc = "registered"
  /\ saved' = [saved EXCEPT !.phase = "registered"]
  /\ pod' = [pod EXCEPT !.pc = "recordImage"]
  /\ UNCHANGED <<kind, via, layout, cloud, ops, job, wire, server>>

RecordImage ==
  /\ job = "active" /\ pod.pc = "recordImage"
  /\ ops' = "registered" /\ job' = "succeeded" /\ pod' = NoPod
  /\ UNCHANGED <<kind, via, layout, cloud, saved, wire, server>>

-----------------------------------------------------------------------------
(* The cleanup Job                                                         *)

StartCleanup ==
  /\ job \in {"succeeded", "failed"}
  /\ job' = "cleaning"
  /\ UNCHANGED <<kind, via, layout, cloud, saved, ops, pod, wire, server>>

Cleaning(k) == kind = k /\ job = "cleaning"

(* Without an operation record, or without a session that has a reference, *)
(* the metadata is that of the build's artifact.                           *)
Recorded ==
  IF ops # "none" THEN ops
  ELSE IF saved.phase = "uploading" THEN "none" ELSE saved.phase

(* An external provider knows the upload by its reference.                 *)
Cached == Recorded # "none" /\ server.cache

(* Init has given the external provider its plugin.  A failed cleanup is   *)
(* repeated.                                                               *)
CleanupReturns(c, ok, cached) ==
  /\ cloud' = c
  /\ job' = IF ok THEN "cleaned" ELSE "cleaning"
  /\ server' = IF via = "grpc"
                 THEN [plugin |-> TRUE, cache |-> server.cache /\ cached] ELSE server
  /\ UNCHANGED <<kind, via, layout, saved, ops, pod, wire>>
=============================================================================
