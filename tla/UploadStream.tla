---------------------------- MODULE UploadStream ----------------------------
(***************************************************************************)
(* The gRPC stream of UploadArtifact between the adapter in the uploader   *)
(* (pkg/plugin/grpc) and the server in the provider (pkg/provider/sdk).    *)
(* The adapter sends the whole artifact from the accepted offset before it *)
(* reads any progress, and gRPC holds back a sender whose messages are not *)
(* read: DataWindow units one way, Window progress messages the other.     *)
(***************************************************************************)
EXTENDS UploadTarget

CONSTANTS
  DataWindow,  \* units that may be under way to the provider
  Window       \* progress messages that may be under way to the uploader

ASSUME WindowAssumption == DataWindow \in Nat \ {0} /\ Window \in Nat \ {0}

Streaming == via = "grpc" /\ job = "active" /\ pod.pc \in {"send", "answer"}

(* streamArtifactFromOffset and copyUploadChunks                           *)
ClientSends ==
  /\ Streaming /\ wire.sent < Units
  /\ wire.sent - pod.pos < DataWindow
  /\ wire' = [wire EXCEPT !.sent = @ + 1]
  /\ UNCHANGED <<kind, via, layout, cloud, saved, ops, job, pod, server>>

MutClientReceives ==
  /\ Streaming /\ wire.sent = Units /\ wire.progress # <<>>
  /\ saved' = [saved EXCEPT !.token = Head(wire.progress).token, !.offset = Units]
  /\ wire' = [wire EXCEPT !.progress = Tail(@)]
  /\ UNCHANGED <<kind, via, layout, cloud, ops, job, pod, server>>

(* A progress message is read and checkpointed.  A committed offset that   *)
(* goes back or beyond the size ends the upload.                           *)
ClientReceives ==
  /\ Streaming /\ wire.sent = Units /\ wire.progress # <<>>
  /\ LET p == Head(wire.progress)
     IN  IF Offset(kind) /\ p.offset < saved.offset
           THEN Fails(cloud)
           ELSE /\ saved' = [saved EXCEPT !.token = p.token, !.offset = p.offset]
                /\ wire' = [wire EXCEPT !.progress = Tail(@)]
                /\ UNCHANGED <<kind, via, layout, cloud, ops, job, pod, server>>

(* The end of the stream, after a message with a provider reference.       *)
StreamEnds ==
  /\ Streaming /\ pod.pc = "answer" /\ wire.progress = <<>>
  /\ pod' = [pod EXCEPT !.pc = "uploaded"]
  /\ UNCHANGED <<kind, via, layout, cloud, saved, ops, job, wire, server>>

(* A provider without sessions of its own reads the body from its start.   *)
(* ValidatingReader reports every read; an archive for vSphere is spooled  *)
(* without a report.                                                       *)
StreamReads ==
  /\ Streaming /\ pod.pc = "send" /\ ~Offset(kind)
  /\ pod.offset < Units /\ Readable
  /\ IF layout \in {"ova", "library"}
       THEN /\ pod' = [pod EXCEPT !.offset = @ + Count, !.pos = @ + Count]
            /\ UNCHANGED <<kind, via, layout, cloud, saved, ops, job, wire, server>>
       ELSE Stored(cloud, pod.offset + Count, Window)

BodyRead == via = "grpc" => pod.offset = Units

(* The external provider restarts: plugins and results are lost, and so is *)
(* a stream that is open.  Any other call finds the new process, without a *)
(* plugin until the next Init.                                             *)
ProviderRestarts ==
  /\ via = "grpc" /\ server # NoServer
  /\ server' = NoServer
  /\ IF Streaming
       THEN pod' = NoPod /\ wire' = NoWire /\ job' \in {"active", "failed"}
       ELSE UNCHANGED <<pod, wire, job>>
  /\ UNCHANGED <<kind, via, layout, cloud, saved, ops>>

(* A call of a provider that has no plugin for the ProviderConfig.         *)
Uninitialised ==
  /\ via = "grpc" /\ job = "active" /\ pod.pc \in {"prepare", "register"}
  /\ ~server.plugin
  /\ Fails(cloud)

Streams == ClientSends \/ ClientReceives \/ StreamEnds \/ StreamReads

StreamNext == Streams \/ ProviderRestarts \/ Uninitialised
=============================================================================
