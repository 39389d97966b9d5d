------------------------ MODULE PlatformUploadProofs -------------------------
(***************************************************************************)
(* Proofs about one upload by each of the five plugins, linked in or       *)
(* behind a gRPC stream: the committed offset is never ahead of the        *)
(* backend, a registered image is the artifact, and a cleanup that         *)
(* succeeds deleted what was recorded.                                     *)
(*                                                                         *)
(* StoreInv relates four copies of the progress of an upload: the session  *)
(* on the workspace, the progress messages under way, the offset of the    *)
(* Pod, and what the backend holds. Each is at or behind the next one, and *)
(* what the backend holds up to the offset of the Pod are the units of the *)
(* artifact. What it says of content is said of intact sessions, those     *)
(* that are not in cloud.torn; what a session made while another one was   *)
(* torn is right all the same. Cleanup is argued separately, by CleanInv.  *)
(***************************************************************************)
EXTENDS PlatformUpload, SequenceTheorems, TLAPS

(* An object that is all of the artifact, or is not there.                 *)
Whole == {Absent, Artifact}

(* The first n units of c are those of the artifact.                       *)
Begins(c, n) == Len(c) >= n /\ \A i \in 1 .. n : c[i] = i

(* The types of the variables. A platform keeps sessions, parts, an object *)
(* and an image.                                                           *)
Clouds ==
  [open : SUBSET Tokens, last : 0 .. MaxTokens, torn : SUBSET (0 .. MaxTokens),
   parts : [Tokens -> Content],
   object : Content, image : Content, version : BOOLEAN, snapshot : Content,
   stale : BOOLEAN]

(* The session record on the workspace.                                    *)
Sessions ==
  [phase : {"uploading", "uploaded", "registered"}, token : 0 .. MaxTokens,
   offset : 0 .. Units, mode : {"none", "restart", "offset"}]

(* The upload Pod.                                                         *)
Pods ==
  [pc : {"down", "prepare", "send", "answer", "uploaded", "record",
         "register", "registered", "recordImage"},
   token : 0 .. MaxTokens, offset : 0 .. Units, pos : 0 .. Units]

(* A progress message.                                                     *)
Messages == [token : 0 .. MaxTokens, offset : 0 .. Units]

(* The gRPC stream.                                                        *)
Wires == [sent : 0 .. Units, progress : Seq(Messages)]

(* The types of all variables.                                             *)
UploadType ==
  /\ kind \in Kinds /\ via \in Vias /\ layout \in Layouts(kind)
  /\ cloud \in Clouds /\ saved \in Sessions /\ pod \in Pods /\ wire \in Wires
  /\ ops \in {"none", "uploaded", "registered"}
  /\ job \in {"active", "succeeded", "failed", "cleaning", "cleaned"}
  /\ server \in [plugin : BOOLEAN, cache : BOOLEAN]

(* The step of a Pod goes with the phase of the session on the workspace.  *)
PhaseInv ==
  /\ job # "active" => pod.pc = "down"
  /\ pod.pc \in {"prepare", "send", "answer", "uploaded"} => saved.phase = "uploading"
  /\ pod.pc \in {"record", "register", "registered"} => saved.phase = "uploaded"
  /\ pod.pc = "recordImage" => saved.phase = "registered"
  /\ saved.phase = "uploading" => ops = "none"

(* The session of s has no gap.                                            *)
Intact(c, s) == s.token \notin c.torn

(* An intact session of S3 or GCS holds a beginning of the artifact, at    *)
(* least up to the committed offset. Once all of it is there, the object   *)
(* is the artifact or absent, and there is an image only after that. S3    *)
(* sessions have no gaps.                                                  *)
PartsInv(c, s) ==
  /\ \A t \in Tokens : t \notin c.torn => Begins(c.parts[t], Len(c.parts[t]))
  /\ \A t \in Tokens : t > c.last => c.parts[t] = <<>>
  /\ \A t \in c.open : t <= c.last
  /\ s.mode = "offset" /\ s.phase = "uploading"
       => s.token # 0 /\ s.offset <= Len(c.parts[s.token])
  /\ Intact(c, s)
       => /\ {c.snapshot, c.image} \subseteq Whole
          /\ s.phase # "uploading" => c.object \in Whole
          /\ s.token # 0 /\ Len(c.parts[s.token]) = Units => c.object \in Whole
  /\ s.phase = "uploading" => c.image = Absent /\ c.snapshot = Absent

(* The same of the page blob, which has its full size from the start, but  *)
(* may be gone.                                                            *)
BlobInv(c, s) ==
  /\ c.object # Absent => Len(c.object) = Units
  /\ Intact(c, s) =>
       /\ s.phase = "uploading" /\ c.object # Absent => Begins(c.object, s.offset)
       /\ s.phase # "uploading" => c.object \in Whole
       /\ c.image \in Whole
  /\ s.phase = "uploading" => c.image = Absent

(* The Pod that uploads, and every message that is under way to it, is at  *)
(* or behind what the backend holds. GCS may be behind the reader.         *)
TransferInv(k, c, s, p, w) ==
  Offset(k) /\ p.pc \in {"send", "answer", "uploaded"} =>
    /\ p.token # 0 /\ p.token = s.token /\ s.mode = "offset"
    /\ k # "gcp" => p.pos = p.offset
    /\ k # "azure" => Len(c.parts[p.token]) = p.offset /\ p.token <= c.last
    /\ k = "azure" /\ p.token \notin c.torn /\ c.object # Absent
         => Begins(c.object, p.offset)
    /\ \A i \in 1 .. Len(w.progress) :
         w.progress[i].token = p.token /\ w.progress[i].offset <= p.offset
    /\ p.pc # "send" => p.offset = Units

(* What the platform holds for the session s, whatever becomes of the Pod. *)
Held(c, s) ==
  /\ kind \in {"aws", "gcp"} => PartsInv(c, s)
  /\ kind = "aws" => c.torn = {} /\ c.object \in Whole
  /\ kind = "azure" => BlobInv(c, s)
  /\ kind = "openstack" => {c.object, c.image} \subseteq Whole
  /\ kind = "vsphere" /\ layout = "ova" => c.image \in Whole

(* Behind an adapter a complete disk of vSphere stays until cleanup.       *)
DiskHeld(c, s) ==
  kind = "vsphere" /\ layout = "vmdk" /\ via # "plugin" /\ s.phase # "uploading"
    => c.object = Artifact

(* The images ImageIsArtifact speaks of.                                   *)
Claimed == layout # "library" /\ ~(layout = "vmdk" /\ via = "plugin")

(* The inductive invariant: types, the order of the phases, what the       *)
(* platform holds, and the transfer under way.                             *)
StoreInv ==
  /\ UploadType /\ PhaseInv
  /\ saved.mode = "offset" => Offset(kind)
  /\ Held(cloud, saved)
  /\ job \notin {"cleaning", "cleaned"} =>
       /\ DiskHeld(cloud, saved)
       /\ Claimed /\ Intact(cloud, saved)
          /\ (pod.pc = "registered" \/ saved.phase = "registered")
            => cloud.image = Artifact
  /\ kind = "vsphere" /\ pod.pc \in {"answer", "uploaded"} => cloud.object = Artifact
  /\ TransferInv(kind, cloud, saved, pod, wire)

-----------------------------------------------------------------------------

(* What is stored is a sequence of at most Units units.                    *)
LEMMA ContentFacts ==
  ASSUME NEW c \in Content
  PROVE  /\ c \in Seq(0 .. Units) /\ Len(c) \in 0 .. Units
         /\ DOMAIN c = 1 .. Len(c)
         /\ \A i \in 1 .. Len(c) : c[i] \in 0 .. Units
<1>1. PICK n \in 0 .. Units : c \in [1 .. n -> 0 .. Units]
  BY DEF Content
<1>2. n \in Nat
  BY <1>1, UnitsAssumption
<1>3. c \in Seq(0 .. Units)
  <2>1. \A i \in 1 .. n : c[i] \in 0 .. Units
    BY <1>1
  <2>2. c = [i \in 1 .. n |-> c[i]]
    BY <1>1
  <2>3. [i \in 1 .. n |-> c[i]] \in Seq(0 .. Units)
    BY <1>2, <2>1, IsASeq
  <2> QED BY <2>2, <2>3
<1>4. Len(c) \in Nat /\ DOMAIN c = 1 .. Len(c)
  BY <1>3, LenProperties
<1>5. DOMAIN c = 1 .. n
  BY <1>1
<1>6. Len(c) = n
  <2>1. \A i \in Nat : 1 <= i /\ i <= n <=> 1 <= i /\ i <= Len(c)
    <3>1. \A i \in Nat : i \in 1 .. n <=> i \in 1 .. Len(c)
      BY <1>4, <1>5
    <3> QED BY <1>2, <1>4, <3>1
  <2>2. n <= Len(c)
    BY <1>2, <1>4, <2>1
  <2>3. Len(c) <= n
    BY <1>2, <1>4, <2>1
  <2>4. \A a, b \in Nat : a <= b /\ b <= a => a = b
    OBVIOUS
  <2> QED BY <1>2, <1>4, <2>2, <2>3, <2>4
<1> QED BY <1>1, <1>2, <1>3, <1>4, <1>6

(* A sequence of at most Units units can be stored.                        *)
LEMMA IsContent ==
  ASSUME NEW c \in Seq(0 .. Units), Len(c) <= Units
  PROVE  c \in Content
<1>1. Len(c) \in 0 .. Units /\ c \in [1 .. Len(c) -> 0 .. Units]
  BY UnitsAssumption
<1> QED BY <1>1 DEF Content

(* The artifact, the empty blob and the other constants can be stored, and *)
(* the artifact is not empty.                                              *)
LEMMA ConstantsAreContent ==
  /\ Absent \in Content /\ Artifact \in Content /\ Broken \in Content
  /\ Zeroes \in Content /\ Whole \subseteq Content
  /\ Len(Absent) = 0 /\ Len(Artifact) = Units /\ Len(Zeroes) = Units
  /\ Artifact # Absent
<1>1. Units \in Nat /\ Units >= 1
  BY UnitsAssumption
<1>2. Artifact \in [1 .. Units -> 0 .. Units] /\ Zeroes \in [1 .. Units -> 0 .. Units]
  BY <1>1 DEF Artifact, Zeroes
<1>3. /\ Artifact \in Content /\ Zeroes \in Content
      /\ Len(Artifact) = Units /\ Len(Zeroes) = Units
  BY <1>1, <1>2 DEF Content
<1>4. Absent \in Seq(0 .. Units) /\ Len(Absent) = 0
  BY DEF Absent
<1>5. Broken \in Seq(0 .. Units) /\ Len(Broken) = 1
  BY <1>1 DEF Broken
<1>6. Absent \in Content /\ Broken \in Content
  <2>1. Len(Absent) <= Units /\ Len(Broken) <= Units
    BY <1>1, <1>4, <1>5
  <2> QED BY <1>4, <1>5, <2>1, IsContent
<1>7. Artifact # Absent
  <2>1. Len(Artifact) # Len(Absent)
    BY <1>1, <1>3, <1>4
  <2> QED BY <2>1
<1> QED BY <1>3, <1>4, <1>6, <1>7 DEF Whole

(* Content that agrees with the artifact in all its units is the artifact. *)
LEMMA FullIsArtifact ==
  ASSUME NEW c \in Content, Begins(c, Units)
  PROVE  c = Artifact
<1>1. Len(c) = Units /\ DOMAIN c = 1 .. Units /\ c \in Seq(0 .. Units) /\ Units \in Nat
  BY ContentFacts, UnitsAssumption DEF Begins
<1>2. c \in [1 .. Units -> 0 .. Units]
  BY <1>1
<1> QED BY <1>2 DEF Begins, Artifact

(* Content that agrees with the artifact up to n agrees with it up to any  *)
(* smaller offset.                                                         *)
LEMMA BeginsLess ==
  ASSUME NEW c, NEW n \in Nat, NEW m \in 0 .. n, Begins(c, n), Len(c) \in Nat
  PROVE  Begins(c, m)
BY DEF Begins

(* Agreement unit by unit is what Stores says with subsequences.           *)
LEMMA BeginsStores ==
  ASSUME NEW c \in Content, NEW n \in 0 .. Units, Begins(c, n)
  PROVE  Stores(c, n)
<1>1. /\ c \in Seq(0 .. Units) /\ Len(c) \in Nat /\ n <= Len(c) /\ n \in Nat
      /\ Units \in Nat
  BY ContentFacts, UnitsAssumption DEF Begins
<1>2. Artifact \in Seq(0 .. Units) /\ Len(Artifact) = Units
  BY ConstantsAreContent, ContentFacts
<1>3. /\ SubSeq(c, 1, n) = [i \in 1 .. n |-> c[i]]
      /\ SubSeq(Artifact, 1, n) = [i \in 1 .. n |-> Artifact[i]]
  BY <1>1, <1>2
<1>4. \A i \in 1 .. n : c[i] = Artifact[i]
  BY <1>1 DEF Begins, Artifact
<1> QED BY <1>1, <1>3, <1>4 DEF Stores

-----------------------------------------------------------------------------

(* No Pod is a Pod, and its stream is empty.                               *)
LEMMA PodFields ==
  /\ NoPod \in Pods /\ NoPod.pc = "down" /\ NoWire \in Wires
BY UnitsAssumption DEF NoPod, NoWire, Pods, Wires

(* A Pod that ends with an error keeps the invariant when what it leaves   *)
(* is still held for the session.                                          *)
LEMMA FailsKeeps ==
  ASSUME StoreInv, job = "active", NEW c \in Clouds, Fails(c),
         Held(c, saved), DiskHeld(c, saved),
         saved.phase = "registered" => c.image = cloud.image /\ c.torn = cloud.torn
  PROVE  StoreInv'
<1>1. /\ cloud' = c /\ pod' = NoPod /\ wire' = NoWire /\ job' \in {"active", "failed"}
      /\ UNCHANGED <<kind, via, layout, saved, ops, server>>
  BY DEF Fails
<1>2. UploadType'
  BY <1>1, PodFields DEF StoreInv, UploadType
<1>3. PhaseInv'
  BY <1>1, PodFields DEF StoreInv, PhaseInv
<1>4. Held(cloud, saved)' /\ DiskHeld(cloud, saved)'
  BY <1>1 DEF Held, DiskHeld
<1>5. TransferInv(kind, cloud, saved, pod, wire)'
  BY <1>1, PodFields DEF TransferInv
<1>6. (Claimed /\ Intact(cloud, saved)
        /\ (pod.pc = "registered" \/ saved.phase = "registered")
        => cloud.image = Artifact)'
  BY <1>1, PodFields DEF StoreInv, Claimed, Intact
<1> QED BY <1>1, <1>2, <1>3, <1>4, <1>5, <1>6, PodFields DEF StoreInv

(* An error that changes nothing at the platform keeps the invariant.      *)
LEMMA SameFails ==
  ASSUME StoreInv, job = "active", Fails(cloud)
  PROVE  StoreInv'
BY FailsKeeps DEF StoreInv, UploadType

(* Accepting a session keeps the invariant when the backend holds exactly  *)
(* what the accepted offset says.                                          *)
LEMMA AcceptedKeeps ==
  ASSUME StoreInv, job = "active", pod.pc = "prepare",
         NEW c \in Clouds, NEW token \in 0 .. MaxTokens, NEW offset \in 0 .. Units,
         Accepted(c, token, offset), kind # "azure" => Held(c, saved),
         Offset(kind) => token # 0,
         kind \in {"aws", "gcp"} =>
           /\ Len(c.parts[token]) = offset /\ token <= c.last
           /\ token = saved.token \/ offset # Units,
         kind = "azure" =>
           /\ c.object # Absent /\ Len(c.object) = Units /\ c.image = Absent
           /\ token \notin c.torn => Begins(c.object, offset)
  PROVE  StoreInv'
<1> DEFINE s == [saved EXCEPT !.token = token, !.offset = offset,
                              !.mode = IF Offset(kind) THEN "offset" ELSE "restart"]
           p == [pc |-> "send", token |-> token, offset |-> offset, pos |-> offset]
           w == [sent |-> offset, progress |-> <<>>]
<1>0. /\ saved \in Sessions /\ saved.phase = "uploading" /\ c.parts \in [Tokens -> Content]
  BY DEF StoreInv, UploadType, PhaseInv, Clouds
<1>1. /\ cloud' = c /\ saved' = s /\ pod' = p /\ wire' = w
      /\ UNCHANGED <<kind, via, layout, ops, job, server>>
  BY DEF Accepted
<1>2. /\ s \in Sessions /\ s.phase = "uploading" /\ s.token = token /\ s.offset = offset
      /\ s.mode = IF Offset(kind) THEN "offset" ELSE "restart"
  BY <1>0 DEF Sessions
<1>3. /\ p \in Pods /\ p.pc = "send" /\ p.token = token /\ p.offset = offset
      /\ p.pos = offset
  BY DEF Pods
<1>4. w \in Wires /\ w.progress = <<>> /\ Len(w.progress) = 0
  BY DEF Wires
<1> HIDE DEF s, p, w
<1>5. UploadType'
  BY <1>1, <1>2, <1>3, <1>4 DEF StoreInv, UploadType
<1>6. PhaseInv'
  BY <1>0, <1>1, <1>2, <1>3 DEF StoreInv, PhaseInv
<1>7. (saved.mode = "offset" => Offset(kind))'
  BY <1>1, <1>2 DEF Offset
<1>8. Held(c, s)
  <2>1. CASE kind \in {"aws", "gcp"}
    <3>1. PartsInv(c, s)
      BY <1>0, <1>2, <2>1 DEF Held, PartsInv, Intact, Offset, Whole
    <3> QED BY <2>1, <3>1 DEF Held
  <2>2. CASE kind = "azure"
    <3>1. BlobInv(c, s)
      BY <1>0, <1>2, <2>2 DEF Held, BlobInv, Intact, Whole
    <3> QED BY <2>2, <3>1 DEF Held
  <2> QED BY <2>1, <2>2 DEF Held
<1>9. TransferInv(kind, c, s, p, w)
  BY <1>2, <1>3, <1>4 DEF TransferInv, Offset
<1> QED
  BY <1>1, <1>2, <1>3, <1>5, <1>6, <1>7, <1>8, <1>9
  DEF StoreInv, Held, DiskHeld, Claimed

(* The same when the answer may be lost.                                   *)
LEMMA PreparedKeeps ==
  ASSUME StoreInv, job = "active", pod.pc = "prepare",
         NEW c \in Clouds, NEW token \in 0 .. MaxTokens, NEW offset \in 0 .. Units,
         Prepared(c, token, offset), Held(c, saved),
         Offset(kind) => token # 0,
         kind \in {"aws", "gcp"} =>
           /\ Len(c.parts[token]) = offset /\ token <= c.last
           /\ token = saved.token \/ offset # Units,
         kind = "azure" =>
           /\ c.object # Absent /\ Len(c.object) = Units /\ c.image = Absent
           /\ token \notin c.torn => Begins(c.object, offset)
  PROVE  StoreInv'
<1>1. saved.phase = "uploading"
  BY DEF StoreInv, PhaseInv
<1>2. DiskHeld(c, saved)
  BY <1>1 DEF DiskHeld
<1>3. CASE Accepted(c, token, offset)
  BY <1>3, AcceptedKeeps
<1>4. CASE Fails(c)
  BY <1>1, <1>2, <1>4, FailsKeeps
<1> QED BY <1>3, <1>4 DEF Prepared

(* A message at the end of the stream leaves those before it.              *)
LEMMA MessageAppended ==
  ASSUME NEW q \in Seq(Messages), NEW m \in Messages
  PROVE  /\ Append(q, m) \in Seq(Messages) /\ Len(q) \in Nat
         /\ Len(Append(q, m)) = Len(q) + 1
         /\ \A i \in 1 .. Len(q) : Append(q, m)[i] = q[i]
         /\ Append(q, m)[Len(q) + 1] = m
         /\ \A i \in 1 .. Len(q) : q[i] \in Messages
BY AppendProperties, ElementOfSeq, LenProperties

(* Storing a chunk and reporting it keeps the invariant when the backend   *)
(* holds the artifact up to the new offset: with a linked-in plugin the    *)
(* session moves at once, behind an adapter only the message is sent.      *)
LEMMA StoredKeeps ==
  ASSUME StoreInv, job = "active", pod.pc = "send",
         NEW c \in Clouds, NEW offset \in 0 .. Units, NEW pos \in 0 .. Units,
         pos = pod.pos + Count, Stored(c, offset, Window), Held(c, saved),
         Offset(kind) => pod.offset <= offset /\ (kind # "gcp" => offset = pos),
         kind \in {"aws", "gcp"} => Len(c.parts[pod.token]) = offset /\ c.last = cloud.last,
         kind = "azure" /\ pod.token \notin c.torn /\ c.object # Absent
           => Begins(c.object, offset)
  PROVE  StoreInv'
<1> DEFINE p == [pod EXCEPT !.offset = offset, !.pos = @ + Count]
           x == IF Offset(kind) THEN offset ELSE 0
           s == [saved EXCEPT !.offset = x]
           m == Report(offset)
           w == [wire EXCEPT !.progress = Append(@, m)]
<1>0. /\ saved \in Sessions /\ saved.phase = "uploading" /\ pod \in Pods /\ wire \in Wires
      /\ c.parts \in [Tokens -> Content] /\ x \in 0 .. Units
      /\ pod.token \in 0 .. MaxTokens /\ pod.offset \in 0 .. Units /\ Units \in Nat
  BY UnitsAssumption DEF StoreInv, UploadType, PhaseInv, Clouds, Pods
<1>1. /\ cloud' = c /\ pod' = p
      /\ \/ via = "grpc" /\ wire' = w /\ saved' = saved
         \/ via # "grpc" /\ wire' = wire /\ saved' = s
      /\ UNCHANGED <<kind, via, layout, ops, job, server>>
  BY DEF Stored
<1>2. /\ p \in Pods /\ p.pc = "send" /\ p.token = pod.token /\ p.offset = offset
      /\ p.pos = pos
  BY <1>0 DEF Pods
<1>3. /\ s \in Sessions /\ s.phase = "uploading" /\ s.token = saved.token
      /\ s.offset = x /\ s.mode = saved.mode
  BY <1>0 DEF Sessions
<1>4. /\ m \in Messages /\ m.token = pod.token /\ m.offset = x
  BY <1>0 DEF Report, Messages
<1> HIDE DEF m
<1>5. /\ w \in Wires /\ wire.progress \in Seq(Messages)
      /\ w.progress = Append(wire.progress, m)
  BY <1>0, <1>4, MessageAppended DEF Wires
<1>6. /\ Len(wire.progress) \in Nat /\ Len(w.progress) = Len(wire.progress) + 1
      /\ \A i \in 1 .. Len(wire.progress) : w.progress[i] = wire.progress[i]
      /\ w.progress[Len(wire.progress) + 1] = m
      /\ \A i \in 1 .. Len(wire.progress) : wire.progress[i].offset \in 0 .. Units
  <2>1. \A i \in 1 .. Len(wire.progress) : wire.progress[i] \in Messages
    BY <1>5, ElementOfSeq
  <2> QED BY <1>4, <1>5, <2>1, MessageAppended DEF Messages
<1> HIDE DEF p, s, w
<1>7. UploadType'
  BY <1>1, <1>2, <1>3, <1>5 DEF StoreInv, UploadType
<1>8. PhaseInv'
  BY <1>0, <1>1, <1>2, <1>3 DEF StoreInv, PhaseInv
<1>9. Held(c, s)
  <2>1. CASE kind \in {"aws", "gcp"}
    <3>1. /\ saved.token = pod.token /\ saved.mode = "offset" /\ x = offset
          /\ pod.token # 0
      BY <2>1 DEF StoreInv, TransferInv, Offset
    <3>2. PartsInv(c, s)
      BY <1>0, <1>3, <2>1, <3>1 DEF Held, PartsInv, Intact
    <3> QED BY <2>1, <3>2 DEF Held
  <2>2. CASE kind = "azure"
    <3>0. pod.token = saved.token
      BY <2>2 DEF StoreInv, TransferInv, Offset
    <3>1. BlobInv(c, s)
      BY <1>0, <1>3, <2>2, <3>0 DEF Held, BlobInv, Intact, Offset
    <3> QED BY <2>2, <3>1 DEF Held
  <2> QED BY <2>1, <2>2 DEF Held
<1>10. TransferInv(kind, c, s, p, wire) /\ TransferInv(kind, c, saved, p, w)
  <2>1. CASE ~Offset(kind)
    BY <2>1 DEF TransferInv
  <2>2. CASE Offset(kind)
    <3>1. /\ pod.token # 0 /\ pod.token = saved.token /\ saved.mode = "offset"
          /\ \A i \in 1 .. Len(wire.progress) :
               wire.progress[i].token = pod.token /\ wire.progress[i].offset <= pod.offset
      BY <2>2 DEF StoreInv, TransferInv
    <3>2. \A i \in 1 .. Len(wire.progress) : wire.progress[i].offset <= offset
      BY <1>0, <1>6, <2>2, <3>1
    <3>3. \A i \in 1 .. Len(w.progress) :
            w.progress[i].token = pod.token /\ w.progress[i].offset <= offset
      <4> SUFFICES ASSUME NEW i \in 1 .. Len(wire.progress) + 1
                   PROVE  w.progress[i].token = pod.token /\ w.progress[i].offset <= offset
        BY <1>6
      <4>1. CASE i = Len(wire.progress) + 1
        BY <1>4, <1>6, <2>2, <4>1
      <4>2. CASE i # Len(wire.progress) + 1
        <5>1. i \in 1 .. Len(wire.progress)
          BY <1>6, <4>2
        <5> QED BY <1>6, <3>1, <3>2, <5>1
      <4> QED BY <4>1, <4>2
    <3>4. /\ kind # "azure" => Len(c.parts[pod.token]) = offset /\ pod.token <= c.last
          /\ kind = "azure" /\ pod.token \notin c.torn /\ c.object # Absent
               => Begins(c.object, offset)
      BY <2>2 DEF StoreInv, TransferInv, Offset
    <3> QED BY <1>2, <1>3, <2>2, <3>1, <3>2, <3>3, <3>4 DEF TransferInv
  <2> QED BY <2>1, <2>2
<1>11. /\ Held(cloud, saved)'
       /\ TransferInv(kind, cloud, saved, pod, wire)'
       /\ saved'.phase = "uploading" /\ (saved.mode = "offset" => Offset(kind))'
  BY <1>0, <1>1, <1>3, <1>9, <1>10
  DEF StoreInv, Held, Offset
<1> QED
  BY <1>1, <1>2, <1>7, <1>8, <1>11 DEF StoreInv, DiskHeld

(* The end of an upload keeps the invariant when everything is stored.     *)
LEMMA FinishedKeeps ==
  ASSUME StoreInv, job = "active", pod.pc = "send",
         NEW c \in Clouds, Finished(c, Window), Held(c, saved),
         Offset(kind) => pod.offset = Units,
         kind \in {"aws", "gcp"} => c.parts = cloud.parts /\ c.last = cloud.last,
         kind = "azure" => c.object = cloud.object /\ c.torn = cloud.torn,
         kind = "vsphere" => c.object = Artifact
  PROVE  StoreInv'
<1> DEFINE p(x) == [pod EXCEPT !.pc = x]
           m == [token |-> pod.token, offset |-> Units]
           w == [wire EXCEPT !.progress = Append(@, m)]
           v == [server EXCEPT !.cache = TRUE]
<1>0. /\ saved \in Sessions /\ saved.phase = "uploading" /\ pod \in Pods /\ wire \in Wires
      /\ pod.token \in 0 .. MaxTokens /\ pod.offset \in 0 .. Units /\ Units \in Nat
      /\ server \in [plugin : BOOLEAN, cache : BOOLEAN]
  BY UnitsAssumption DEF StoreInv, UploadType, PhaseInv, Clouds, Pods
<1>1. /\ cloud' = c
      /\ \/ wire' = w /\ server' = v /\ pod' = p("answer")
         \/ wire' = wire /\ server' = server /\ pod' = p("uploaded")
      /\ UNCHANGED <<kind, via, layout, saved, ops, job>>
  BY DEF Finished
<1>2. \A x \in {"answer", "uploaded"} :
        /\ p(x) \in Pods /\ p(x).pc = x /\ p(x).token = pod.token
        /\ p(x).offset = pod.offset /\ p(x).pos = pod.pos
  BY <1>0 DEF Pods
<1>4. m \in Messages /\ m.token = pod.token /\ m.offset = Units
  BY <1>0 DEF Messages
<1> HIDE DEF m
<1>5. /\ w \in Wires /\ wire.progress \in Seq(Messages)
      /\ w.progress = Append(wire.progress, m)
  BY <1>0, <1>4, MessageAppended DEF Wires
<1>5a. v \in [plugin : BOOLEAN, cache : BOOLEAN]
  BY <1>0
<1>6. /\ Len(wire.progress) \in Nat /\ Len(w.progress) = Len(wire.progress) + 1
      /\ \A i \in 1 .. Len(wire.progress) : w.progress[i] = wire.progress[i]
      /\ w.progress[Len(wire.progress) + 1] = m
  BY <1>4, <1>5, MessageAppended
<1> HIDE DEF p, w, v
<1>7. UploadType'
  BY <1>1, <1>2, <1>5, <1>5a DEF StoreInv, UploadType
<1>8. PhaseInv'
  BY <1>0, <1>1, <1>2 DEF StoreInv, PhaseInv
<1>9. \A x \in {"answer", "uploaded"} :
        /\ TransferInv(kind, c, saved, p(x), w)
        /\ TransferInv(kind, c, saved, p(x), wire)
  <2>1. CASE ~Offset(kind)
    BY <2>1 DEF TransferInv
  <2>2. CASE Offset(kind)
    <3>1. /\ pod.token # 0 /\ pod.token = saved.token /\ saved.mode = "offset"
          /\ (kind # "gcp" => pod.pos = pod.offset) /\ pod.offset = Units
          /\ \A i \in 1 .. Len(wire.progress) :
               wire.progress[i].token = pod.token /\ wire.progress[i].offset <= pod.offset
          /\ kind # "azure" => Len(cloud.parts[pod.token]) = pod.offset
                               /\ pod.token <= cloud.last
          /\ kind = "azure" /\ pod.token \notin cloud.torn /\ cloud.object # Absent
               => Begins(cloud.object, pod.offset)
      BY <2>2 DEF StoreInv, TransferInv
    <3>2. /\ kind # "azure" => Len(c.parts[pod.token]) = pod.offset
                               /\ pod.token <= c.last
          /\ kind = "azure" /\ pod.token \notin c.torn /\ c.object # Absent
               => Begins(c.object, pod.offset)
      BY <2>2, <3>1 DEF Offset
    <3>3. \A i \in 1 .. Len(w.progress) :
            w.progress[i].token = pod.token /\ w.progress[i].offset <= pod.offset
      <4> SUFFICES ASSUME NEW i \in 1 .. Len(wire.progress) + 1
                   PROVE  w.progress[i].token = pod.token /\ w.progress[i].offset <= pod.offset
        BY <1>6
      <4>1. CASE i = Len(wire.progress) + 1
        BY <1>0, <1>4, <1>6, <3>1, <4>1
      <4>2. CASE i # Len(wire.progress) + 1
        <5>1. i \in 1 .. Len(wire.progress)
          BY <1>6, <4>2
        <5> QED BY <1>6, <3>1, <5>1
      <4> QED BY <4>1, <4>2
    <3> QED BY <1>2, <2>2, <3>1, <3>2, <3>3 DEF TransferInv
  <2> QED BY <2>1, <2>2
<1>10. TransferInv(kind, cloud, saved, pod, wire)'
  BY <1>1, <1>9
<1>11. Held(cloud, saved)' /\ (saved.mode = "offset" => Offset(kind))'
  BY <1>1 DEF StoreInv, Held, Offset
<1>12. DiskHeld(cloud, saved)' /\ saved'.phase = "uploading" /\ pod'.pc # "registered"
  BY <1>0, <1>1, <1>2 DEF DiskHeld
<1> QED
  BY <1>1, <1>7, <1>8, <1>10, <1>11, <1>12 DEF StoreInv

(* An answer of Register keeps the invariant when the image is the         *)
(* artifact.                                                               *)
LEMMA RegisteredKeeps ==
  ASSUME StoreInv, job = "active", pod.pc = "register",
         NEW c \in Clouds, NEW cached, Registered(c, cached), Held(c, saved),
         DiskHeld(c, saved), Claimed /\ Intact(c, saved) => c.image = Artifact,
         cached \in BOOLEAN
  PROVE  StoreInv'
<1> DEFINE p == [pod EXCEPT !.pc = "registered"]
           v == [server EXCEPT !.cache = @ /\ cached]
<1>0. pod \in Pods /\ saved.phase = "uploaded" /\ server \in [plugin : BOOLEAN, cache : BOOLEAN]
  BY DEF StoreInv, UploadType, PhaseInv
<1>1. /\ cloud' = c /\ pod' = p /\ server' = v
      /\ UNCHANGED <<kind, via, layout, saved, ops, job, wire>>
  BY DEF Registered
<1>2. p \in Pods /\ p.pc = "registered"
  BY <1>0 DEF Pods
<1>3. v \in [plugin : BOOLEAN, cache : BOOLEAN]
  BY <1>0
<1> HIDE DEF p, v
<1>4. UploadType'
  BY <1>1, <1>2, <1>3 DEF StoreInv, UploadType
<1>5. PhaseInv'
  BY <1>0, <1>1, <1>2 DEF StoreInv, PhaseInv
<1>6. Held(cloud, saved)' /\ DiskHeld(cloud, saved)'
  BY <1>1 DEF Held, DiskHeld
<1>7. TransferInv(kind, cloud, saved, pod, wire)'
  BY <1>1, <1>2 DEF TransferInv
<1> QED
  BY <1>1, <1>2, <1>4, <1>5, <1>6, <1>7 DEF StoreInv, Claimed, Intact

(* A return of the cleanup Job keeps the invariant when what it leaves is  *)
(* still held for the session.                                             *)
LEMMA CleanupReturnsKeeps ==
  ASSUME StoreInv, job = "cleaning", NEW c \in Clouds, NEW ok \in BOOLEAN,
         NEW cached \in BOOLEAN, CleanupReturns(c, ok, cached), Held(c, saved)
  PROVE  StoreInv'
<1>0. pod.pc = "down" /\ server \in [plugin : BOOLEAN, cache : BOOLEAN]
  BY DEF StoreInv, UploadType, PhaseInv
<1>1. /\ cloud' = c /\ job' \in {"cleaning", "cleaned"}
      /\ UNCHANGED <<kind, via, layout, saved, ops, pod, wire>>
  BY DEF CleanupReturns
<1>2. server' \in [plugin : BOOLEAN, cache : BOOLEAN]
  BY <1>0 DEF CleanupReturns
<1>3. UploadType'
  BY <1>1, <1>2 DEF StoreInv, UploadType
<1>4. PhaseInv'
  BY <1>0, <1>1 DEF StoreInv, PhaseInv
<1>5. Held(cloud, saved)'
  BY <1>1 DEF Held
<1>6. TransferInv(kind, cloud, saved, pod, wire)'
  BY <1>0, <1>1 DEF TransferInv
<1> QED
  BY <1>0, <1>1, <1>3, <1>4, <1>5, <1>6 DEF StoreInv

-----------------------------------------------------------------------------

(* The types that the actions need.                                        *)
LEMMA Types ==
  ASSUME StoreInv
  PROVE  /\ cloud \in Clouds /\ saved \in Sessions /\ pod \in Pods /\ wire \in Wires
         /\ server \in [plugin : BOOLEAN, cache : BOOLEAN]
         /\ wire.sent \in 0 .. Units /\ wire.progress \in Seq(Messages)
         /\ pod.offset \in 0 .. Units /\ pod.pos \in 0 .. Units
         /\ pod.token \in 0 .. MaxTokens /\ saved.token \in 0 .. MaxTokens
         /\ saved.offset \in 0 .. Units
         /\ Units \in Nat /\ Units > 0 /\ ChunkUnits \in 1 .. Units
         /\ MaxTokens \in Nat /\ MaxTokens > 0
BY UnitsAssumption DEF StoreInv, UploadType, Wires, Pods, Sessions

(* A chunk never reaches behind the end of the artifact.                   *)
LEMMA CountBounds ==
  ASSUME StoreInv
  PROVE  /\ Count \in Nat /\ pod.offset + Count \in 0 .. Units
         /\ Readable => pod.pos + Count \in 0 .. Units
         /\ pod.offset < Units => Count > 0
<1>1. /\ Count \in Nat /\ pod.offset + Count \in 0 .. Units
      /\ pod.offset < Units => Count > 0
  BY Types DEF Count
<1>2. ASSUME Readable PROVE pod.pos + Count \in 0 .. Units
  <2>1. CASE via = "grpc"
    BY <1>1, <1>2, <2>1, Types DEF Readable
  <2>2. CASE via # "grpc"
    BY <1>1, <1>2, <2>2, Types DEF Readable
  <2> QED BY <2>1, <2>2
<1> QED BY <1>1, <1>2

(* StartPod takes up the phase of the session.                             *)
LEMMA StartPodKeeps ==
  ASSUME StoreInv, StartPod
  PROVE  StoreInv'
<1> DEFINE pc == CASE saved.phase = "uploading" -> "prepare"
                   [] saved.phase = "uploaded" -> "record"
                   [] saved.phase = "registered" -> "recordImage"
           p == [NoPod EXCEPT !.pc = pc]
<1>0. saved.phase \in {"uploading", "uploaded", "registered"}
  BY Types DEF Sessions
<1>1. /\ job = "active" /\ pod' = p
      /\ UNCHANGED <<kind, via, layout, cloud, saved, ops, job, wire>>
  BY DEF StartPod
<1>2. server' \in [plugin : BOOLEAN, cache : BOOLEAN]
  BY Types DEF StartPod
<1>3. /\ pc \in {"prepare", "record", "recordImage"}
      /\ pc = "prepare" => saved.phase = "uploading"
      /\ pc = "record" => saved.phase = "uploaded"
      /\ pc = "recordImage" => saved.phase = "registered"
  BY <1>0
<1> HIDE DEF pc
<1>4. p \in Pods /\ p.pc = pc
  BY <1>3, UnitsAssumption DEF NoPod, Pods
<1> HIDE DEF p
<1>5. UploadType'
  BY <1>1, <1>2, <1>4 DEF StoreInv, UploadType
<1>6. PhaseInv'
  BY <1>1, <1>3, <1>4 DEF StoreInv, PhaseInv
<1>7. TransferInv(kind, cloud, saved, pod, wire)'
  BY <1>1, <1>3, <1>4 DEF TransferInv
<1> QED
  BY <1>1, <1>3, <1>4, <1>5, <1>6, <1>7 DEF StoreInv, Held, DiskHeld, Claimed, Offset

(* Losing a Pod changes nothing at the platform.                           *)
LEMMA PodDiesKeeps ==
  ASSUME StoreInv, PodDies \/ Uninitialised
  PROVE  StoreInv'
BY SameFails DEF PodDies, Uninitialised

(* Sending data changes only the stream.                                   *)
LEMMA ClientSendsKeeps ==
  ASSUME StoreInv, ClientSends
  PROVE  StoreInv'
<1> DEFINE w == [wire EXCEPT !.sent = @ + 1]
<1>1. /\ wire.sent < Units /\ wire' = w
      /\ UNCHANGED <<kind, via, layout, cloud, saved, ops, job, pod, server>>
  BY DEF ClientSends
<1>2. w \in Wires /\ w.progress = wire.progress
  BY <1>1, Types DEF Wires
<1> HIDE DEF w
<1>3. UploadType'
  BY <1>1, <1>2 DEF StoreInv, UploadType
<1>4. PhaseInv'
  BY <1>1 DEF StoreInv, PhaseInv
<1>5. TransferInv(kind, cloud, saved, pod, wire)'
  BY <1>1, <1>2 DEF StoreInv, TransferInv
<1> QED
  BY <1>1, <1>3, <1>4, <1>5 DEF StoreInv, Held, DiskHeld, Claimed, Offset

(* A received message moves the session to an offset that is at or behind  *)
(* that of the Pod, so the backend holds it.                               *)
LEMMA ClientReceivesKeeps ==
  ASSUME StoreInv, ClientReceives
  PROVE  StoreInv'
<1> DEFINE q == wire.progress
           m == Head(q)
           s == [saved EXCEPT !.token = m.token, !.offset = m.offset]
           w == [wire EXCEPT !.progress = Tail(@)]
<1>0. /\ job = "active" /\ pod.pc \in {"send", "answer"} /\ q # <<>>
      /\ saved.phase = "uploading"
  BY DEF ClientReceives, Streaming, StoreInv, PhaseInv
<1>1. \/ Fails(cloud)
      \/ /\ saved' = s /\ wire' = w
         /\ UNCHANGED <<kind, via, layout, cloud, ops, job, pod, server>>
  BY DEF ClientReceives
<1>2. CASE Fails(cloud)
  BY <1>0, <1>2, SameFails
<1>3. ASSUME saved' = s, wire' = w,
             UNCHANGED <<kind, via, layout, cloud, ops, job, pod, server>>
      PROVE  StoreInv'
  <2>1. /\ q \in Seq(Messages) /\ Len(q) \in Nat /\ Len(q) > 0 /\ m = q[1] /\ m \in Messages
        /\ Tail(q) \in Seq(Messages) /\ Len(Tail(q)) = Len(q) - 1
        /\ \A i \in 1 .. Len(Tail(q)) : Tail(q)[i] = q[i + 1]
    BY <1>0, Types, HeadTailProperties, EmptySeq
  <2>2. m.token \in 0 .. MaxTokens /\ m.offset \in 0 .. Units
    BY <2>1 DEF Messages
  <2>3. w \in Wires /\ w.progress = Tail(q)
    BY <2>1, Types DEF Wires
  <2> HIDE DEF m
  <2>4. /\ s \in Sessions /\ s.phase = "uploading" /\ s.token = m.token
        /\ s.offset = m.offset /\ s.mode = saved.mode
    BY <1>0, <2>2, Types DEF Sessions
  <2> HIDE DEF s, w, q
  <2>5. UploadType'
    BY <1>3, <2>3, <2>4 DEF StoreInv, UploadType
  <2>6. PhaseInv'
    BY <1>0, <1>3, <2>4 DEF StoreInv, PhaseInv
  <2>7. Offset(kind) => /\ pod.token # 0 /\ pod.token = saved.token /\ saved.mode = "offset"
                        /\ \A i \in 1 .. Len(q) : q[i].token = pod.token /\ q[i].offset <= pod.offset
                        /\ m.token = pod.token /\ m.offset <= pod.offset
                        /\ kind # "azure" => Len(cloud.parts[pod.token]) = pod.offset
                        /\ kind = "azure" /\ pod.token \notin cloud.torn
                           /\ cloud.object # Absent => Begins(cloud.object, pod.offset)
    BY <1>0, <2>1 DEF StoreInv, TransferInv, q
  <2>8. Held(cloud, s)
    <3>1. CASE kind \in {"aws", "gcp"}
      <4>1. m.offset <= Len(cloud.parts[m.token]) /\ m.token # 0
        BY <2>7, <3>1 DEF Offset
      <4>2. PartsInv(cloud, s)
        BY <1>0, <2>4, <2>7, <3>1, <4>1
        DEF StoreInv, Held, PartsInv, Intact, Offset
      <4> QED BY <3>1, <4>2 DEF StoreInv, Held
    <3>2. CASE kind = "azure"
      <4>1. cloud.object \in Content
        BY Types DEF Clouds
      <4>2. m.token \notin cloud.torn /\ cloud.object # Absent
              => Begins(cloud.object, m.offset)
        BY <2>2, <2>7, <3>2, <4>1, Types, BeginsLess, ContentFacts DEF Offset
      <4>3. BlobInv(cloud, s)
        BY <1>0, <2>4, <2>7, <3>2, <4>2
        DEF StoreInv, Held, BlobInv, Intact, Offset
      <4> QED BY <3>2, <4>3 DEF Held
    <3> QED BY <3>1, <3>2 DEF StoreInv, Held
  <2>9. TransferInv(kind, cloud, s, pod, w)
    <3>1. Offset(kind) => \A i \in 1 .. Len(w.progress) :
            w.progress[i].token = pod.token /\ w.progress[i].offset <= pod.offset
      <4> SUFFICES ASSUME Offset(kind), NEW i \in 1 .. Len(Tail(q))
                   PROVE  Tail(q)[i].token = pod.token /\ Tail(q)[i].offset <= pod.offset
        BY <2>3
      <4>1. i + 1 \in 1 .. Len(q) /\ Tail(q)[i] = q[i + 1]
        BY <2>1
      <4> QED BY <2>7, <4>1
    <3> QED BY <2>4, <2>7, <3>1 DEF StoreInv, TransferInv
  <2> QED
    BY <1>0, <1>3, <2>4, <2>5, <2>6, <2>8, <2>9
    DEF StoreInv, Held, DiskHeld, Claimed, Offset
<1> QED BY <1>1, <1>2, <1>3

(* The stream ends after the last message was received.                    *)
LEMMA StreamEndsKeeps ==
  ASSUME StoreInv, StreamEnds
  PROVE  StoreInv'
<1> DEFINE p == [pod EXCEPT !.pc = "uploaded"]
<1>1. /\ job = "active" /\ pod.pc = "answer" /\ pod' = p
      /\ UNCHANGED <<kind, via, layout, cloud, saved, ops, job, wire, server>>
  BY DEF StreamEnds, Streaming
<1>2. /\ p \in Pods /\ p.pc = "uploaded" /\ p.token = pod.token /\ p.offset = pod.offset
      /\ p.pos = pod.pos
  BY Types DEF Pods
<1> HIDE DEF p
<1>3. UploadType'
  BY <1>1, <1>2 DEF StoreInv, UploadType
<1>4. PhaseInv'
  BY <1>1, <1>2 DEF StoreInv, PhaseInv
<1>5. TransferInv(kind, cloud, saved, pod, wire)'
  BY <1>1, <1>2 DEF StoreInv, TransferInv
<1> QED
  BY <1>1, <1>2, <1>3, <1>4, <1>5 DEF StoreInv, Held, DiskHeld, Claimed, Offset

(* Reading the body changes nothing at a platform without sessions of its  *)
(* own.                                                                    *)
LEMMA StreamReadsKeeps ==
  ASSUME StoreInv, StreamReads
  PROVE  StoreInv'
<1> DEFINE p == [pod EXCEPT !.offset = @ + Count, !.pos = @ + Count]
<1>1. /\ job = "active" /\ pod.pc = "send" /\ ~Offset(kind)
      /\ Count \in Nat /\ pod.offset + Count \in 0 .. Units
      /\ pod.pos + Count \in 0 .. Units
  BY CountBounds DEF StreamReads, Streaming
<1>2. CASE Stored(cloud, pod.offset + Count, Window)
  <2>1. Held(cloud, saved)
    BY DEF StoreInv
  <2> QED BY <1>1, <1>2, <2>1, Types, StoredKeeps DEF Offset
<1>3. CASE /\ pod' = p
           /\ UNCHANGED <<kind, via, layout, cloud, saved, ops, job, wire, server>>
  <2>1. p \in Pods /\ p.pc = "send"
    BY <1>1, Types DEF Pods
  <2> HIDE DEF p
  <2>2. UploadType'
    BY <1>3, <2>1 DEF StoreInv, UploadType
  <2>3. PhaseInv'
    BY <1>1, <1>3, <2>1 DEF StoreInv, PhaseInv
  <2>4. TransferInv(kind, cloud, saved, pod, wire)'
    BY <1>1, <1>3 DEF TransferInv, Offset
  <2> QED
    BY <1>1, <1>3, <2>1, <2>2, <2>3, <2>4 DEF StoreInv, Held, DiskHeld, Claimed, Offset
<1> QED BY <1>2, <1>3 DEF StreamReads

(* A restart of the external provider loses its memory and the stream, and *)
(* nothing at the platform.                                                *)
LEMMA ProviderRestartsKeeps ==
  ASSUME StoreInv, ProviderRestarts
  PROVE  StoreInv'
<1>1. /\ server' = NoServer
      /\ UNCHANGED <<kind, via, layout, cloud, saved, ops>>
      /\ \/ job = "active" /\ pod' = NoPod /\ wire' = NoWire /\ job' \in {"active", "failed"}
         \/ UNCHANGED <<pod, wire, job>>
  BY DEF ProviderRestarts, Streaming
<1>2. UploadType'
  BY <1>1, PodFields DEF StoreInv, UploadType, NoServer
<1>3. PhaseInv'
  BY <1>1, PodFields DEF StoreInv, PhaseInv
<1>4. TransferInv(kind, cloud, saved, pod, wire)'
  BY <1>1, PodFields DEF StoreInv, TransferInv
<1> QED
  BY <1>1, <1>2, <1>3, <1>4, PodFields DEF StoreInv, Held, DiskHeld, Claimed, Offset

(* A completed upload is whole at the backend, which is what the session   *)
(* says from here on.                                                      *)
LEMMA WriteUploadedKeeps ==
  ASSUME StoreInv, WriteUploaded
  PROVE  StoreInv'
<1> DEFINE s == [saved EXCEPT !.phase = "uploaded", !.offset = Units]
           p == [NoPod EXCEPT !.pc = "record"]
<1>1. /\ job = "active" /\ pod.pc = "uploaded" /\ saved' = s /\ pod' = p /\ wire' = NoWire
      /\ UNCHANGED <<kind, via, layout, cloud, ops, job, server>>
  BY DEF WriteUploaded
<1>2. /\ s \in Sessions /\ s.phase = "uploaded" /\ s.mode = saved.mode
      /\ s.token = saved.token /\ p \in Pods /\ p.pc = "record"
  <2>1. Units \in 0 .. Units /\ 0 \in 0 .. Units /\ 0 \in 0 .. MaxTokens
    BY Types
  <2>2. /\ s \in Sessions /\ s.phase = "uploaded" /\ s.mode = saved.mode
        /\ s.token = saved.token
    BY <2>1, Types DEF Sessions
  <2>3. p \in Pods /\ p.pc = "record"
    BY <2>1 DEF Pods, NoPod
  <2> QED BY <2>2, <2>3
<1> HIDE DEF s, p
<1>3. UploadType'
  BY <1>1, <1>2, PodFields DEF StoreInv, UploadType
<1>4. PhaseInv'
  BY <1>1, <1>2 DEF StoreInv, PhaseInv
<1>5. TransferInv(kind, cloud, saved, pod, wire)'
  BY <1>1, <1>2 DEF TransferInv
<1>6. Held(cloud, s)
  <2>1. CASE kind \in {"aws", "gcp"}
    <3>0. /\ kind # "azure" /\ Offset(kind) /\ saved.token # 0
          /\ Len(cloud.parts[saved.token]) = Units
      BY <1>1, <2>1 DEF StoreInv, TransferInv, Offset
    <3>1. PartsInv(cloud, s)
      BY <1>2, <2>1, <3>0 DEF StoreInv, Held, PartsInv, Intact
    <3> QED BY <2>1, <3>1 DEF StoreInv, Held
  <2>2. CASE kind = "azure"
    <3>1. /\ Intact(cloud, saved) /\ cloud.object # Absent => Begins(cloud.object, Units)
          /\ cloud.object \in Content
      BY <1>1, <2>2, Types DEF StoreInv, TransferInv, Offset, Clouds, Intact
    <3>2. Intact(cloud, saved) => cloud.object \in Whole
      BY <3>1, FullIsArtifact DEF Whole
    <3>3. BlobInv(cloud, s)
      BY <1>2, <2>2, <3>2 DEF StoreInv, Held, BlobInv, Intact, Whole
    <3> QED BY <2>2, <3>3 DEF Held
  <2> QED BY <2>1, <2>2 DEF StoreInv, Held
<1>7. DiskHeld(cloud, s)
  BY <1>1 DEF StoreInv, DiskHeld
<1> QED
  BY <1>1, <1>2, <1>3, <1>4, <1>5, <1>6, <1>7
  DEF StoreInv, Held, DiskHeld, Claimed, Offset

(* Writing the operation record changes nothing at the platform.           *)
LEMMA RecordKeeps ==
  ASSUME StoreInv, Record
  PROVE  StoreInv'
<1> DEFINE p == [pod EXCEPT !.pc = "register"]
<1>1. /\ job = "active" /\ pod.pc = "record" /\ ops' = "uploaded" /\ pod' = p
      /\ UNCHANGED <<kind, via, layout, cloud, saved, job, wire, server>>
  BY DEF Record
<1>2. p \in Pods /\ p.pc = "register"
  BY Types DEF Pods
<1> HIDE DEF p
<1>3. UploadType'
  BY <1>1, <1>2 DEF StoreInv, UploadType
<1>4. PhaseInv'
  BY <1>1, <1>2 DEF StoreInv, PhaseInv
<1>5. TransferInv(kind, cloud, saved, pod, wire)'
  BY <1>1, <1>2 DEF TransferInv
<1> QED
  BY <1>1, <1>2, <1>3, <1>4, <1>5 DEF StoreInv, Held, DiskHeld, Claimed, Offset

(* A record that cannot be written deletes the disk of a linked-in vSphere *)
(* plugin, and nothing else.                                               *)
LEMMA RecordFailsKeeps ==
  ASSUME StoreInv, RecordFails
  PROVE  StoreInv'
<1> DEFINE c == [cloud EXCEPT !.object = Absent]
<1>1. job = "active" /\ saved.phase = "uploaded"
  BY DEF RecordFails, StoreInv, PhaseInv
<1>2. CASE kind = "vsphere" /\ via = "plugin"
  <2>1. Fails(c)
    BY <1>2 DEF RecordFails
  <2>2. c \in Clouds /\ c.image = cloud.image
    BY Types, ConstantsAreContent DEF Clouds
  <2> HIDE DEF c
  <2>3. Held(c, saved) /\ DiskHeld(c, saved)
    BY <1>2, <2>2 DEF StoreInv, Held, DiskHeld
  <2> QED BY <1>1, <2>1, <2>2, <2>3, FailsKeeps
<1>3. CASE ~(kind = "vsphere" /\ via = "plugin")
  <2>1. Fails(cloud)
    BY <1>3 DEF RecordFails
  <2> QED BY <1>1, <2>1, SameFails
<1> QED BY <1>2, <1>3

(* The session says "registered" only of an image that is the artifact.    *)
LEMMA WriteRegisteredKeeps ==
  ASSUME StoreInv, WriteRegistered
  PROVE  StoreInv'
<1> DEFINE s == [saved EXCEPT !.phase = "registered"]
           p == [pod EXCEPT !.pc = "recordImage"]
<1>1. /\ job = "active" /\ pod.pc = "registered" /\ saved.phase = "uploaded"
      /\ saved' = s /\ pod' = p
      /\ UNCHANGED <<kind, via, layout, cloud, ops, job, wire, server>>
  BY DEF WriteRegistered, StoreInv, PhaseInv
<1>2. /\ s \in Sessions /\ s.phase = "registered" /\ s.mode = saved.mode
      /\ s.token = saved.token /\ p \in Pods /\ p.pc = "recordImage"
  BY Types DEF Sessions, Pods
<1> HIDE DEF s, p
<1>3. UploadType'
  BY <1>1, <1>2 DEF StoreInv, UploadType
<1>4. PhaseInv'
  BY <1>1, <1>2 DEF StoreInv, PhaseInv
<1>5. TransferInv(kind, cloud, saved, pod, wire)'
  BY <1>1, <1>2 DEF TransferInv
<1>6. Held(cloud, s)
  BY <1>1, <1>2 DEF StoreInv, Held, PartsInv, BlobInv, Intact
<1>7. DiskHeld(cloud, s) /\ (Intact(cloud, s) <=> Intact(cloud, saved))
  BY <1>1, <1>2 DEF StoreInv, DiskHeld, Intact
<1> QED
  BY <1>1, <1>2, <1>3, <1>4, <1>5, <1>6, <1>7
  DEF StoreInv, Held, DiskHeld, Claimed, Offset

(* Recording the image ends the Job.                                       *)
LEMMA RecordImageKeeps ==
  ASSUME StoreInv, RecordImage
  PROVE  StoreInv'
<1>1. /\ job = "active" /\ pod.pc = "recordImage" /\ saved.phase = "registered"
      /\ ops' = "registered" /\ job' = "succeeded" /\ pod' = NoPod
      /\ UNCHANGED <<kind, via, layout, cloud, saved, wire, server>>
  BY DEF RecordImage, StoreInv, PhaseInv
<1>2. UploadType'
  BY <1>1, PodFields DEF StoreInv, UploadType
<1>3. PhaseInv'
  BY <1>1, PodFields DEF StoreInv, PhaseInv
<1>4. TransferInv(kind, cloud, saved, pod, wire)'
  BY <1>1, PodFields DEF TransferInv
<1> QED
  BY <1>1, <1>2, <1>3, <1>4, PodFields DEF StoreInv, Held, DiskHeld, Claimed, Offset

(* The cleanup Job starts after the upload Job has ended.                  *)
LEMMA StartCleanupKeeps ==
  ASSUME StoreInv, StartCleanup
  PROVE  StoreInv'
<1>1. /\ job # "active" /\ job' = "cleaning"
      /\ UNCHANGED <<kind, via, layout, cloud, saved, ops, pod, wire, server>>
  BY DEF StartCleanup
<1>2. UploadType'
  BY <1>1 DEF StoreInv, UploadType
<1>3. PhaseInv'
  BY <1>1 DEF StoreInv, PhaseInv
<1>4. TransferInv(kind, cloud, saved, pod, wire)'
  BY <1>1 DEF StoreInv, TransferInv, PhaseInv
<1> QED
  BY <1>1, <1>2, <1>3, <1>4 DEF StoreInv, Held, DiskHeld, Claimed, Offset, PhaseInv

(* An expired session of S3 or GCS is not open any more; its offset is not *)
(* used again. A blob that is gone holds nothing for the session.          *)
LEMMA UploadExpiresKeeps ==
  ASSUME StoreInv, UploadExpires
  PROVE  StoreInv'
<1>0. /\ UNCHANGED <<kind, via, layout, saved, ops, job, pod, wire, server>>
      /\ Offset(kind) /\ job = "active"
      /\ \/ /\ kind # "azure"
            /\ \E t \in cloud.open : cloud' = [cloud EXCEPT !.open = @ \ {t}]
         \/ /\ kind = "azure" /\ cloud.object # Absent /\ saved.phase = "uploading"
            /\ cloud' = [cloud EXCEPT !.object = Absent]
  BY DEF UploadExpires
<1>1. PhaseInv'
  BY <1>0 DEF StoreInv, PhaseInv
<1>2. CASE /\ kind # "azure"
           /\ \E t \in cloud.open : cloud' = [cloud EXCEPT !.open = @ \ {t}]
  <2>1. /\ cloud' \in Clouds /\ cloud'.parts = cloud.parts /\ cloud'.last = cloud.last
        /\ cloud'.object = cloud.object /\ cloud'.image = cloud.image
        /\ cloud'.snapshot = cloud.snapshot /\ cloud'.torn = cloud.torn
        /\ cloud'.open \subseteq cloud.open
    BY <1>2, Types DEF Clouds
  <2>2. UploadType'
    BY <1>0, <2>1 DEF StoreInv, UploadType
  <2>3. TransferInv(kind, cloud, saved, pod, wire)'
    BY <1>0, <2>1 DEF StoreInv, TransferInv
  <2>4. Held(cloud, saved)' /\ (job \notin {"cleaning", "cleaned"} => DiskHeld(cloud, saved))'
    BY <1>0, <2>1 DEF StoreInv, Held, PartsInv, BlobInv, Intact, DiskHeld
  <2> QED
    BY <1>0, <1>1, <2>1, <2>2, <2>3, <2>4 DEF StoreInv, Claimed, Intact, Offset
<1>3. CASE /\ kind = "azure" /\ saved.phase = "uploading"
           /\ cloud' = [cloud EXCEPT !.object = Absent]
  <2>1. /\ cloud' \in Clouds /\ cloud'.object = Absent /\ cloud'.image = cloud.image
        /\ cloud'.torn = cloud.torn
    BY <1>3, Types, ConstantsAreContent DEF Clouds
  <2>2. UploadType'
    BY <1>0, <2>1 DEF StoreInv, UploadType
  <2>3. TransferInv(kind, cloud, saved, pod, wire)'
    BY <1>0, <1>3, <2>1 DEF StoreInv, TransferInv
  <2>4. BlobInv(cloud', saved)
    BY <1>3, <2>1 DEF StoreInv, Held, BlobInv, Intact
  <2>5. Held(cloud, saved)' /\ DiskHeld(cloud, saved)'
    BY <1>0, <1>3, <2>4 DEF Held, DiskHeld
  <2>6. pod.pc # "registered"
    BY <1>3 DEF StoreInv, PhaseInv
  <2> QED
    BY <1>0, <1>1, <1>3, <2>2, <2>3, <2>5, <2>6 DEF StoreInv, Offset
<1> QED BY <1>0, <1>2, <1>3

-----------------------------------------------------------------------------
(* AWS                                                                     *)

(* Deleting the object, the image or the snapshot leaves what the session  *)
(* needs.                                                                  *)
LEMMA DeletedHeld ==
  ASSUME StoreInv, NEW c \in Clouds, c.parts = cloud.parts, c.last = cloud.last,
         c.open \subseteq cloud.open, c.torn = cloud.torn,
         c.object \in {cloud.object, Absent}, c.image \in {cloud.image, Absent},
         c.snapshot \in {cloud.snapshot, Absent},
         kind = "azure" /\ saved.phase = "uploading" => c.object = cloud.object
  PROVE  Held(c, saved)
<1>1. Absent \in Whole
  BY DEF Whole
<1>2. kind \in {"aws", "gcp"} => PartsInv(c, saved)
  BY <1>1 DEF StoreInv, Held, PartsInv, Intact
<1>3. kind = "azure" => BlobInv(c, saved)
  BY <1>1 DEF StoreInv, Held, BlobInv, Intact
<1> QED BY <1>1, <1>2, <1>3 DEF StoreInv, Held

(* A session of S3 or GCS goes on where its parts end, or a fresh one      *)
(* starts at 0.                                                            *)
LEMMA SessionPrepared ==
  ASSUME StoreInv, kind \in {"aws", "gcp"}, job = "active", pod.pc = "prepare",
         \/ /\ saved.token \in cloud.open
            /\ Prepared(cloud, saved.token, Len(cloud.parts[saved.token]))
         \/ /\ saved.token \notin cloud.open /\ cloud.last < MaxTokens
            /\ LET t == cloud.last + 1
               IN  Prepared([cloud EXCEPT !.open = @ \cup {t}, !.last = t], t, 0)
  PROVE  StoreInv'
<1>0. /\ cloud.open \subseteq Tokens /\ cloud.parts \in [Tokens -> Content]
      /\ cloud.last \in 0 .. MaxTokens /\ Held(cloud, saved) /\ PartsInv(cloud, saved)
  BY Types DEF Clouds, StoreInv, Held
<1>1. CASE /\ saved.token \in cloud.open
           /\ Prepared(cloud, saved.token, Len(cloud.parts[saved.token]))
  <2>1. saved.token \in Tokens
    BY <1>0, <1>1
  <2>2. Len(cloud.parts[saved.token]) \in 0 .. Units
    BY <1>0, <2>1, ContentFacts
  <2>3. saved.token # 0
    BY <2>1, Types DEF Tokens
  <2>4. saved.token <= cloud.last
    BY <1>0, <1>1 DEF PartsInv
  <2> QED BY <1>0, <1>1, <2>2, <2>3, <2>4, Types, PreparedKeeps
<1>2. CASE /\ cloud.last < MaxTokens
           /\ LET t == cloud.last + 1
              IN  Prepared([cloud EXCEPT !.open = @ \cup {t}, !.last = t], t, 0)
  <2> DEFINE t == cloud.last + 1
             c == [cloud EXCEPT !.open = @ \cup {t}, !.last = t]
  <2>1. t \in Tokens /\ t \in 0 .. MaxTokens /\ t # 0 /\ t > cloud.last
        /\ 0 \in 0 .. Units
    BY <1>0, <1>2, Types DEF Tokens
  <2>2. Prepared(c, t, 0)
    BY <1>2
  <2> HIDE DEF t
  <2>3. /\ c \in Clouds /\ c.parts = cloud.parts /\ c.last = t /\ c.object = cloud.object
        /\ c.open = cloud.open \cup {t}
        /\ c.image = cloud.image /\ c.snapshot = cloud.snapshot /\ c.torn = cloud.torn
    BY <2>1, Types DEF Clouds
  <2> HIDE DEF c
  <2>4. Len(c.parts[t]) = 0
    BY <1>0, <2>1, <2>3, EmptySeq DEF PartsInv
  <2>5. \A u \in Tokens : u > t => u > cloud.last
    BY <1>0, <2>1, Types DEF Tokens
  <2>6. PartsInv(c, saved)
    <3>1. \A u \in c.open : u <= c.last
      BY <1>0, <2>1, <2>3, Types DEF PartsInv, Tokens
    <3> QED BY <1>0, <2>3, <2>5, <3>1 DEF PartsInv, Intact
  <2>7. Held(c, saved)
    BY <1>0, <2>3, <2>6 DEF Held
  <2>8. t <= c.last /\ 0 # Units
    BY <2>1, <2>3, Types
  <2> QED BY <2>1, <2>2, <2>3, <2>4, <2>7, <2>8, PreparedKeeps
<1> QED BY <1>1, <1>2

(* The chunk read at the position of the Pod holds the units of the        *)
(* artifact from there on.                                                 *)
LEMMA ChunkFacts ==
  ASSUME StoreInv, Readable
  PROVE  /\ Chunk \in Seq(0 .. Units) /\ Len(Chunk) = Count
         /\ \A i \in 1 .. Count : Chunk[i] = pod.pos + i
<1> DEFINE n == pod.pos
           k == Count
<1>1. /\ k \in Nat /\ n \in Nat /\ n + k <= Units /\ Units \in Nat
  BY CountBounds, Types
<1>2. Artifact \in Seq(0 .. Units) /\ Len(Artifact) = Units
      /\ \A i \in 1 .. Units : Artifact[i] = i
  BY ConstantsAreContent, ContentFacts DEF Artifact
<1>3. Chunk = SubSeq(Artifact, n + 1, n + k)
  BY DEF Chunk
<1> HIDE DEF n, k
<1>4. LET b == SubSeq(Artifact, n + 1, n + k) IN
      b \in Seq(0 .. Units) /\ Len(b) = k /\ \A i \in 1 .. k : b[i] = n + i
  BY <1>1, <1>2
<1> QED BY <1>3, <1>4 DEF n, k

(* The parts of a session with the next units of a chunk behind them are a *)
(* longer beginning of the artifact, if the session is intact and the      *)
(* reader is where the backend is.                                         *)
LEMMA NextPart ==
  ASSUME StoreInv, kind \in {"aws", "gcp"}, job = "active", pod.pc = "send", Readable,
         NEW m \in 0 .. Count
  PROVE  LET d == SubSeq(cloud.parts[pod.token], 1, pod.offset) \o SubSeq(Chunk, 1, m) IN
         /\ d \in Content /\ Len(d) = pod.offset + m
         /\ pod.token \notin cloud.torn /\ pod.pos = pod.offset => Begins(d, pod.offset + m)
         /\ pod.token \in Tokens /\ pod.token <= cloud.last
         /\ pod.token = saved.token /\ (kind = "aws" => pod.pos = pod.offset)
         /\ Len(cloud.parts[pod.token]) = pod.offset
         /\ PartsInv(cloud, saved) /\ cloud.parts \in [Tokens -> Content]
         /\ Count \in Nat /\ m \in Nat /\ pod.offset + m \in 0 .. Units
         /\ pod.pos + Count \in 0 .. Units
<1> DEFINE t == pod.token
           n == pod.offset
           c == cloud.parts[t]
           a == SubSeq(c, 1, n)
           b == SubSeq(Chunk, 1, m)
           d == a \o b
<1>0. PartsInv(cloud, saved) /\ cloud.parts \in [Tokens -> Content]
  BY Types DEF StoreInv, Held, Clouds
<1>1. /\ t # 0 /\ t \in Tokens /\ t = saved.token /\ t <= cloud.last
      /\ Len(c) = n /\ (kind = "aws" => pod.pos = n)
  BY Types DEF StoreInv, TransferInv, Offset, Tokens
<1>2. /\ Count \in Nat /\ n + Count \in 0 .. Units /\ pod.pos + Count \in 0 .. Units
      /\ n \in Nat /\ n + Count <= Units /\ m \in Nat /\ m <= Count
      /\ n + m \in 0 .. Units /\ n + m <= Units /\ Units \in Nat
  <2> DEFINE k == Count
  <2>1. /\ k \in Nat /\ n + k \in 0 .. Units /\ pod.pos + k \in 0 .. Units
        /\ n \in Nat /\ Units \in Nat
    BY CountBounds, Types
  <2>2. m \in 0 .. k
    OBVIOUS
  <2> HIDE DEF k, n
  <2>3. /\ n + k <= Units /\ m \in Nat /\ m <= k
        /\ n + m \in 0 .. Units /\ n + m <= Units
    BY <2>1, <2>2
  <2> QED BY <2>1, <2>3 DEF k
<1>3. c \in Content /\ c \in Seq(0 .. Units) /\ (t \notin cloud.torn => Begins(c, n))
  BY <1>0, <1>1, ContentFacts DEF PartsInv
<1>4. /\ Chunk \in Seq(0 .. Units) /\ Len(Chunk) = Count
      /\ \A i \in 1 .. Count : Chunk[i] = pod.pos + i
  BY ChunkFacts
<1> HIDE DEF n, t, c
<1>5. a \in Seq(0 .. Units) /\ Len(a) = n /\ \A i \in 1 .. n : a[i] = c[i]
  BY <1>1, <1>2, <1>3
<1>6. b \in Seq(0 .. Units) /\ Len(b) = m /\ \A i \in 1 .. m : b[i] = pod.pos + i
  BY <1>2, <1>4
<1> HIDE DEF a, b
<1>7. d \in Seq(0 .. Units) /\ Len(d) = n + m
      /\ \A i \in 1 .. n + m : d[i] = IF i <= n THEN a[i] ELSE b[i - n]
  BY <1>2, <1>5, <1>6
<1>8. d \in Content
  BY <1>2, <1>7, IsContent
<1>9. ASSUME t \notin cloud.torn, pod.pos = n
      PROVE  Begins(d, n + m)
  <2>1. \A i \in 1 .. n + m : d[i] = i
    <3> SUFFICES ASSUME NEW i \in 1 .. n + m PROVE d[i] = i
      OBVIOUS
    <3>1. d[i] = IF i <= n THEN a[i] ELSE b[i - n]
      BY <1>7
    <3>2. CASE i <= n
      <4>1. i \in 1 .. n
        BY <1>2, <3>2
      <4> QED BY <1>3, <1>5, <1>9, <3>1, <3>2, <4>1 DEF Begins
    <3>3. CASE ~(i <= n)
      <4>1. i - n \in 1 .. m /\ n + (i - n) = i
        BY <1>2, <3>3
      <4> QED BY <1>6, <1>9, <3>1, <3>3, <4>1
    <3> QED BY <3>2, <3>3
  <2> QED BY <1>2, <1>7, <2>1 DEF Begins
<1> QED BY <1>0, <1>1, <1>2, <1>7, <1>8, <1>9 DEF n, t, c, a, b

(* A longer beginning in the session of the Pod is still held for the      *)
(* session record.                                                         *)
LEMMA PartAdded ==
  ASSUME StoreInv, kind \in {"aws", "gcp"}, saved.phase = "uploading",
         NEW c \in Clouds, NEW t \in Tokens, t <= cloud.last, t = saved.token,
         NEW d \in Content, Len(cloud.parts[t]) <= Len(d),
         c.parts[t] = d, \A u \in Tokens : u # t => c.parts[u] = cloud.parts[u],
         c.last = cloud.last, c.open = cloud.open, c.image = cloud.image,
         c.snapshot = cloud.snapshot, cloud.torn \subseteq c.torn,
         t \notin c.torn => Begins(d, Len(d)),
         kind = "aws" => c.torn = {} /\ c.object \in Whole,
         t \notin c.torn /\ Len(d) = Units => c.object \in Whole
  PROVE  Held(c, saved)
<1>0. /\ PartsInv(cloud, saved) /\ cloud.parts \in [Tokens -> Content]
      /\ cloud.last \in 0 .. MaxTokens
  BY Types DEF StoreInv, Held, Clouds
<1>1. c.parts[t] = d /\ \A u \in Tokens : u # t => c.parts[u] = cloud.parts[u]
  OBVIOUS
<1>2. /\ Len(cloud.parts[t]) \in 0 .. Units /\ Len(d) \in 0 .. Units
      /\ saved.offset \in 0 .. Units /\ Units \in Nat
  BY <1>0, ContentFacts, Types
<1>3. \A u \in Tokens : u > cloud.last => u # t
  BY <1>0, Types DEF Tokens
<1>4. \A u \in Tokens : u \notin c.torn => Begins(c.parts[u], Len(c.parts[u]))
  BY <1>0, <1>1 DEF PartsInv
<1>5. \A u \in Tokens : u > c.last => c.parts[u] = <<>>
  BY <1>0, <1>1, <1>3 DEF PartsInv
<1>6. saved.mode = "offset" => saved.token # 0 /\ saved.offset <= Len(c.parts[saved.token])
  BY <1>0, <1>1, <1>2 DEF PartsInv
<1>7. PartsInv(c, saved)
  BY <1>0, <1>4, <1>5, <1>6 DEF PartsInv, Intact, Whole
<1> QED BY <1>1, <1>7 DEF Held

(* uploadMultipartResume: a part is stored, and the checkpoint or the Pod  *)
(* may be lost after it.                                                   *)
LEMMA uploadMultipartResumeKeeps ==
  ASSUME StoreInv, uploadMultipartResume
  PROVE  StoreInv'
<1> DEFINE t == pod.token
           n == pod.offset
           d == SubSeq(cloud.parts[t], 1, n) \o Chunk
           c == [cloud EXCEPT !.parts[t] = d]
<1>0. /\ kind = "aws" /\ job = "active" /\ pod.pc = "send" /\ saved.phase = "uploading"
      /\ Readable
  BY DEF uploadMultipartResume, At, StoreInv, PhaseInv
<1>1. /\ d \in Content /\ Len(d) = n + Count /\ Begins(d, n + Count)
      /\ t \in Tokens /\ t <= cloud.last /\ t = saved.token /\ pod.pos = n
      /\ Len(cloud.parts[t]) = n /\ PartsInv(cloud, saved)
      /\ Count \in Nat /\ n + Count \in 0 .. Units /\ pod.pos + Count \in 0 .. Units
  <2>1. Count \in 0 .. Count /\ SubSeq(Chunk, 1, Count) = Chunk
    <3>1. Count \in Nat /\ Chunk \in Seq(0 .. Units) /\ Len(Chunk) = Count
      BY <1>0, CountBounds, ChunkFacts
    <3> QED BY <3>1
  <2>2. t \notin cloud.torn
    BY <1>0 DEF StoreInv, Held
  <2> QED BY <1>0, <2>1, <2>2, NextPart
<1>2. \/ Fails(cloud)
      \/ Stored(c, n + Count, Window)
      \/ Fails(c)
  BY DEF uploadMultipartResume
<1> HIDE DEF d
<1>3. /\ c \in Clouds /\ c.parts = [cloud.parts EXCEPT ![t] = d] /\ c.last = cloud.last
      /\ c.object = cloud.object /\ c.image = cloud.image /\ c.snapshot = cloud.snapshot
      /\ c.open = cloud.open /\ c.torn = cloud.torn
  BY <1>1, Types DEF Clouds
<1> HIDE DEF c
<1>4. Len(cloud.parts[t]) <= Len(d) /\ n <= n + Count
  BY <1>1, Types
<1>5. Held(c, saved) /\ c.parts[t] = d
  <2>1. /\ Begins(d, Len(d)) /\ c.object \in Whole /\ c.torn = {}
        /\ c.image = cloud.image /\ c.snapshot = cloud.snapshot
        /\ cloud.torn \subseteq c.torn
    BY <1>0, <1>1, <1>3 DEF StoreInv, Held
  <2>2. /\ kind \in {"aws", "gcp"} /\ saved.phase = "uploading" /\ d \in Content
        /\ t \in Tokens /\ t <= cloud.last /\ t = saved.token /\ c \in Clouds
        /\ Len(cloud.parts[t]) <= Len(d) /\ c.parts[t] = d
        /\ \A u \in Tokens : u # t => c.parts[u] = cloud.parts[u]
        /\ c.last = cloud.last /\ c.open = cloud.open
    <3>1. cloud.parts \in [Tokens -> Content]
      BY Types DEF Clouds
    <3> QED BY <1>0, <1>1, <1>3, <1>4, <3>1
  <2> HIDE DEF t, n
  <2>3. Held(c, saved)
    BY <2>1, <2>2, PartAdded
  <2> QED BY <2>2, <2>3
<1>6. DiskHeld(c, saved)
  BY <1>0 DEF DiskHeld
<1> HIDE DEF n, t
<1>7. CASE Stored(c, n + Count, Window)
  BY <1>0, <1>1, <1>3, <1>4, <1>5, <1>7, StoredKeeps DEF n, t
<1>8. CASE Fails(c)
  BY <1>0, <1>3, <1>5, <1>6, <1>8, FailsKeeps
<1>9. CASE Fails(cloud)
  BY <1>0, <1>9, SameFails
<1> QED BY <1>2, <1>7, <1>8, <1>9

(* completeMultipartUpload: the object is made of parts that are the whole *)
(* artifact.                                                               *)
LEMMA completeMultipartUploadKeeps ==
  ASSUME StoreInv, completeMultipartUpload
  PROVE  StoreInv'
<1> DEFINE t == pod.token
           c == [cloud EXCEPT !.open = @ \ {t}, !.object = cloud.parts[t]]
<1>0. /\ kind = "aws" /\ job = "active" /\ pod.pc = "send" /\ saved.phase = "uploading"
      /\ pod.offset = Units /\ PartsInv(cloud, saved) /\ cloud.parts \in [Tokens -> Content]
  BY Types DEF completeMultipartUpload, At, StoreInv, PhaseInv, Held, Clouds
<1>1. t \in Tokens /\ Len(cloud.parts[t]) = Units
  BY <1>0, Types DEF StoreInv, TransferInv, Offset, Tokens
<1>2. cloud.parts[t] \in Content /\ cloud.parts[t] = Artifact /\ cloud.torn = {}
  <2>1. cloud.torn = {}
    BY <1>0 DEF StoreInv, Held
  <2> QED BY <1>0, <1>1, <2>1, FullIsArtifact DEF PartsInv
<1>3. Fails(cloud) \/ Finished(c, Window) \/ Fails(c)
  BY DEF completeMultipartUpload
<1>4. /\ c \in Clouds /\ c.parts = cloud.parts /\ c.last = cloud.last
      /\ c.object = Artifact /\ c.image = cloud.image /\ c.snapshot = cloud.snapshot
      /\ c.open \subseteq cloud.open /\ c.torn = cloud.torn
  BY <1>2, Types DEF Clouds
<1> HIDE DEF c, t
<1>5. PartsInv(c, saved)
  BY <1>0, <1>4 DEF PartsInv, Intact, Whole
<1>6. Held(c, saved) /\ DiskHeld(c, saved)
  BY <1>0, <1>2, <1>4, <1>5 DEF Held, DiskHeld, Whole
<1>7. CASE Finished(c, Window)
  BY <1>0, <1>4, <1>6, <1>7, FinishedKeeps
<1>8. CASE Fails(c)
  BY <1>0, <1>4, <1>6, <1>8, FailsKeeps
<1>9. CASE Fails(cloud)
  BY <1>0, <1>9, SameFails
<1> QED BY <1>3, <1>7, <1>8, <1>9

(* After an upload, an object, image and snapshot that are the artifact or *)
(* absent if the session is intact are held for it.                        *)
LEMMA WholeHeld ==
  ASSUME StoreInv, kind \in {"aws", "gcp"}, saved.phase = "uploaded",
         NEW c \in Clouds, c.parts = cloud.parts,
         c.last = cloud.last, c.open = cloud.open, c.torn = cloud.torn,
         Intact(cloud, saved)
           => c.object \in Whole /\ c.image \in Whole /\ c.snapshot \in Whole
  PROVE  Held(c, saved) /\ DiskHeld(c, saved)
<1>1. PartsInv(c, saved)
  BY DEF StoreInv, Held, PartsInv, Intact
<1>2. kind = "aws" => c.torn = {} /\ c.object \in Whole
  BY DEF StoreInv, Held, Intact
<1> QED BY <1>1, <1>2 DEF Held, DiskHeld

(* The deletions of CleanupLocalImage change the object, the image and the *)
(* snapshot only.                                                          *)
LEMMA LocalImageCleaned ==
  ASSUME NEW c \in Clouds, NEW l \in CleanupLocalImage(c)
  PROVE  /\ l \in Clouds /\ l.parts = c.parts /\ l.last = c.last /\ l.open = c.open
         /\ l.torn = c.torn /\ l.object \in {c.object, Absent} /\ l.image \in {c.image, Absent}
         /\ l.snapshot \in {c.snapshot, Absent}
<1>1. PICK i \in {c.image, Absent}, s \in {c.snapshot, Absent}, o \in {c.object, Absent} :
        l = [c EXCEPT !.image = i, !.snapshot = s, !.object = o]
  BY DEF CleanupLocalImage
<1>2. i \in Content /\ s \in Content /\ o \in Content
  BY <1>1, ConstantsAreContent DEF Clouds
<1>3. /\ l \in Clouds /\ l.parts = c.parts /\ l.last = c.last /\ l.open = c.open
      /\ l.torn = c.torn
      /\ l.object = o /\ l.image = i /\ l.snapshot = s
  BY <1>1, <1>2 DEF Clouds
<1> QED BY <1>1, <1>3

(* RegisterAMI: an image found or made is that of the object, and a        *)
(* failure deletes only.                                                   *)
LEMMA RegisterAMIKeeps ==
  ASSUME StoreInv, kind = "aws", job = "active", pod.pc = "register", RegisterAMI
  PROVE  StoreInv'
<1> DEFINE found == cloud.image # Absent
           imported == importSnapshot
           made == registerImage
           done == IF found THEN cloud ELSE made
           gone == [done EXCEPT !.object = Absent]
<1>0. /\ cloud \in Clouds /\ saved.phase = "uploaded" /\ Absent \in Whole
      /\ cloud.object \in Whole /\ cloud.image \in Whole /\ cloud.snapshot \in Whole
      /\ Whole \subseteq Content /\ Intact(cloud, saved)
  BY Types, ConstantsAreContent DEF StoreInv, PhaseInv, Held, PartsInv, Intact, Whole
<1>1. /\ imported \in Clouds /\ imported.parts = cloud.parts /\ imported.last = cloud.last
      /\ imported.open = cloud.open /\ imported.torn = cloud.torn /\ imported.object = cloud.object
      /\ imported.image = cloud.image /\ imported.snapshot \in Whole
  BY <1>0 DEF importSnapshot, Clouds
<1>2. /\ made \in Clouds /\ made.parts = cloud.parts /\ made.last = cloud.last
      /\ made.open = cloud.open /\ made.torn = cloud.torn /\ made.object = cloud.object
      /\ made.image = imported.snapshot /\ made.snapshot = imported.snapshot
  <2> HIDE DEF imported
  <2>1. made = [imported EXCEPT !.image = imported.snapshot]
    BY DEF registerImage, imported
  <2>2. imported.snapshot \in Content
    BY <1>0, <1>1
  <2> HIDE DEF made
  <2> QED BY <1>1, <2>1, <2>2 DEF Clouds
<1>3. \/ \E c \in CleanupLocalImage(cloud) : Fails(c)
      \/ \E c \in CleanupLocalImage(imported) : Fails(c)
      \/ \E c \in CleanupLocalImage(done) : Fails(c)
      \/ (found \/ imported.snapshot # Absent) /\ (Registered(gone, TRUE) \/ Registered(done, TRUE))
  BY DEF RegisterAMI
<1> HIDE DEF imported, made
<1>4. /\ done \in Clouds /\ done.parts = cloud.parts /\ done.last = cloud.last
      /\ done.open = cloud.open /\ done.torn = cloud.torn /\ done.object \in Whole
      /\ done.image \in Whole /\ done.snapshot \in Whole
  BY <1>0, <1>1, <1>2
<1>5. found \/ imported.snapshot # Absent => done.image = Artifact
  BY <1>0, <1>1, <1>2 DEF Whole
<1> HIDE DEF done
<1>6. /\ gone \in Clouds /\ gone.parts = cloud.parts /\ gone.last = cloud.last
      /\ gone.open = cloud.open /\ gone.torn = cloud.torn /\ gone.object \in Whole
      /\ gone.image = done.image /\ gone.snapshot \in Whole
  BY <1>0, <1>4 DEF Clouds
<1> HIDE DEF gone
<1>7. ASSUME NEW b \in {cloud, imported, done}, NEW c \in CleanupLocalImage(b), Fails(c)
      PROVE  StoreInv'
  <2>1. /\ b \in Clouds /\ b.parts = cloud.parts /\ b.last = cloud.last
        /\ b.open = cloud.open /\ b.torn = cloud.torn /\ b.object \in Whole
        /\ b.image \in Whole /\ b.snapshot \in Whole
    BY <1>0, <1>1, <1>4
  <2>2. /\ c \in Clouds /\ c.parts = cloud.parts /\ c.last = cloud.last
        /\ c.open = cloud.open /\ c.torn = cloud.torn /\ c.object \in Whole
        /\ c.image \in Whole /\ c.snapshot \in Whole
    BY <1>0, <1>7, <2>1, LocalImageCleaned
  <2>3. Held(c, saved) /\ DiskHeld(c, saved)
    BY <1>0, <2>2, WholeHeld
  <2> QED BY <1>0, <1>7, <2>2, <2>3, FailsKeeps
<1>8. ASSUME found \/ imported.snapshot # Absent, Registered(gone, TRUE) \/ Registered(done, TRUE)
      PROVE  StoreInv'
  <2>1. /\ Held(gone, saved) /\ DiskHeld(gone, saved)
        /\ Held(done, saved) /\ DiskHeld(done, saved)
    BY <1>0, <1>4, <1>6, WholeHeld
  <2>2. gone.image = Artifact /\ done.image = Artifact
    BY <1>5, <1>6, <1>8
  <2> QED BY <1>4, <1>6, <1>8, <2>1, <2>2, RegisteredKeeps
<1> QED BY <1>3, <1>7, <1>8

(* The cleanup of AWS deletes the image and the object only.               *)
LEMMA AWSCleanupKeeps ==
  ASSUME StoreInv, AWSCleanup \/ AWSDeleteArtifact
  PROVE  StoreInv'
<1>0. job = "cleaning" /\ kind = "aws"
  BY DEF AWSCleanup, AWSDeleteArtifact, Cleaning
<1>1. CASE AWSDeleteArtifact
  <2>1. CleanupReturns(cloud, ~Cached, TRUE) /\ (~Cached) \in BOOLEAN /\ Held(cloud, saved)
    BY <1>1 DEF AWSDeleteArtifact, StoreInv
  <2> QED BY <1>0, <2>1, Types, CleanupReturnsKeeps
<1>2. CASE AWSCleanup
  <2>1. PICK image \in {cloud.image, Absent}, object \in {cloud.object, Absent},
             ok \in BOOLEAN :
          CleanupReturns([cloud EXCEPT !.image = image, !.object = object], ok, TRUE)
    <3>1. PICK image \in {cloud.image} \cup (IF Recorded = "none" THEN {} ELSE {Absent}),
               object \in {cloud.object, Absent} :
            CleanupReturns([cloud EXCEPT !.image = image, !.object = object],
              /\ object = Absent
              /\ Recorded # "none" => image = Absent
              /\ Recorded = "registered" => cloud.image # Absent,
              TRUE)
      BY <1>2 DEF AWSCleanup
    <3>2. image \in {cloud.image, Absent}
      BY <3>1
    <3> QED BY <3>1, <3>2
  <2> DEFINE c == [cloud EXCEPT !.image = image, !.object = object]
  <2>2. image \in Content /\ object \in Content
    BY <2>1, Types, ConstantsAreContent DEF Clouds
  <2>3. /\ c \in Clouds /\ c.parts = cloud.parts /\ c.last = cloud.last
        /\ c.open = cloud.open /\ c.object = object /\ c.image = image
        /\ c.snapshot = cloud.snapshot /\ c.torn = cloud.torn
    BY <2>2, Types DEF Clouds
  <2>4. CleanupReturns(c, ok, TRUE)
    BY <2>1
  <2> HIDE DEF c
  <2>5. Held(c, saved)
    BY <1>0, <2>1, <2>3, DeletedHeld
  <2> QED BY <1>0, <2>1, <2>3, <2>4, <2>5, CleanupReturnsKeeps
<1> QED BY <1>1, <1>2

(* Every operation of the AWS plugin keeps the invariant.                  *)
LEMMA AWSKeeps ==
  ASSUME StoreInv, AWSNext
  PROVE  StoreInv'
<1>1. CASE prepareMultipartSession
  BY <1>1, SessionPrepared, SameFails DEF prepareMultipartSession, At
<1>2. CASE AWSRegister
  BY <1>2, RegisterAMIKeeps, SameFails DEF AWSRegister, At
<1> QED
  BY <1>1, <1>2, uploadMultipartResumeKeeps, completeMultipartUploadKeeps,
     AWSCleanupKeeps DEF AWSNext

-----------------------------------------------------------------------------
(* Azure                                                                   *)

(* What BlobInv says is all that Azure holds for a session.                *)
LEMMA BlobHeld ==
  ASSUME StoreInv, kind = "azure", NEW c, BlobInv(c, saved)
  PROVE  Held(c, saved) /\ DiskHeld(c, saved)
BY DEF Held, DiskHeld

(* preparePageBlobSession: a blob with a token is taken on trust, which is *)
(* right as long as it is the blob of that token.                          *)
LEMMA preparePageBlobSessionKeeps ==
  ASSUME StoreInv, preparePageBlobSession
  PROVE  StoreInv'
<1>0. /\ kind = "azure" /\ job = "active" /\ pod.pc = "prepare" /\ saved.phase = "uploading"
      /\ BlobInv(cloud, saved) /\ Held(cloud, saved) /\ cloud.image = Absent
  BY DEF preparePageBlobSession, At, StoreInv, PhaseInv, Held, BlobInv
<1>1. CASE cloud.object # Absent /\ saved.token = 0
  BY <1>0, <1>1, SameFails DEF preparePageBlobSession
<1>2. CASE cloud.object # Absent /\ saved.token # 0
  <2>1. /\ Prepared(cloud, saved.token, saved.offset) /\ Len(cloud.object) = Units
        /\ saved.token \notin cloud.torn => Begins(cloud.object, saved.offset)
    BY <1>0, <1>2 DEF preparePageBlobSession, BlobInv, Intact
  <2> QED BY <1>0, <1>2, <2>1, Types, PreparedKeeps
<1>3. CASE cloud.object = Absent
  <2> DEFINE c == [cloud EXCEPT !.object = Zeroes, !.torn = {}]
             d == [c EXCEPT !.torn = IF saved.offset = 0 THEN {} ELSE {saved.token}]
  <2>1. Accepted(c, 1, 0) \/ Fails(d)
    BY <1>3 DEF preparePageBlobSession
  <2>2. /\ c \in Clouds /\ c.object = Zeroes /\ c.image = cloud.image
        /\ c.torn = {}
    BY Types, ConstantsAreContent DEF Clouds
  <2>3. /\ d \in Clouds /\ d.object = Zeroes /\ d.image = cloud.image
        /\ d.torn = IF saved.offset = 0 THEN {} ELSE {saved.token}
    <3> HIDE DEF c
    <3> QED BY <2>2, Types DEF Clouds
  <2> HIDE DEF c, d
  <2>4. Begins(Zeroes, 0) /\ Len(Zeroes) = Units /\ Zeroes # Absent
    BY Types, ConstantsAreContent DEF Begins
  <2>5. BlobInv(d, saved)
    BY <1>0, <2>3, <2>4 DEF BlobInv, Intact, Whole
  <2>6. 1 \in 0 .. MaxTokens /\ 0 \in 0 .. Units /\ 1 # 0
    BY Types
  <2>7. Held(d, saved) /\ DiskHeld(d, saved)
    BY <1>0, <2>5, BlobHeld
  <2>8. CASE Accepted(c, 1, 0)
    BY <1>0, <2>2, <2>4, <2>6, <2>8, AcceptedKeeps
  <2>9. CASE Fails(d)
    BY <1>0, <2>3, <2>7, <2>9, FailsKeeps
  <2> QED BY <2>1, <2>8, <2>9
<1> QED BY <1>1, <1>2, <1>3

(* Writing the pages of a range leaves those before it and makes the       *)
(* beginning longer.                                                       *)
LEMMA PagesUploaded ==
  ASSUME StoreInv, Readable, pod.pos = pod.offset, cloud.object \in Content,
         Len(cloud.object) = Units
  PROVE  LET d == UploadPages(pod.offset) IN
         /\ d \in Content /\ Len(d) = Units
         /\ Begins(cloud.object, pod.offset) => Begins(d, pod.offset + Count)
         /\ \A n \in 0 .. Units : Begins(cloud.object, n) => Begins(d, n)
<1> DEFINE n == pod.offset
           d == UploadPages(n)
<1>1. /\ Count \in Nat /\ n \in Nat /\ n + Count <= Units /\ Units \in Nat
  BY CountBounds, Types
<1>2. \A i \in 1 .. Units : cloud.object[i] \in 0 .. Units
  BY ContentFacts
<1>3. \A i \in n + 1 .. n + Count : Chunk[i - n] = i
  <2> SUFFICES ASSUME NEW i \in n + 1 .. n + Count PROVE Chunk[i - n] = i
    OBVIOUS
  <2>1. i - n \in 1 .. Count /\ n + (i - n) = i
    BY <1>1
  <2> QED BY <2>1, ChunkFacts
<1>4. \A i \in 1 .. Units :
        d[i] = IF i \in n + 1 .. n + Count THEN Chunk[i - n] ELSE cloud.object[i]
  BY DEF UploadPages
<1>5. d = [i \in 1 .. Units |-> d[i]]
  BY DEF UploadPages
<1> HIDE DEF d
<1>6. \A i \in 1 .. Units : d[i] \in 0 .. Units
  BY <1>1, <1>2, <1>3, <1>4
<1>7. d \in [1 .. Units -> 0 .. Units]
  BY <1>5, <1>6
<1>8. d \in Content /\ d \in Seq(0 .. Units) /\ Len(d) = Units
  <2>1. d \in Content
    BY <1>1, <1>7 DEF Content
  <2>2. d \in Seq(0 .. Units)
    BY <2>1, ContentFacts
  <2>3. Len(d) = Units
    BY <1>1, <1>7
  <2> QED BY <2>1, <2>2, <2>3
<1>9. ASSUME Begins(cloud.object, n) PROVE \A i \in 1 .. n + Count : d[i] = i
  BY <1>1, <1>3, <1>4, <1>9 DEF Begins
<1>10. \A m \in 0 .. Units : Begins(cloud.object, m) => Begins(d, m)
  <2> SUFFICES ASSUME NEW m \in 0 .. Units, Begins(cloud.object, m),
                      NEW i \in 1 .. m
               PROVE  d[i] = i
    BY <1>8, Types DEF Begins
  <2> QED BY <1>1, <1>3, <1>4 DEF Begins
<1>11. Begins(cloud.object, n) => Begins(d, n + Count)
  BY <1>1, <1>8, <1>9 DEF Begins
<1> QED BY <1>8, <1>10, <1>11 DEF d

(* uploadPageBlobResume: pages are written, and the checkpoint or the Pod  *)
(* may be lost after it.                                                   *)
LEMMA uploadPageBlobResumeKeeps ==
  ASSUME StoreInv, uploadPageBlobResume
  PROVE  StoreInv'
<1> DEFINE n == pod.offset
           d == UploadPages(n)
           c == [cloud EXCEPT !.object = d]
<1>0. /\ kind = "azure" /\ job = "active" /\ pod.pc = "send" /\ saved.phase = "uploading"
      /\ BlobInv(cloud, saved) /\ cloud.object \in Content /\ Readable
      /\ cloud.image = Absent
  BY Types DEF uploadPageBlobResume, At, StoreInv, PhaseInv, Held, Clouds, BlobInv
<1>1. CASE cloud.object = Absent
  BY <1>0, <1>1, SameFails DEF uploadPageBlobResume
<1>2. CASE cloud.object # Absent
  <2>1. /\ pod.pos = n /\ pod.token = saved.token
        /\ pod.token \notin cloud.torn => Begins(cloud.object, n)
    BY <1>0, <1>2 DEF StoreInv, TransferInv, Offset
  <2>2. /\ Count \in Nat /\ n + Count \in 0 .. Units /\ pod.pos + Count \in 0 .. Units
        /\ n <= n + Count
    BY <1>0, CountBounds, Types
  <2>3. Stored(c, n + Count, Window) \/ Fails(c)
    BY <1>2 DEF uploadPageBlobResume
  <2>4. Len(cloud.object) = Units
    BY <1>0, <1>2 DEF BlobInv
  <2>5. /\ d \in Content /\ Len(d) = Units
        /\ Begins(cloud.object, n) => Begins(d, n + Count)
        /\ \A m \in 0 .. Units : Begins(cloud.object, m) => Begins(d, m)
    BY <1>0, <2>1, <2>4, PagesUploaded
  <2> HIDE DEF d
  <2>6. c \in Clouds /\ c.object = d /\ c.image = cloud.image /\ c.torn = cloud.torn
    BY <2>5, Types DEF Clouds
  <2> HIDE DEF c
  <2>7. BlobInv(c, saved)
    BY <1>0, <1>2, <2>5, <2>6, Types DEF BlobInv, Intact, Whole
  <2>8. Held(c, saved) /\ DiskHeld(c, saved)
    BY <1>0, <2>7, BlobHeld
  <2>9. CASE Stored(c, n + Count, Window)
    BY <1>0, <2>1, <2>2, <2>5, <2>6, <2>8, <2>9, StoredKeeps
  <2>10. CASE Fails(c)
    BY <1>0, <2>6, <2>8, <2>10, FailsKeeps
  <2> QED BY <2>3, <2>9, <2>10
<1> QED BY <1>1, <1>2

(* An upload that is complete at its last chunk ends without another call. *)
LEMMA SameFinished ==
  ASSUME StoreInv, kind \in {"azure", "gcp"}, job = "active", pod.pc = "send",
         pod.offset = Units, Finished(cloud, Window)
  PROVE  StoreInv'
<1>1. Held(cloud, saved)
  BY DEF StoreInv
<1> QED BY <1>1, Types, FinishedKeeps

(* The deletions of CleanupBlobImage change the version, the image and the *)
(* blob only.                                                              *)
LEMMA BlobImageCleaned ==
  ASSUME NEW c \in Clouds, NEW known \in BOOLEAN, NEW l \in CleanupBlobImage(c, known)
  PROVE  /\ l \in Clouds /\ l.parts = c.parts /\ l.last = c.last /\ l.open = c.open
         /\ l.torn = c.torn /\ l.object \in {c.object, Absent} /\ l.image \in {c.image, Absent}
         /\ l.snapshot = c.snapshot
<1>1. PICK v \in {c.version, FALSE}, i \in {c.image, Absent}, o \in {c.object, Absent} :
        l = Leaves(c, v, i, o)
  <2> DEFINE V == {c.version, FALSE}
             I == {c.image, Absent}
             O == {c.object} \cup (IF known THEN {Absent} ELSE {})
  <2>1. CleanupBlobImage(c, known) = {Leaves(c, v, i, o) : v \in V, i \in I, o \in O}
    BY DEF CleanupBlobImage
  <2>2. \A o \in O : o \in {c.object, Absent}
    OBVIOUS
  <2> HIDE DEF V, I, O
  <2>3. \E v \in V, i \in I, o \in O : l = Leaves(c, v, i, o)
    BY <2>1
  <2> QED BY <2>2, <2>3 DEF V, I
<1>2. i \in Content /\ o \in Content /\ v \in BOOLEAN
  BY <1>1, ConstantsAreContent DEF Clouds
<1>3. /\ l \in Clouds /\ l.parts = c.parts /\ l.last = c.last /\ l.open = c.open
      /\ l.torn = c.torn
      /\ l.object = o /\ l.image = i /\ l.snapshot = c.snapshot
  BY <1>1, <1>2 DEF Clouds, Leaves
<1> QED BY <1>1, <1>3

(* AzureRegister: the image is made of the blob, and a failure deletes     *)
(* only.                                                                   *)
LEMMA AzureRegisterKeeps ==
  ASSUME StoreInv, AzureRegister
  PROVE  StoreInv'
<1> DEFINE made == RegisterImage
           published == publishGalleryVersion
<1>0. /\ kind = "azure" /\ job = "active" /\ pod.pc = "register" /\ saved.phase = "uploaded"
      /\ cloud \in Clouds
      /\ Intact(cloud, saved) => cloud.object \in Whole /\ cloud.image \in Whole
      /\ Absent \in Whole /\ Whole \subseteq Content
      /\ cloud.object # Absent => Len(cloud.object) = Units
  BY Types, ConstantsAreContent
  DEF AzureRegister, At, StoreInv, PhaseInv, Held, BlobInv, Intact, Whole, Clouds
<1>1. /\ made \in Clouds /\ made.object = cloud.object /\ made.image = cloud.object
      /\ made.torn = cloud.torn
  BY <1>0 DEF RegisterImage, Clouds
<1>2. published \in Clouds /\ published.object = cloud.object
      /\ published.image = cloud.object /\ published.torn = cloud.torn
  <2>1. published = [made EXCEPT !.version = layout = "gallery"]
    BY DEF publishGalleryVersion
  <2> HIDE DEF published, made
  <2> QED BY <1>1, <2>1 DEF Clouds
<1>3. \/ \E l \in {cloud, made, published} : \E c \in CleanupBlobImage(l, BlobNamed) : Fails(c)
      \/ cloud.object # Absent /\ Registered(published, FALSE)
  BY DEF AzureRegister
<1> HIDE DEF made, published
<1>4. ASSUME NEW c \in Clouds, c.torn = cloud.torn,
             Intact(cloud, saved) => c.object \in Whole /\ c.image \in Whole,
             c.object # Absent => Len(c.object) = Units
      PROVE  Held(c, saved) /\ DiskHeld(c, saved)
  <2>1. BlobInv(c, saved)
    BY <1>0, <1>4 DEF BlobInv, Intact
  <2> QED BY <1>0, <2>1, BlobHeld
<1>5. ASSUME NEW l \in {cloud, made, published}, NEW c \in CleanupBlobImage(l, BlobNamed),
             Fails(c)
      PROVE  StoreInv'
  <2>1. /\ l \in Clouds /\ l.object = cloud.object /\ l.torn = cloud.torn
        /\ Intact(cloud, saved) => l.image \in Whole
    BY <1>0, <1>1, <1>2
  <2>2. /\ c \in Clouds /\ c.object \in {cloud.object, Absent} /\ c.torn = cloud.torn
        /\ Intact(cloud, saved) => c.image \in Whole
    <3>1. BlobNamed \in BOOLEAN
      BY Types DEF BlobNamed
    <3> QED BY <1>0, <1>5, <2>1, <3>1, BlobImageCleaned
  <2>3. Held(c, saved) /\ DiskHeld(c, saved)
    BY <1>0, <1>4, <2>2
  <2> QED BY <1>0, <1>5, <2>2, <2>3, FailsKeeps
<1>6. CASE cloud.object # Absent /\ Registered(published, FALSE)
  <2>1. Intact(published, saved) => published.image = Artifact
    BY <1>0, <1>2, <1>6 DEF Whole, Intact
  <2>2. Held(published, saved) /\ DiskHeld(published, saved)
    BY <1>0, <1>2, <1>4
  <2> QED BY <1>0, <1>2, <1>6, <2>1, <2>2, RegisteredKeeps
<1> QED BY <1>3, <1>5, <1>6

(* What is recorded has been uploaded.                                     *)
LEMMA RecordedPhase ==
  ASSUME StoreInv, Recorded # "none"
  PROVE  saved.phase # "uploading"
BY DEF StoreInv, PhaseInv, Recorded

(* The cleanup of Azure deletes only, and nothing of an upload that is not *)
(* recorded.                                                               *)
LEMMA AzureCleanupKeeps ==
  ASSUME StoreInv, AzureCleanup \/ AzureDeleteArtifact
  PROVE  StoreInv'
<1>0. job = "cleaning" /\ kind = "azure" /\ Held(cloud, saved)
  BY DEF AzureCleanup, AzureDeleteArtifact, Cleaning, StoreInv
<1>1. \/ \E cached \in BOOLEAN : CleanupReturns(cloud, TRUE, cached)
      \/ /\ Recorded # "none"
         /\ \E c \in CleanupBlobImage(cloud, TRUE), ok \in BOOLEAN, cached \in BOOLEAN :
              CleanupReturns(c, ok, cached)
  <2>1. CASE AzureCleanup
    <3>1. CASE Recorded = "none"
      BY <2>1, <3>1 DEF AzureCleanup
    <3>2. CASE Recorded # "none"
      <4>1. PICK c \in CleanupBlobImage(cloud, TRUE) :
              CleanupReturns(c, ~(Recorded = "registered" /\ c.version)
                                /\ c.image = Absent /\ c.object = Absent, TRUE)
        BY <2>1, <3>2 DEF AzureCleanup
      <4> QED BY <3>2, <4>1
    <3> QED BY <3>1, <3>2
  <2>2. CASE AzureDeleteArtifact
    <3>1. CASE ~Cached
      BY <2>2, <3>1 DEF AzureDeleteArtifact
    <3>2. CASE Cached
      <4>1. PICK c \in CleanupBlobImage(cloud, TRUE) :
              CleanupReturns(c, c.image = Absent /\ c.object = Absent,
                             ~(c.image = Absent /\ c.object = Absent))
        BY <2>2, <3>2 DEF AzureDeleteArtifact
      <4> QED BY <3>2, <4>1 DEF Cached
    <3> QED BY <3>1, <3>2
  <2> QED BY <2>1, <2>2
<1>2. ASSUME NEW cached \in BOOLEAN, CleanupReturns(cloud, TRUE, cached)
      PROVE  StoreInv'
  BY <1>0, <1>2, Types, CleanupReturnsKeeps
<1>3. ASSUME Recorded # "none", NEW c \in CleanupBlobImage(cloud, TRUE), NEW ok \in BOOLEAN,
             NEW cached \in BOOLEAN, CleanupReturns(c, ok, cached)
      PROVE  StoreInv'
  <2>1. /\ c \in Clouds /\ c.parts = cloud.parts /\ c.last = cloud.last
        /\ c.open = cloud.open /\ c.torn = cloud.torn
        /\ c.object \in {cloud.object, Absent} /\ c.image \in {cloud.image, Absent} /\ c.snapshot = cloud.snapshot
    BY <1>3, Types, BlobImageCleaned
  <2>2. Held(c, saved)
    BY <1>3, <2>1, DeletedHeld, RecordedPhase
  <2> QED BY <1>0, <1>3, <2>1, <2>2, CleanupReturnsKeeps
<1> QED BY <1>1, <1>2, <1>3

(* Every operation of the Azure plugin keeps the invariant.                *)
LEMMA AzureKeeps ==
  ASSUME StoreInv, AzureNext
  PROVE  StoreInv'
<1>1. CASE AzureUploaded
  BY <1>1, SameFinished DEF AzureUploaded, At
<1> QED
  BY <1>1, preparePageBlobSessionKeeps, uploadPageBlobResumeKeeps, AzureRegisterKeeps,
     AzureCleanupKeeps DEF AzureNext

-----------------------------------------------------------------------------
(* GCP                                                                     *)

(* uploadGCSResume: what is committed of a chunk makes the beginning       *)
(* longer, unless the Pod sent it out of place, and the last unit makes    *)
(* the object.                                                             *)
LEMMA uploadGCSResumeKeeps ==
  ASSUME StoreInv, uploadGCSResume
  PROVE  StoreInv'
<1> DEFINE t == pod.token
           n == pod.offset
<1>0. /\ kind = "gcp" /\ job = "active" /\ pod.pc = "send" /\ saved.phase = "uploading"
  BY DEF uploadGCSResume, At, StoreInv, PhaseInv
<1>1. CASE BodyEnds \/ pod.token \notin cloud.open
  BY <1>0, <1>1, SameFails DEF uploadGCSResume
<1>2. CASE ~(BodyEnds \/ pod.token \notin cloud.open)
  <2>1. Readable
    BY <1>2 DEF uploadGCSResume
  <2>2. PICK m \in 1 .. Count :
          LET parts == SubSeq(cloud.parts[t], 1, n) \o SubSeq(Chunk, 1, m)
              b == [cloud EXCEPT !.parts[t] = parts,
                                 !.torn = IF pod.pos = n THEN @ ELSE @ \cup {t},
                                 !.object = IF Len(parts) = Units THEN parts ELSE @]
          IN  Stored(b, n + m, Window) \/ Fails(b)
    BY <1>2 DEF uploadGCSResume, gcsRangeOffset
  <2> DEFINE d == SubSeq(cloud.parts[t], 1, n) \o SubSeq(Chunk, 1, m)
             c == [cloud EXCEPT !.parts[t] = d,
                                !.torn = IF pod.pos = n THEN @ ELSE @ \cup {t},
                                !.object = IF Len(d) = Units THEN d ELSE @]
  <2>3. Stored(c, n + m, Window) \/ Fails(c)
    BY <2>2
  <2>4. m \in 0 .. Count
    BY <2>1, CountBounds
  <2>5. /\ d \in Content /\ Len(d) = n + m
        /\ t \notin cloud.torn /\ pod.pos = n => Begins(d, n + m)
        /\ t \in Tokens /\ t <= cloud.last /\ t = saved.token
        /\ Len(cloud.parts[t]) = n /\ PartsInv(cloud, saved)
        /\ cloud.parts \in [Tokens -> Content] /\ m \in Nat
        /\ n + m \in 0 .. Units /\ pod.pos + Count \in 0 .. Units
    BY <1>0, <2>1, <2>4, NextPart
  <2> HIDE DEF d
  <2>6. /\ c \in Clouds /\ c.parts = [cloud.parts EXCEPT ![t] = d] /\ c.last = cloud.last
        /\ c.object = (IF Len(d) = Units THEN d ELSE cloud.object)
        /\ c.image = cloud.image /\ c.snapshot = cloud.snapshot /\ c.open = cloud.open
        /\ c.torn = (IF pod.pos = n THEN cloud.torn ELSE cloud.torn \cup {t})
    BY <2>5, Types DEF Clouds
  <2> HIDE DEF c
  <2>7. /\ cloud.torn \subseteq c.torn
        /\ t \notin c.torn => t \notin cloud.torn /\ pod.pos = n
    BY <2>6
  <2>8. t \notin c.torn => Begins(d, Len(d))
    BY <2>5, <2>7
  <2>9. t \notin c.torn /\ Len(d) = Units => c.object \in Whole
    BY <2>5, <2>6, <2>8, FullIsArtifact DEF Whole
  <2>10. Len(cloud.parts[t]) <= Len(d) /\ n <= n + m
    BY <2>5, Types
  <2>11. Held(c, saved) /\ c.parts[t] = d
    <3>1. /\ c.parts[t] = d /\ \A u \in Tokens : u # t => c.parts[u] = cloud.parts[u]
      BY <2>5, <2>6
    <3> HIDE DEF t, n
    <3>2. Held(c, saved)
      BY <1>0, <2>5, <2>6, <2>7, <2>8, <2>9, <2>10, <3>1, PartAdded
    <3> QED BY <3>1, <3>2
  <2>12. DiskHeld(c, saved)
    BY <1>0 DEF DiskHeld
  <2> HIDE DEF n, t
  <2>13. CASE Stored(c, n + m, Window)
    BY <1>0, <2>5, <2>6, <2>10, <2>11, <2>13, StoredKeeps DEF n, t
  <2>14. CASE Fails(c)
    BY <1>0, <2>6, <2>11, <2>12, <2>14, FailsKeeps
  <2> QED BY <2>3, <2>13, <2>14
<1> QED BY <1>1, <1>2

(* GCPRegister: an image found or made is that of the object, which may    *)
(* then go.                                                                *)
LEMMA GCPRegisterKeeps ==
  ASSUME StoreInv, GCPRegister
  PROVE  StoreInv'
<1> DEFINE made == createImage
           gone == [made EXCEPT !.object = Absent]
<1>0. /\ kind = "gcp" /\ job = "active" /\ pod.pc = "register" /\ saved.phase = "uploaded"
      /\ cloud \in Clouds
      /\ Intact(cloud, saved)
           => cloud.object \in Whole /\ cloud.image \in Whole /\ cloud.snapshot \in Whole
      /\ Absent \in Whole /\ Whole \subseteq Content
  BY Types, ConstantsAreContent
  DEF GCPRegister, At, StoreInv, PhaseInv, Held, PartsInv, Intact, Whole
<1>1. /\ made \in Clouds /\ made.parts = cloud.parts /\ made.last = cloud.last
      /\ made.open = cloud.open /\ made.object = cloud.object
      /\ made.torn = cloud.torn /\ made.snapshot = cloud.snapshot
      /\ Intact(cloud, saved) => made.image \in Whole
  BY <1>0 DEF createImage, Clouds
<1>2. \/ Fails(cloud) \/ Fails(made)
      \/ /\ made.image # Absent
         /\ Registered(made, FALSE) \/ Registered(gone, FALSE) \/ Fails(gone)
  BY DEF GCPRegister
<1> HIDE DEF made
<1>3. /\ gone \in Clouds /\ gone.parts = cloud.parts /\ gone.last = cloud.last
      /\ gone.open = cloud.open /\ gone.object = Absent
      /\ gone.torn = cloud.torn /\ gone.image = made.image
      /\ gone.snapshot = cloud.snapshot
  BY <1>0, <1>1 DEF Clouds
<1> HIDE DEF gone
<1>4. /\ Held(made, saved) /\ DiskHeld(made, saved)
      /\ Held(gone, saved) /\ DiskHeld(gone, saved)
  BY <1>0, <1>1, <1>3, WholeHeld
<1>5. CASE Fails(cloud)
  BY <1>0, <1>5, SameFails
<1>6. CASE Fails(made) \/ Fails(gone)
  BY <1>0, <1>1, <1>3, <1>4, <1>6, FailsKeeps
<1>7. CASE made.image # Absent /\ (Registered(made, FALSE) \/ Registered(gone, FALSE))
  <2>1. /\ Intact(made, saved) => made.image = Artifact
        /\ Intact(gone, saved) => gone.image = Artifact
    BY <1>1, <1>3, <1>7 DEF Whole, Intact
  <2> QED BY <1>0, <1>1, <1>3, <1>4, <1>7, <2>1, RegisteredKeeps
<1> QED BY <1>2, <1>5, <1>6, <1>7

(* The cleanup of GCP deletes the image and the object only.               *)
LEMMA GCPCleanupKeeps ==
  ASSUME StoreInv, GCPCleanup \/ GCPDeleteArtifact
  PROVE  StoreInv'
<1>0. job = "cleaning" /\ kind = "gcp"
  BY DEF GCPCleanup, GCPDeleteArtifact, Cleaning
<1>1. ASSUME NEW image \in {cloud.image, Absent}, NEW object \in {cloud.object, Absent},
             NEW ok \in BOOLEAN, NEW cached \in BOOLEAN,
             CleanupReturns([cloud EXCEPT !.image = image, !.object = object], ok, cached)
      PROVE  StoreInv'
  <2> DEFINE c == [cloud EXCEPT !.image = image, !.object = object]
  <2>1. image \in Content /\ object \in Content
    BY Types, ConstantsAreContent DEF Clouds
  <2>2. /\ c \in Clouds /\ c.parts = cloud.parts /\ c.last = cloud.last
        /\ c.open = cloud.open /\ c.object = object /\ c.image = image
        /\ c.snapshot = cloud.snapshot /\ c.torn = cloud.torn
    BY <2>1, Types DEF Clouds
  <2>3. CleanupReturns(c, ok, cached)
    BY <1>1
  <2> HIDE DEF c
  <2>4. Held(c, saved)
    BY <1>0, <2>2, DeletedHeld
  <2> QED BY <1>0, <2>2, <2>3, <2>4, CleanupReturnsKeeps
<1>2. ASSUME NEW ok \in BOOLEAN, NEW cached \in BOOLEAN, CleanupReturns(cloud, ok, cached)
      PROVE  StoreInv'
  <2>1. Held(cloud, saved)
    BY DEF StoreInv
  <2> QED BY <1>0, <1>2, <2>1, Types, CleanupReturnsKeeps
<1>3. CASE GCPCleanup
  <2>1. PICK image \in {cloud.image} \cup (IF Recorded = "registered" THEN {Absent} ELSE {}),
             object \in {cloud.object} \cup (IF Recorded # "none" THEN {Absent} ELSE {}) :
          CleanupReturns([cloud EXCEPT !.image = image, !.object = object],
            /\ Recorded = "registered" => image = Absent
            /\ Recorded # "none" => object = Absent,
            TRUE)
    BY <1>3 DEF GCPCleanup
  <2>2. image \in {cloud.image, Absent} /\ object \in {cloud.object, Absent}
    BY <2>1
  <2> QED BY <1>1, <2>1, <2>2
<1>4. CASE GCPDeleteArtifact
  <2>1. CASE Recorded # "none" /\ CleanupReturns([cloud EXCEPT !.object = Absent], TRUE, FALSE)
    <3> DEFINE c == [cloud EXCEPT !.object = Absent]
    <3>1. /\ c \in Clouds /\ c.parts = cloud.parts /\ c.last = cloud.last
          /\ c.open = cloud.open /\ c.object = Absent /\ c.image = cloud.image
          /\ c.snapshot = cloud.snapshot /\ c.torn = cloud.torn
      BY Types, ConstantsAreContent DEF Clouds
    <3>2. CleanupReturns(c, TRUE, FALSE)
      BY <2>1
    <3> HIDE DEF c
    <3>3. Held(c, saved)
      BY <1>0, <3>1, DeletedHeld
    <3> QED BY <1>0, <3>1, <3>2, <3>3, CleanupReturnsKeeps
  <2> QED BY <1>2, <1>4, <2>1 DEF GCPDeleteArtifact
<1> QED BY <1>3, <1>4

(* Every operation of the GCP plugin keeps the invariant.                  *)
LEMMA GCPKeeps ==
  ASSUME StoreInv, GCPNext
  PROVE  StoreInv'
<1>1. CASE prepareGCSResumeSession
  BY <1>1, SessionPrepared DEF prepareGCSResumeSession, At
<1>2. CASE GCPUploaded
  BY <1>2, SameFinished DEF GCPUploaded, At
<1> QED
  BY <1>1, <1>2, uploadGCSResumeKeeps, GCPRegisterKeeps, GCPCleanupKeeps DEF GCPNext

-----------------------------------------------------------------------------
(* OpenStack                                                               *)

(* Every operation of the OpenStack plugin keeps the invariant: an image   *)
(* is filled before its reference is answered.                             *)
LEMMA OpenStackKeeps ==
  ASSUME StoreInv, OpenStackNext
  PROVE  StoreInv'
<1>0. /\ kind = "openstack" /\ cloud \in Clouds /\ Held(cloud, saved)
      /\ cloud.object \in Whole /\ cloud.image \in Whole
      /\ Absent \in Whole /\ Artifact \in Whole
      /\ Absent \in Content /\ Artifact \in Content
      /\ cloud.object \in Content
  BY Types, ConstantsAreContent
  DEF OpenStackNext, OpenStackPrepare, UploadImage, UploadImageFails, OpenStackRegister,
      OpenStackCleanup, At, Cleaning, StoreInv, Held, Whole, Clouds
<1>1. ASSUME NEW c, c.object \in Whole, c.image \in Whole
      PROVE  Held(c, saved) /\ DiskHeld(c, saved)
  BY <1>0, <1>1 DEF Held, DiskHeld
<1>2. CASE OpenStackPrepare
  <2>1. 1 \in 0 .. MaxTokens /\ 0 \in 0 .. Units /\ ~Offset(kind)
    BY <1>0, Types DEF Offset
  <2> QED BY <1>0, <1>2, <2>1, PreparedKeeps DEF OpenStackPrepare, At
<1>3. CASE UploadImage
  <2> DEFINE c == [cloud EXCEPT !.object = Artifact, !.stale = @ \/ cloud.object # Absent]
  <2>1. Finished(c, Window) \/ Fails(c)
    BY <1>3 DEF UploadImage
  <2>2. c \in Clouds /\ c.object = Artifact /\ c.image = cloud.image
    BY <1>0 DEF Clouds
  <2> HIDE DEF c
  <2>3. Held(c, saved) /\ DiskHeld(c, saved)
    BY <1>0, <1>1, <2>2
  <2>4. job = "active" /\ pod.pc = "send" /\ saved.phase = "uploading" /\ ~Offset(kind)
    BY <1>0, <1>3 DEF UploadImage, At, StoreInv, PhaseInv, Offset
  <2>5. CASE Finished(c, Window)
    BY <1>0, <2>2, <2>3, <2>4, <2>5, FinishedKeeps
  <2>6. CASE Fails(c)
    BY <1>0, <2>2, <2>3, <2>4, <2>6, FailsKeeps
  <2> QED BY <2>1, <2>5, <2>6
<1>4. CASE UploadImageFails
  <2> DEFINE c == [cloud EXCEPT !.stale = TRUE]
  <2>1. Fails(c) /\ job = "active"
    BY <1>4 DEF UploadImageFails, At
  <2>2. /\ c \in Clouds /\ c.object = cloud.object /\ c.image = cloud.image
        /\ c.torn = cloud.torn
    BY <1>0 DEF Clouds
  <2> HIDE DEF c
  <2>3. Held(c, saved) /\ DiskHeld(c, saved)
    BY <1>0, <1>1, <2>2
  <2> QED BY <2>1, <2>2, <2>3, FailsKeeps
<1>5. CASE OpenStackRegister
  <2> DEFINE c == [cloud EXCEPT !.image = cloud.object]
  <2>1. Registered(c, FALSE) /\ job = "active" /\ pod.pc = "register" /\ cloud.object # Absent
    BY <1>5 DEF OpenStackRegister, At
  <2>2. c \in Clouds /\ c.object = cloud.object /\ c.image = cloud.object
    BY <1>0 DEF Clouds
  <2> HIDE DEF c
  <2>3. Held(c, saved) /\ DiskHeld(c, saved)
    BY <1>0, <1>1, <2>2
  <2>4. c.image = Artifact
    BY <1>0, <2>1, <2>2 DEF Whole
  <2> QED BY <2>1, <2>2, <2>3, <2>4, RegisteredKeeps
<1>6. CASE OpenStackCleanup
  <2> DEFINE c == [cloud EXCEPT !.object = Absent, !.image = Absent]
  <2>1. \/ CleanupReturns(cloud, TRUE, TRUE) \/ CleanupReturns(cloud, FALSE, TRUE)
        \/ CleanupReturns(c, TRUE, FALSE)
    BY <1>6 DEF OpenStackCleanup
  <2>2. c \in Clouds /\ c.object = Absent /\ c.image = Absent
    BY <1>0 DEF Clouds
  <2> HIDE DEF c
  <2>3. Held(c, saved) /\ job = "cleaning"
    BY <1>0, <1>1, <1>6, <2>2 DEF OpenStackCleanup, Cleaning
  <2> QED BY <1>0, <2>1, <2>2, <2>3, CleanupReturnsKeeps
<1> QED BY <1>2, <1>3, <1>4, <1>5, <1>6 DEF OpenStackNext

-----------------------------------------------------------------------------
(* vSphere                                                                 *)

(* Of vSphere only the template is held for a session.                     *)
LEMMA TemplateHeld ==
  ASSUME StoreInv, kind = "vsphere", NEW c, layout = "ova" => c.image \in Whole
  PROVE  Held(c, saved)
BY DEF Held

(* A registration that fails may delete the file, which a template does    *)
(* not need.                                                               *)
LEMMA RegisterFailsKeeps ==
  ASSUME StoreInv, kind = "vsphere", layout # "vmdk", job = "active", pod.pc = "register",
         NEW c \in Clouds, layout = "ova" => c.image \in Whole, RegisterFails(c)
  PROVE  StoreInv'
<1> DEFINE g == [c EXCEPT !.object = Absent]
<1>1. g \in Clouds /\ g.image = c.image
  BY ConstantsAreContent DEF Clouds
<1>2. Fails(c) \/ Fails(g)
  BY DEF RegisterFails
<1> HIDE DEF g
<1>3. Held(c, saved) /\ Held(g, saved) /\ DiskHeld(c, saved) /\ DiskHeld(g, saved)
  BY <1>1, TemplateHeld DEF DiskHeld
<1>4. saved.phase = "uploaded"
  BY DEF StoreInv, PhaseInv
<1> QED BY <1>1, <1>2, <1>3, <1>4, FailsKeeps

(* importOVF makes the template of the local archive.                      *)
LEMMA importOVFKeeps ==
  ASSUME StoreInv, kind = "vsphere", layout # "vmdk", job = "active", pod.pc = "register",
         importOVF
  PROVE  StoreInv'
<1> DEFINE made == [cloud EXCEPT !.image = Artifact]
<1>1. made \in Clouds /\ made.image = Artifact /\ Artifact \in Whole
  BY Types, ConstantsAreContent DEF Clouds, Whole
<1>2. Registered(made, FALSE) \/ RegisterFails(made)
  BY DEF importOVF
<1> HIDE DEF made
<1>3. Held(made, saved) /\ DiskHeld(made, saved)
  BY <1>1, TemplateHeld DEF DiskHeld
<1>4. CASE Registered(made, FALSE)
  BY <1>1, <1>3, <1>4, RegisteredKeeps
<1>5. CASE RegisterFails(made)
  BY <1>1, <1>5, RegisterFailsKeeps
<1> QED BY <1>2, <1>4, <1>5

(* VSphereRegister, for the three layouts.                                 *)
LEMMA VSphereRegisterKeeps ==
  ASSUME StoreInv, VSphereRegister
  PROVE  StoreInv'
<1>0. /\ kind = "vsphere" /\ job = "active" /\ pod.pc = "register"
      /\ saved.phase = "uploaded" /\ cloud \in Clouds /\ Held(cloud, saved)
      /\ DiskHeld(cloud, saved) /\ layout \in {"vmdk", "ova", "library"}
      /\ layout = "ova" => cloud.image \in Whole
  BY Types
  DEF VSphereRegister, At, StoreInv, UploadType, Layouts, PhaseInv, Held
<1>1. CASE layout = "vmdk"
  <2> DEFINE c == [cloud EXCEPT !.image = cloud.object]
  <2>1. Registered(c, FALSE)
    BY <1>1 DEF VSphereRegister
  <2>2. c \in Clouds /\ c.image = cloud.object /\ c.object = cloud.object
    BY <1>0 DEF Clouds
  <2> HIDE DEF c
  <2>3. Held(c, saved) /\ DiskHeld(c, saved)
    BY <1>0, <1>1, <2>2, TemplateHeld DEF DiskHeld
  <2>4. Claimed => c.image = Artifact
    BY <1>0, <1>1, <2>2 DEF Claimed, DiskHeld
  <2> QED BY <1>0, <2>1, <2>2, <2>3, <2>4, RegisteredKeeps
<1>2. CASE layout # "vmdk" /\ cloud.image # Absent
  <2>1. Registered(cloud, FALSE) \/ RegisterFails(cloud)
    BY <1>2 DEF VSphereRegister
  <2>2. CASE Registered(cloud, FALSE)
    <3>1. Claimed => cloud.image = Artifact
      BY <1>0, <1>2 DEF Claimed, Whole
    <3> QED BY <1>0, <2>2, <3>1, RegisteredKeeps
  <2>3. CASE RegisterFails(cloud)
    BY <1>0, <1>2, <2>3, RegisterFailsKeeps
  <2> QED BY <2>1, <2>2, <2>3
<1>3. CASE layout # "vmdk" /\ cloud.image = Absent
  <2> DEFINE b == [cloud EXCEPT !.image = Broken]
  <2>1. \/ RegisterFails(cloud) \/ importOVF
        \/ layout = "library" /\ RegisterFails(b)
    BY <1>3 DEF VSphereRegister, publishContentLibraryItem
  <2>2. b \in Clouds
    BY <1>0, ConstantsAreContent DEF Clouds
  <2> HIDE DEF b
  <2>3. CASE layout = "library" /\ RegisterFails(b)
    BY <1>0, <2>2, <2>3, RegisterFailsKeeps
  <2>4. CASE RegisterFails(cloud)
    BY <1>0, <1>3, <2>4, RegisterFailsKeeps
  <2>5. CASE importOVF
    BY <1>0, <1>3, <2>5, importOVFKeeps
  <2> QED BY <2>1, <2>3, <2>4, <2>5
<1> QED BY <1>1, <1>2, <1>3

(* The upload of a vSphere file: it is overwritten as a whole.             *)
LEMMA VSphereUploadKeeps ==
  ASSUME StoreInv, VSpherePrepare \/ UploadDatastoreFile \/ UploadDatastoreFileFails
  PROVE  StoreInv'
<1>0. /\ kind = "vsphere" /\ job = "active" /\ saved.phase = "uploading"
      /\ cloud \in Clouds /\ Held(cloud, saved) /\ ~Offset(kind)
      /\ layout = "ova" => cloud.image \in Whole
  BY Types DEF VSpherePrepare, UploadDatastoreFile, UploadDatastoreFileFails, At, StoreInv,
               PhaseInv, Held, Offset
<1>1. ASSUME NEW c, c.image = cloud.image
      PROVE  Held(c, saved) /\ DiskHeld(c, saved)
  BY <1>0, <1>1, TemplateHeld DEF DiskHeld
<1>2. CASE VSpherePrepare
  <2>1. 1 \in 0 .. MaxTokens /\ 0 \in 0 .. Units
    BY Types
  <2> QED BY <1>0, <1>2, <2>1, PreparedKeeps DEF VSpherePrepare, At
<1>3. CASE UploadDatastoreFile
  <2> DEFINE c == [cloud EXCEPT !.object = Artifact]
  <2>1. (Finished(c, Window) \/ Fails(c)) /\ pod.pc = "send"
    BY <1>3 DEF UploadDatastoreFile, At
  <2>2. c \in Clouds /\ c.object = Artifact /\ c.image = cloud.image
    BY <1>0, ConstantsAreContent DEF Clouds
  <2> HIDE DEF c
  <2>3. Held(c, saved) /\ DiskHeld(c, saved)
    BY <1>1, <2>2
  <2>4. CASE Finished(c, Window)
    BY <1>0, <2>1, <2>2, <2>3, <2>4, FinishedKeeps
  <2>5. CASE Fails(c)
    BY <1>0, <2>2, <2>3, <2>5, FailsKeeps
  <2> QED BY <2>1, <2>4, <2>5
<1>4. CASE UploadDatastoreFileFails
  <2> DEFINE o == IF via = "plugin" THEN Absent ELSE Broken
             c == [cloud EXCEPT !.object = o]
  <2>1. Fails(c)
    BY <1>4 DEF UploadDatastoreFileFails
  <2>2. o \in Content
    BY ConstantsAreContent
  <2> HIDE DEF o
  <2>3. c \in Clouds /\ c.image = cloud.image
    BY <1>0, <2>2 DEF Clouds
  <2> HIDE DEF c
  <2>4. Held(c, saved) /\ DiskHeld(c, saved)
    BY <1>1, <2>3
  <2> QED BY <1>0, <2>1, <2>3, <2>4, FailsKeeps
<1> QED BY <1>2, <1>3, <1>4

(* The cleanup of vSphere deletes only.                                    *)
LEMMA VSphereCleanupKeeps ==
  ASSUME StoreInv, VSphereCleanup
  PROVE  StoreInv'
<1> DEFINE i == IF layout = "vmdk" THEN Absent ELSE cloud.image
           c == [cloud EXCEPT !.object = Absent, !.image = i]
<1>0. /\ kind = "vsphere" /\ job = "cleaning" /\ cloud \in Clouds /\ Held(cloud, saved)
      /\ Absent \in Whole /\ Absent \in Content
      /\ cloud.image \in Content
      /\ layout = "ova" => cloud.image \in Whole
  BY Types, ConstantsAreContent
  DEF VSphereCleanup, Cleaning, StoreInv, Held, Whole, Clouds
<1>1. \/ CleanupReturns(cloud, TRUE, TRUE) \/ CleanupReturns(cloud, FALSE, TRUE)
      \/ CleanupReturns(c, TRUE, FALSE)
  <2>1. CASE via = "grpc" /\ Recorded = "none"
    BY <2>1 DEF VSphereCleanup
  <2>2. CASE via = "grpc" /\ Recorded # "none" /\ ~Cached
    BY <2>2 DEF VSphereCleanup
  <2>3. CASE ~(via = "grpc" /\ Recorded = "none") /\ ~(via = "grpc" /\ Recorded # "none" /\ ~Cached)
    BY <2>3 DEF VSphereCleanup
  <2> QED BY <2>1, <2>2, <2>3
<1>2. i \in Content /\ (layout = "ova" => i \in Whole)
  BY <1>0
<1> HIDE DEF i
<1>3. c \in Clouds /\ c.image = i
  BY <1>0, <1>2 DEF Clouds
<1> HIDE DEF c
<1>4. Held(c, saved)
  BY <1>0, <1>2, <1>3, TemplateHeld
<1> QED BY <1>0, <1>1, <1>3, <1>4, CleanupReturnsKeeps

(* Every operation of the vSphere plugin keeps the invariant.              *)
LEMMA VSphereKeeps ==
  ASSUME StoreInv, VSphereNext
  PROVE  StoreInv'
BY VSphereUploadKeeps, VSphereRegisterKeeps, VSphereCleanupKeeps DEF VSphereNext

-----------------------------------------------------------------------------
(* The specification                                                       *)

(* The invariant holds before the first Pod.                               *)
LEMMA StoreInit ==
  ASSUME Init PROVE StoreInv
<1>0. /\ Units \in Nat /\ Units > 0 /\ MaxTokens \in Nat
  BY UnitsAssumption
<1>1. /\ cloud \in Clouds /\ cloud.parts = [t \in Tokens |-> <<>>] /\ cloud.open = {}
      /\ cloud.last = 0 /\ cloud.object = Absent /\ cloud.image = Absent
      /\ cloud.snapshot = Absent /\ cloud.torn = {}
  <2>1. <<>> \in Content /\ Absent \in Content
    BY ConstantsAreContent DEF Absent
  <2>2. [t \in Tokens |-> <<>>] \in [Tokens -> Content]
    BY <2>1
  <2> QED BY <1>0, <2>1, <2>2 DEF Init, Clouds
<1>2. /\ saved \in Sessions /\ saved.phase = "uploading" /\ saved.mode = "none"
      /\ saved.offset = 0 /\ ops = "none" /\ job = "active"
  BY <1>0 DEF Init, Sessions
<1>3. pod = NoPod /\ wire = NoWire /\ server \in [plugin : BOOLEAN, cache : BOOLEAN]
  BY DEF Init, NoServer
<1>4. UploadType
  BY <1>1, <1>2, <1>3, PodFields DEF Init, UploadType
<1>5. PhaseInv
  BY <1>2, <1>3, PodFields DEF PhaseInv
<1>6. PartsInv(cloud, saved)
  <2>1. \A t \in Tokens : cloud.parts[t] = <<>> /\ Len(cloud.parts[t]) = 0
    BY <1>1
  <2>2. \A t \in Tokens : Begins(cloud.parts[t], Len(cloud.parts[t]))
    BY <2>1 DEF Begins
  <2> QED BY <1>1, <1>2, <2>1, <2>2 DEF PartsInv, Intact, Whole
<1>7. BlobInv(cloud, saved)
  <2>1. Begins(Absent, 0)
    BY ConstantsAreContent DEF Begins
  <2> QED BY <1>1, <1>2, <2>1 DEF BlobInv, Intact, Whole
<1>8. Held(cloud, saved) /\ DiskHeld(cloud, saved)
  BY <1>1, <1>2, <1>6, <1>7 DEF Held, DiskHeld, Whole
<1>9. TransferInv(kind, cloud, saved, pod, wire)
  BY <1>3, PodFields DEF TransferInv
<1> QED BY <1>2, <1>3, <1>4, <1>5, <1>8, <1>9, PodFields DEF StoreInv

(* The invariant depends on the variables only.                            *)
LEMMA StutterKeeps ==
  ASSUME StoreInv, UNCHANGED vars
  PROVE  StoreInv'
BY DEF StoreInv, UploadType, PhaseInv, Held, DiskHeld, Claimed, Intact,
       TransferInv, vars

(* Every step keeps the invariant.                                         *)
LEMMA StepKeeps ==
  ASSUME StoreInv, [Next]_vars
  PROVE  StoreInv'
<1>1. CASE StreamNext
  BY <1>1, ClientSendsKeeps, ClientReceivesKeeps, StreamEndsKeeps, StreamReadsKeeps,
     ProviderRestartsKeeps, PodDiesKeeps DEF StreamNext, Streams
<1>2. CASE Plugins
  BY <1>2, AWSKeeps, AzureKeeps, GCPKeeps, OpenStackKeeps, VSphereKeeps DEF Plugins
<1>3. CASE StartPod \/ PodDies
  BY <1>3, StartPodKeeps, PodDiesKeeps
<1>4. CASE WriteUploaded \/ Record \/ RecordFails \/ WriteRegistered \/ RecordImage
  BY <1>4, WriteUploadedKeeps, RecordKeeps, RecordFailsKeeps, WriteRegisteredKeeps,
     RecordImageKeeps
<1>5. CASE UploadExpires \/ StartCleanup
  BY <1>5, UploadExpiresKeeps, StartCleanupKeeps
<1>6. CASE Done \/ UNCHANGED vars
  BY <1>6, StutterKeeps DEF Done
<1> QED BY <1>1, <1>2, <1>3, <1>4, <1>5, <1>6 DEF Next

(* Every variable has its type: offsets never leave the artifact and       *)
(* session numbers never pass MaxTokens, for artifacts, chunks, windows    *)
(* and numbers of sessions of any size.                                    *)
THEOREM UploadTypeCorrect ==
  Spec => []TypeOK
<1>1. StoreInv => TypeOK
  <2> SUFFICES ASSUME StoreInv PROVE TypeOK
    OBVIOUS
  <2>1. /\ cloud.open \subseteq Tokens /\ cloud.last \in 0 .. MaxTokens
        /\ cloud.parts \in [Tokens -> Content] /\ cloud.torn \subseteq 0 .. MaxTokens
        /\ cloud.object \in Content /\ cloud.snapshot \in Content /\ cloud.image \in Content
        /\ cloud.version \in BOOLEAN /\ cloud.stale \in BOOLEAN
    BY Types DEF Clouds
  <2>2. layout \in {"image", "gallery", "vmdk", "ova", "library"}
    BY DEF StoreInv, UploadType, Layouts
  <2>3. saved \in Sessions /\ pod \in Pods /\ wire.progress \in Seq(Messages)
        /\ wire.sent \in 0 .. Units
    BY Types
  <2> QED
    BY <2>1, <2>2, <2>3 DEF StoreInv, UploadType, TypeOK, Sessions, Pods, Messages
<1>2. StoreInv /\ [Next]_vars => StoreInv'
  BY StepKeeps
<1> QED BY StoreInit, <1>1, <1>2, PTL DEF Spec

(* The offset that uploadMultipartResume, uploadPageBlobResume,            *)
(* uploadGCSResume and the adapter checkpoint is never ahead of what the   *)
(* backend holds, whatever Pods, connections, providers and sessions are   *)
(* lost, for artifacts, chunks, windows and numbers of sessions of any     *)
(* size.                                                                   *)
THEOREM CommittedOffsetIsStored ==
  Spec => []CommittedIsStored
<1>1. StoreInv => CommittedIsStored
  <2> SUFFICES ASSUME StoreInv, saved.mode = "offset", saved.phase = "uploading",
                      saved.token \notin cloud.torn
               PROVE  CommittedIsStored
    BY DEF CommittedIsStored
  <2>0. saved.offset \in 0 .. Units /\ kind \in {"aws", "azure", "gcp"}
    BY Types DEF StoreInv, Offset
  <2>1. CASE kind = "azure"
    <3>1. /\ cloud.object \in Content
          /\ cloud.object # Absent => Begins(cloud.object, saved.offset)
      BY <2>1, Types DEF StoreInv, Held, BlobInv, Intact, Clouds
    <3>2. cloud.object # Absent => Stores(cloud.object, saved.offset)
      BY <2>0, <3>1, BeginsStores
    <3> QED BY <2>1, <3>2 DEF CommittedIsStored
  <2>2. CASE kind # "azure"
    <3> DEFINE p == cloud.parts[saved.token]
    <3>1. PartsInv(cloud, saved) /\ cloud.parts \in [Tokens -> Content]
      BY <2>0, <2>2, Types DEF StoreInv, Held, Clouds
    <3>2. saved.token \in Tokens /\ saved.offset <= Len(p)
      BY <3>1, Types DEF PartsInv, Tokens
    <3>3. p \in Content /\ Begins(p, Len(p))
      BY <3>1, <3>2 DEF PartsInv
    <3> HIDE DEF p
    <3>4. Len(p) \in Nat /\ saved.offset \in 0 .. Len(p)
      BY <2>0, <3>2, <3>3, ContentFacts, Types
    <3>5. Begins(p, saved.offset)
      BY <3>3, <3>4, BeginsLess
    <3>6. Stores(p, saved.offset)
      BY <2>0, <3>3, <3>5, BeginsStores
    <3> QED BY <2>2, <3>6 DEF CommittedIsStored, p
  <2> QED BY <2>1, <2>2
<1>2. StoreInv /\ [Next]_vars => StoreInv'
  BY StepKeeps
<1> QED BY StoreInit, <1>1, <1>2, PTL DEF Spec

(* An image whose registration the uploader has recorded is the whole      *)
(* artifact, unit by unit, for all five plugins, linked in or external,    *)
(* and any number of repeated, resumed or replaced uploads; of vSphere,    *)
(* the layouts that ImageIsArtifact does not leave out.                    *)
THEOREM RegisteredIsArtifact ==
  Spec => []ImageIsArtifact
<1>1. StoreInv => ImageIsArtifact
  BY DEF StoreInv, ImageIsArtifact, Claimed, Intact
<1>2. StoreInv /\ [Next]_vars => StoreInv'
  BY StepKeeps
<1> QED BY StoreInit, <1>1, <1>2, PTL DEF Spec

-----------------------------------------------------------------------------
(* Cleanup, for every value of the constants                               *)

(* A record with the fields that cleanup looks at.                         *)
Fields(c) == "object" \in DOMAIN c /\ "image" \in DOMAIN c /\ "version" \in DOMAIN c

(* Only Azure has versions.                                                *)
Plain(c) == Fields(c) /\ (kind # "azure" => c.version = FALSE)

(* The inductive invariant of cleanup: once the Job is done, nothing       *)
(* brings back what it deleted.                                            *)
CleanInv == layout \in Layouts(kind) /\ Plain(cloud) /\ CleanedTarget

(* A step after which the cleanup is not done keeps the invariant.         *)
LEMMA ActiveKeeps ==
  ASSUME CleanInv, NEW c, Plain(c), cloud' = c, job' # "cleaned",
         UNCHANGED <<kind, layout>>
  PROVE  CleanInv'
BY DEF CleanInv, Plain, Fields, CleanedTarget

(* So does every call of an upload Pod.                                    *)
LEMMA CallKeeps ==
  ASSUME CleanInv, job = "active", NEW c, Plain(c),
         \/ Fails(c)
         \/ \E t, o : Accepted(c, t, o)
         \/ \E o : Stored(c, o, Window)
         \/ Finished(c, Window)
         \/ \E b : Registered(c, b)
  PROVE  CleanInv'
<1>1. cloud' = c /\ job' # "cleaned" /\ UNCHANGED <<kind, layout>>
  BY DEF Fails, Accepted, Stored, Finished, Registered
<1> QED BY <1>1, ActiveKeeps

(* The invariant depends on the platform, the records and the Job only.    *)
LEMMA SameCleaned ==
  ASSUME CleanInv, UNCHANGED <<kind, via, layout, cloud, saved, ops, job>>
  PROVE  CleanInv'
BY DEF CleanInv, Plain, Fields, CleanedTarget, Recorded

(* A return of the cleanup Job keeps the invariant when "ok" means that    *)
(* all is deleted.                                                         *)
LEMMA CleanupKeeps ==
  ASSUME CleanInv, job = "cleaning", NEW c, Plain(c), NEW ok \in BOOLEAN, NEW cached,
         CleanupReturns(c, ok, cached),
         ok /\ Recorded # "none" /\ (via = "plugin" \/ kind = "openstack") =>
           /\ c.object = Absent
           /\ Recorded = "registered" =>
                ~c.version /\ (layout \notin {"ova", "library"} => c.image = Absent)
  PROVE  CleanInv'
<1>1. /\ cloud' = c /\ UNCHANGED <<kind, via, layout, saved, ops>>
      /\ job' = "cleaned" => ok
  BY DEF CleanupReturns
<1>2. Recorded' = Recorded
  BY <1>1 DEF Recorded
<1> QED BY <1>1, <1>2 DEF CleanInv, Plain, Fields, CleanedTarget

(* AWS: "ok" of AWSCleanup means that the object and a recorded image are  *)
(* gone.                                                                   *)
LEMMA AWSCleans ==
  ASSUME CleanInv, AWSNext
  PROVE  CleanInv'
<1>0. kind = "aws" /\ Plain(cloud) /\ Fields(cloud) /\ cloud.version = FALSE
  BY DEF AWSNext, prepareMultipartSession, uploadMultipartResume, completeMultipartUpload,
         AWSRegister, AWSCleanup, AWSDeleteArtifact, At, Cleaning, CleanInv, Plain
<1>1. ASSUME NEW c, Fields(c), c.version = FALSE PROVE Plain(c)
  BY <1>1 DEF Plain
<1>2. CASE prepareMultipartSession
  <2> DEFINE t == cloud.last + 1
             c == [cloud EXCEPT !.open = @ \cup {t}, !.last = t]
  <2>1. Plain(c)
    BY <1>0 DEF Plain, Fields
  <2>2. \/ Fails(cloud)
        \/ Prepared(cloud, saved.token, Len(cloud.parts[saved.token]))
        \/ Prepared(c, t, 0)
    BY <1>2 DEF prepareMultipartSession
  <2>3. job = "active"
    BY <1>2 DEF prepareMultipartSession, At
  <2> HIDE DEF t, c
  <2> QED BY <1>0, <2>1, <2>2, <2>3, CallKeeps DEF Prepared
<1>3. CASE uploadMultipartResume
  <2> DEFINE c == [cloud EXCEPT !.parts[pod.token] = SubSeq(@, 1, pod.offset) \o Chunk]
  <2>1. Plain(c)
    BY <1>0 DEF Plain, Fields
  <2>2. Fails(cloud) \/ Stored(c, pod.offset + Count, Window) \/ Fails(c)
    BY <1>3 DEF uploadMultipartResume
  <2>3. job = "active"
    BY <1>3 DEF uploadMultipartResume, At
  <2> HIDE DEF c
  <2> QED BY <1>0, <2>1, <2>2, <2>3, CallKeeps
<1>4. CASE completeMultipartUpload
  <2> DEFINE c == [cloud EXCEPT !.open = @ \ {pod.token}, !.object = cloud.parts[pod.token]]
  <2>1. Plain(c)
    BY <1>0 DEF Plain, Fields
  <2>2. Fails(cloud) \/ Finished(c, Window) \/ Fails(c)
    BY <1>4 DEF completeMultipartUpload
  <2>3. job = "active"
    BY <1>4 DEF completeMultipartUpload, At
  <2> HIDE DEF c
  <2> QED BY <1>0, <2>1, <2>2, <2>3, CallKeeps
<1>5. CASE AWSRegister
  <2> DEFINE imported == importSnapshot
             made == registerImage
             done == IF cloud.image # Absent THEN cloud ELSE made
             gone == [done EXCEPT !.object = Absent]
  <2>1. Fields(imported) /\ imported.version = FALSE
    BY <1>0 DEF importSnapshot, Fields
  <2>2. Fields(made) /\ made.version = FALSE
    <3> HIDE DEF imported
    <3>1. made = [imported EXCEPT !.image = imported.snapshot]
      BY DEF registerImage, imported
    <3> HIDE DEF made
    <3> QED BY <2>1, <3>1 DEF Fields
  <2>3. /\ job = "active"
        /\ \/ Fails(cloud)
           \/ \E b \in {cloud, imported, done} : \E c \in CleanupLocalImage(b) : Fails(c)
           \/ Registered(gone, TRUE) \/ Registered(done, TRUE)
    <3>1. job = "active" /\ (RegisterAMI \/ Fails(cloud))
      BY <1>5 DEF AWSRegister, At
    <3>2. RegisterAMI =>
           \/ \E c \in CleanupLocalImage(cloud) : Fails(c)
           \/ \E c \in CleanupLocalImage(imported) : Fails(c)
           \/ \E c \in CleanupLocalImage(done) : Fails(c)
           \/ Registered(gone, TRUE) \/ Registered(done, TRUE)
      BY DEF RegisterAMI
    <3> HIDE DEF imported, made, done, gone
    <3> QED BY <3>1, <3>2
  <2> HIDE DEF imported, made
  <2>4. Fields(done) /\ done.version = FALSE
    BY <1>0, <2>2
  <2> HIDE DEF done
  <2>5. Plain(gone)
    BY <2>4 DEF Plain, Fields
  <2> HIDE DEF gone
  <2>6. ASSUME NEW b \in {cloud, imported, done}, NEW c \in CleanupLocalImage(b) PROVE Plain(c)
    <3>1. Fields(b) /\ b.version = FALSE
      BY <1>0, <2>1, <2>4
    <3>2. PICK i \in {b.image, Absent}, s \in {b.snapshot, Absent}, o \in {b.object, Absent} :
            c = [b EXCEPT !.image = i, !.snapshot = s, !.object = o]
      BY <2>6 DEF CleanupLocalImage
    <3>3. Fields(c) /\ c.version = FALSE
      BY <3>1, <3>2 DEF Fields
    <3> QED BY <1>1, <3>3
  <2>7. Plain(done)
    BY <1>1, <2>4
  <2> QED BY <1>0, <2>3, <2>5, <2>6, <2>7, CallKeeps
<1>6. CASE AWSCleanup
  <2>1. PICK image \in {cloud.image} \cup (IF Recorded = "none" THEN {} ELSE {Absent}),
             object \in {cloud.object, Absent} :
          CleanupReturns([cloud EXCEPT !.image = image, !.object = object],
            /\ object = Absent
            /\ Recorded # "none" => image = Absent
            /\ Recorded = "registered" => cloud.image # Absent,
            TRUE)
    BY <1>6 DEF AWSCleanup
  <2> DEFINE c == [cloud EXCEPT !.image = image, !.object = object]
             ok == /\ object = Absent
                   /\ Recorded # "none" => image = Absent
                   /\ Recorded = "registered" => cloud.image # Absent
  <2>2. Plain(c) /\ c.image = image /\ c.object = object /\ c.version = FALSE
    BY <1>0 DEF Plain, Fields
  <2>3. CleanupReturns(c, ok, TRUE) /\ ok \in BOOLEAN
    BY <2>1
  <2>4. ok /\ Recorded # "none" => object = Absent /\ image = Absent
    OBVIOUS
  <2>5. job = "cleaning"
    BY <1>6 DEF AWSCleanup, Cleaning
  <2> HIDE DEF c, ok
  <2> QED BY <2>2, <2>3, <2>4, <2>5, CleanupKeeps
<1>7. CASE AWSDeleteArtifact
  <2>1. CleanupReturns(cloud, ~Cached, TRUE) /\ (~Cached) \in BOOLEAN
        /\ job = "cleaning" /\ via # "plugin" /\ kind # "openstack"
    BY <1>0, <1>7 DEF AWSDeleteArtifact, Cleaning
  <2> QED BY <1>0, <2>1, CleanupKeeps
<1> QED BY <1>2, <1>3, <1>4, <1>5, <1>6, <1>7 DEF AWSNext

(* CleanupBlobImage leaves a platform with the same fields.                *)
LEMMA BlobImageFields ==
  ASSUME NEW c, Fields(c), NEW known, NEW l \in CleanupBlobImage(c, known)
  PROVE  Fields(l)
<1> DEFINE V == {c.version, FALSE}
           I == {c.image, Absent}
           O == {c.object} \cup (IF known THEN {Absent} ELSE {})
<1>1. CleanupBlobImage(c, known) = {Leaves(c, v, i, o) : v \in V, i \in I, o \in O}
  BY DEF CleanupBlobImage
<1> HIDE DEF V, I, O
<1>2. PICK v \in V, i \in I, o \in O : l = Leaves(c, v, i, o)
  BY <1>1
<1> QED BY <1>2 DEF Leaves, Fields

(* Azure: "ok" of AzureCleanup means that version, image and blob are      *)
(* gone.                                                                   *)
LEMMA AzureCleans ==
  ASSUME CleanInv, AzureNext
  PROVE  CleanInv'
<1>0. kind = "azure" /\ Plain(cloud) /\ Fields(cloud)
  BY DEF AzureNext, preparePageBlobSession, uploadPageBlobResume, AzureUploaded,
         AzureRegister, AzureCleanup, AzureDeleteArtifact, At, Cleaning, CleanInv, Plain
<1>1. ASSUME NEW c, Fields(c) PROVE Plain(c)
  BY <1>0, <1>1 DEF Plain
<1>2. CASE preparePageBlobSession
  <2> DEFINE c == [cloud EXCEPT !.object = Zeroes, !.torn = {}]
             d == [c EXCEPT !.torn = IF saved.offset = 0 THEN {} ELSE {saved.token}]
  <2>1. Plain(c) /\ Plain(d)
    BY <1>0 DEF Plain, Fields
  <2>2. \/ Fails(cloud)
        \/ Prepared(cloud, saved.token, saved.offset)
        \/ Accepted(c, 1, 0) \/ Fails(d)
    BY <1>2 DEF preparePageBlobSession
  <2>3. job = "active"
    BY <1>2 DEF preparePageBlobSession, At
  <2> HIDE DEF c, d
  <2> QED BY <1>0, <2>1, <2>2, <2>3, CallKeeps DEF Prepared
<1>3. CASE uploadPageBlobResume
  <2> DEFINE c == [cloud EXCEPT !.object = UploadPages(pod.offset)]
  <2>1. Plain(c)
    BY <1>0 DEF Plain, Fields
  <2>2. Fails(cloud) \/ Stored(c, pod.offset + Count, Window) \/ Fails(c)
    BY <1>3 DEF uploadPageBlobResume
  <2>3. job = "active"
    BY <1>3 DEF uploadPageBlobResume, At
  <2> HIDE DEF c
  <2> QED BY <1>0, <2>1, <2>2, <2>3, CallKeeps
<1>4. CASE AzureUploaded
  BY <1>0, <1>4, CallKeeps DEF AzureUploaded, At
<1>5. CASE AzureRegister
  <2> DEFINE made == RegisterImage
             published == publishGalleryVersion
  <2>1. Fields(made)
    BY <1>0 DEF RegisterImage, Fields
  <2>2. Fields(published)
    <3>1. published = [made EXCEPT !.version = layout = "gallery"]
      BY DEF publishGalleryVersion
    <3> HIDE DEF made, published
    <3> QED BY <2>1, <3>1 DEF Fields
  <2>3. \/ \E l \in {cloud, made, published} : \E c \in CleanupBlobImage(l, BlobNamed) : Fails(c)
        \/ Registered(published, FALSE)
    BY <1>5 DEF AzureRegister
  <2>4. job = "active"
    BY <1>5 DEF AzureRegister, At
  <2> HIDE DEF made, published
  <2>5. ASSUME NEW l \in {cloud, made, published}, NEW c \in CleanupBlobImage(l, BlobNamed),
               Fails(c)
        PROVE  CleanInv'
    <3>1. Fields(l)
      BY <1>0, <2>1, <2>2
    <3>2. Plain(c)
      BY <1>1, <2>5, <3>1, BlobImageFields
    <3> QED BY <2>4, <2>5, <3>2, CallKeeps
  <2>6. Plain(published)
    BY <1>1, <2>2
  <2> QED BY <2>3, <2>4, <2>5, <2>6, CallKeeps
<1>6. CASE AzureCleanup
  <2>0. job = "cleaning"
    BY <1>6 DEF AzureCleanup, Cleaning
  <2>1. CASE Recorded = "none"
    <3>1. CleanupReturns(cloud, TRUE, TRUE)
      BY <1>6, <2>1 DEF AzureCleanup
    <3> QED BY <1>0, <2>0, <2>1, <3>1, CleanupKeeps
  <2>2. CASE Recorded # "none"
    <3> DEFINE ok(c) == ~(Recorded = "registered" /\ c.version)
                        /\ c.image = Absent /\ c.object = Absent
    <3>1. PICK c \in CleanupBlobImage(cloud, TRUE) : CleanupReturns(c, ok(c), TRUE)
      BY <1>6, <2>2 DEF AzureCleanup
    <3>2. Plain(c)
      BY <1>0, <1>1, <3>1, BlobImageFields
    <3>3. /\ ok(c) \in BOOLEAN
          /\ ok(c) => /\ c.object = Absent
                      /\ Recorded = "registered" => ~c.version /\ c.image = Absent
      OBVIOUS
    <3> HIDE DEF ok
    <3> QED BY <2>0, <3>1, <3>2, <3>3, CleanupKeeps
  <2> QED BY <2>1, <2>2
<1>7. CASE AzureDeleteArtifact
  <2>0. job = "cleaning" /\ via # "plugin" /\ kind # "openstack"
    BY <1>0, <1>7 DEF AzureDeleteArtifact, Cleaning
  <2>1. CASE ~Cached
    <3>1. CleanupReturns(cloud, TRUE, FALSE)
      BY <1>7, <2>1 DEF AzureDeleteArtifact
    <3> QED BY <1>0, <2>0, <3>1, CleanupKeeps
  <2>2. CASE Cached
    <3> DEFINE ok(c) == c.image = Absent /\ c.object = Absent
    <3>1. PICK c \in CleanupBlobImage(cloud, TRUE) : CleanupReturns(c, ok(c), ~ok(c))
      BY <1>7, <2>2 DEF AzureDeleteArtifact
    <3>2. Plain(c)
      BY <1>0, <1>1, <3>1, BlobImageFields
    <3>3. ok(c) \in BOOLEAN
      OBVIOUS
    <3> HIDE DEF ok
    <3> QED BY <2>0, <3>1, <3>2, <3>3, CleanupKeeps
  <2> QED BY <2>1, <2>2
<1> QED BY <1>2, <1>3, <1>4, <1>5, <1>6, <1>7 DEF AzureNext

(* GCP: "ok" of GCPCleanup means that the object and a registered image    *)
(* are gone.                                                               *)
LEMMA GCPCleans ==
  ASSUME CleanInv, GCPNext
  PROVE  CleanInv'
<1>0. kind = "gcp" /\ Plain(cloud) /\ Fields(cloud) /\ cloud.version = FALSE
  BY DEF GCPNext, prepareGCSResumeSession, uploadGCSResume, GCPUploaded,
         GCPRegister, GCPCleanup, GCPDeleteArtifact, At, Cleaning, CleanInv, Plain
<1>1. ASSUME NEW c, Fields(c), c.version = FALSE PROVE Plain(c)
  BY <1>1 DEF Plain
<1>2. CASE prepareGCSResumeSession
  <2> DEFINE t == cloud.last + 1
             c == [cloud EXCEPT !.open = @ \cup {t}, !.last = t]
  <2>1. Plain(c)
    BY <1>0 DEF Plain, Fields
  <2>2. \/ Prepared(cloud, saved.token, Len(cloud.parts[saved.token]))
        \/ Prepared(c, t, 0)
    BY <1>2 DEF prepareGCSResumeSession
  <2>3. job = "active"
    BY <1>2 DEF prepareGCSResumeSession, At
  <2> HIDE DEF t, c
  <2> QED BY <1>0, <2>1, <2>2, <2>3, CallKeeps DEF Prepared
<1>3. CASE uploadGCSResume
  <2> DEFINE parts(n) == SubSeq(cloud.parts[pod.token], 1, pod.offset) \o SubSeq(Chunk, 1, n)
             c(n) == [cloud EXCEPT !.parts[pod.token] = parts(n),
                                   !.torn = IF pod.pos = pod.offset THEN @
                                            ELSE @ \cup {pod.token},
                                   !.object = IF Len(parts(n)) = Units THEN parts(n) ELSE @]
  <2>1. job = "active"
    BY <1>3 DEF uploadGCSResume, At
  <2>2. CASE Fails(cloud)
    BY <1>0, <2>1, <2>2, CallKeeps
  <2>3. CASE ~Fails(cloud)
    <3>1. PICK n \in gcsRangeOffset : Stored(c(n), pod.offset + n, Window) \/ Fails(c(n))
      BY <1>3, <2>3 DEF uploadGCSResume
    <3> HIDE DEF parts
    <3>2. Plain(c(n))
      BY <1>0 DEF Plain, Fields
    <3> HIDE DEF c
    <3> QED BY <2>1, <3>1, <3>2, CallKeeps
  <2> QED BY <2>2, <2>3
<1>4. CASE GCPUploaded
  BY <1>0, <1>4, CallKeeps DEF GCPUploaded, At
<1>5. CASE GCPRegister
  <2> DEFINE made == createImage
             gone == [made EXCEPT !.object = Absent]
  <2>1. Fields(made) /\ made.version = FALSE
    BY <1>0 DEF createImage, Fields
  <2>2. /\ job = "active"
        /\ \/ Fails(cloud) \/ Fails(made) \/ Fails(gone)
           \/ Registered(made, FALSE) \/ Registered(gone, FALSE)
    BY <1>5 DEF GCPRegister, At
  <2> HIDE DEF made
  <2>3. Fields(gone) /\ gone.version = FALSE
    BY <2>1 DEF Fields
  <2> HIDE DEF gone
  <2> QED BY <1>0, <1>1, <2>1, <2>2, <2>3, CallKeeps
<1>6. CASE GCPCleanup
  <2>1. PICK image \in {cloud.image} \cup (IF Recorded = "registered" THEN {Absent} ELSE {}),
             object \in {cloud.object} \cup (IF Recorded # "none" THEN {Absent} ELSE {}) :
          CleanupReturns([cloud EXCEPT !.image = image, !.object = object],
            /\ Recorded = "registered" => image = Absent
            /\ Recorded # "none" => object = Absent,
            TRUE)
    BY <1>6 DEF GCPCleanup
  <2> DEFINE c == [cloud EXCEPT !.image = image, !.object = object]
             ok == /\ Recorded = "registered" => image = Absent
                   /\ Recorded # "none" => object = Absent
  <2>2. Plain(c) /\ c.image = image /\ c.object = object /\ c.version = FALSE
    BY <1>0 DEF Plain, Fields
  <2>3. CleanupReturns(c, ok, TRUE) /\ ok \in BOOLEAN
    BY <2>1
  <2>4. ok /\ Recorded # "none" => object = Absent /\ (Recorded = "registered" => image = Absent)
    OBVIOUS
  <2>5. job = "cleaning"
    BY <1>6 DEF GCPCleanup, Cleaning
  <2> HIDE DEF c, ok
  <2> QED BY <2>2, <2>3, <2>4, <2>5, CleanupKeeps
<1>7. CASE GCPDeleteArtifact
  <2> DEFINE c == [cloud EXCEPT !.object = Absent]
  <2>1. /\ job = "cleaning" /\ via # "plugin" /\ kind # "openstack"
        /\ \/ CleanupReturns(cloud, TRUE, TRUE)
           \/ CleanupReturns(c, TRUE, FALSE)
           \/ CleanupReturns(cloud, FALSE, TRUE)
    BY <1>0, <1>7 DEF GCPDeleteArtifact, Cleaning
  <2>2. Plain(c)
    BY <1>0 DEF Plain, Fields
  <2> HIDE DEF c
  <2> QED BY <1>0, <2>1, <2>2, CleanupKeeps
<1> QED BY <1>2, <1>3, <1>4, <1>5, <1>6, <1>7 DEF GCPNext

(* OpenStack: the image is the object, so one deletion removes both.       *)
LEMMA OpenStackCleans ==
  ASSUME CleanInv, OpenStackNext
  PROVE  CleanInv'
<1>0. kind = "openstack" /\ Plain(cloud) /\ Fields(cloud) /\ cloud.version = FALSE
  BY DEF OpenStackNext, OpenStackPrepare, UploadImage, UploadImageFails,
         OpenStackRegister, OpenStackCleanup, At, Cleaning, CleanInv, Plain
<1>1. CASE OpenStackPrepare
  BY <1>0, <1>1, CallKeeps DEF OpenStackPrepare, At, Prepared
<1>2. CASE UploadImage
  <2> DEFINE c == [cloud EXCEPT !.object = Artifact, !.stale = @ \/ cloud.object # Absent]
  <2>1. job = "active" /\ (Finished(c, Window) \/ Fails(c))
    BY <1>2 DEF UploadImage, At
  <2>2. Plain(c)
    BY <1>0 DEF Plain, Fields
  <2> HIDE DEF c
  <2> QED BY <2>1, <2>2, CallKeeps
<1>3. CASE UploadImageFails
  <2> DEFINE c == [cloud EXCEPT !.stale = TRUE]
  <2>1. job = "active" /\ Fails(c)
    BY <1>3 DEF UploadImageFails, At
  <2>2. Plain(c)
    BY <1>0 DEF Plain, Fields
  <2> HIDE DEF c
  <2> QED BY <2>1, <2>2, CallKeeps
<1>4. CASE OpenStackRegister
  <2> DEFINE c == [cloud EXCEPT !.image = cloud.object]
  <2>1. job = "active" /\ Registered(c, FALSE)
    BY <1>4 DEF OpenStackRegister, At
  <2>2. Plain(c)
    BY <1>0 DEF Plain, Fields
  <2> HIDE DEF c
  <2> QED BY <2>1, <2>2, CallKeeps
<1>5. CASE OpenStackCleanup
  <2> DEFINE c == [cloud EXCEPT !.object = Absent, !.image = Absent]
  <2>1. /\ job = "cleaning"
        /\ \/ Recorded = "none" /\ CleanupReturns(cloud, TRUE, TRUE)
           \/ CleanupReturns(c, TRUE, FALSE)
           \/ CleanupReturns(cloud, FALSE, TRUE)
    BY <1>5 DEF OpenStackCleanup, Cleaning
  <2>2. Plain(c) /\ c.object = Absent /\ c.image = Absent /\ c.version = FALSE
    BY <1>0 DEF Plain, Fields
  <2> HIDE DEF c
  <2> QED BY <1>0, <2>1, <2>2, CleanupKeeps
<1> QED BY <1>1, <1>2, <1>3, <1>4, <1>5 DEF OpenStackNext

(* vSphere: the file is gone, and with the layout "vmdk" the image with    *)
(* it.                                                                     *)
LEMMA VSphereCleans ==
  ASSUME CleanInv, VSphereNext
  PROVE  CleanInv'
<1>0. /\ kind = "vsphere" /\ Plain(cloud) /\ Fields(cloud) /\ cloud.version = FALSE
      /\ layout \in {"vmdk", "ova", "library"}
  BY DEF VSphereNext, VSpherePrepare, UploadDatastoreFile, UploadDatastoreFileFails,
         VSphereRegister, VSphereCleanup, At, Cleaning, CleanInv, Plain, Layouts
<1>1. CASE VSpherePrepare
  BY <1>0, <1>1, CallKeeps DEF VSpherePrepare, At, Prepared
<1>2. ASSUME NEW o PROVE Plain([cloud EXCEPT !.object = o])
  BY <1>0 DEF Plain, Fields
<1>3. CASE UploadDatastoreFile
  <2> DEFINE c == [cloud EXCEPT !.object = Artifact]
  <2>1. job = "active" /\ (Finished(c, Window) \/ Fails(c))
    BY <1>3 DEF UploadDatastoreFile, At
  <2>2. Plain(c)
    BY <1>2
  <2> HIDE DEF c
  <2> QED BY <2>1, <2>2, CallKeeps
<1>4. CASE UploadDatastoreFileFails
  <2> DEFINE c == [cloud EXCEPT !.object = IF via = "plugin" THEN Absent ELSE Broken]
  <2>1. job = "active" /\ Fails(c)
    BY <1>4 DEF UploadDatastoreFileFails, At
  <2>2. Plain(c)
    BY <1>2
  <2> HIDE DEF c
  <2> QED BY <2>1, <2>2, CallKeeps
<1>5. CASE VSphereRegister
  <2>0. job = "active"
    BY <1>5 DEF VSphereRegister, At
  <2>1. ASSUME NEW i PROVE LET c == [cloud EXCEPT !.image = i]
                           IN  Fields(c) /\ c.version = FALSE /\ Plain(c)
    BY <1>0 DEF Plain, Fields
  <2>2. ASSUME NEW c, Fields(c), c.version = FALSE, RegisterFails(c) PROVE CleanInv'
    <3> DEFINE g == [c EXCEPT !.object = Absent]
    <3>1. Plain(c) /\ Plain(g)
      BY <2>2 DEF Plain, Fields
    <3>2. Fails(c) \/ Fails(g)
      BY <2>2 DEF RegisterFails
    <3> HIDE DEF g
    <3> QED BY <2>0, <3>1, <3>2, CallKeeps
  <2>3. PICK i \in {Artifact, Broken, cloud.object} :
             \/ Registered([cloud EXCEPT !.image = i], FALSE)
             \/ RegisterFails([cloud EXCEPT !.image = i])
             \/ Registered(cloud, FALSE)
             \/ RegisterFails(cloud)
    <3>1. CASE layout = "vmdk"
      BY <1>5, <3>1 DEF VSphereRegister
    <3>2. CASE layout # "vmdk" /\ cloud.image # Absent
      BY <1>5, <3>2 DEF VSphereRegister
    <3>3. CASE layout # "vmdk" /\ cloud.image = Absent
      BY <1>5, <3>3 DEF VSphereRegister, importOVF, publishContentLibraryItem
    <3> QED BY <3>1, <3>2, <3>3
  <2> DEFINE c == [cloud EXCEPT !.image = i]
  <2>4. Fields(c) /\ c.version = FALSE /\ Plain(c)
    BY <2>1
  <2>5. Registered(c, FALSE) \/ RegisterFails(c) \/ Registered(cloud, FALSE) \/ RegisterFails(cloud)
    BY <2>3
  <2> HIDE DEF c
  <2>6. CASE RegisterFails(c) \/ RegisterFails(cloud)
    BY <1>0, <2>2, <2>4, <2>6
  <2>7. CASE Registered(c, FALSE) \/ Registered(cloud, FALSE)
    BY <1>0, <2>0, <2>4, <2>7, CallKeeps
  <2> QED BY <2>5, <2>6, <2>7
<1>6. CASE VSphereCleanup
  <2> DEFINE i == IF layout = "vmdk" THEN Absent ELSE cloud.image
             c == [cloud EXCEPT !.object = Absent, !.image = i]
  <2>1. /\ job = "cleaning"
        /\ \/ (Recorded = "none" /\ CleanupReturns(cloud, TRUE, TRUE))
           \/ CleanupReturns(cloud, FALSE, TRUE)
           \/ CleanupReturns(c, TRUE, FALSE)
    <3>1. CASE via = "grpc" /\ Recorded = "none"
      BY <1>6, <3>1 DEF VSphereCleanup, Cleaning
    <3>2. CASE via = "grpc" /\ Recorded # "none" /\ ~Cached
      BY <1>6, <3>2 DEF VSphereCleanup, Cleaning
    <3>3. CASE ~(via = "grpc" /\ Recorded = "none") /\ ~(via = "grpc" /\ Recorded # "none" /\ ~Cached)
      BY <1>6, <3>3 DEF VSphereCleanup, Cleaning
    <3> QED BY <3>1, <3>2, <3>3
  <2>2. layout \notin {"ova", "library"} => i = Absent
    BY <1>0
  <2> HIDE DEF i
  <2>3. Plain(c) /\ c.object = Absent /\ c.image = i /\ c.version = FALSE
    BY <1>0 DEF Plain, Fields
  <2> HIDE DEF c
  <2> QED BY <1>0, <2>1, <2>2, <2>3, CleanupKeeps
<1> QED BY <1>1, <1>3, <1>4, <1>5, <1>6 DEF VSphereNext

(* The steps of the Pods, the stream and the Jobs.                         *)
LEMMA OtherCleans ==
  ASSUME CleanInv, StartPod \/ PodDies \/ StreamNext \/ WriteUploaded \/ Record
                   \/ RecordFails \/ WriteRegistered \/ RecordImage \/ StartCleanup
  PROVE  CleanInv'
<1>0. Plain(cloud)
  BY DEF CleanInv
<1>1. CASE StartPod
  BY <1>1, SameCleaned DEF StartPod
<1>2. CASE PodDies \/ Uninitialised
  BY <1>0, <1>2, CallKeeps DEF PodDies, Uninitialised
<1>3. CASE ClientSends \/ StreamEnds
  BY <1>3, SameCleaned DEF ClientSends, StreamEnds
<1>4. CASE ClientReceives
  <2>1. CASE Fails(cloud)
    BY <1>0, <1>4, <2>1, CallKeeps DEF ClientReceives, Streaming
  <2>2. CASE ~Fails(cloud)
    <3>1. UNCHANGED <<kind, layout, cloud, job>> /\ job = "active"
      BY <1>4, <2>2 DEF ClientReceives, Streaming
    <3> QED BY <1>0, <3>1, ActiveKeeps
  <2> QED BY <2>1, <2>2
<1>5. CASE StreamReads
  <2>1. job = "active" /\ (UNCHANGED <<kind, layout, cloud, job>>
                           \/ Stored(cloud, pod.offset + Count, Window))
    BY <1>5 DEF StreamReads, Streaming
  <2>2. CASE UNCHANGED <<kind, layout, cloud, job>>
    BY <1>0, <2>1, <2>2, ActiveKeeps
  <2> QED BY <1>0, <2>1, <2>2, CallKeeps
<1>6. CASE ProviderRestarts
  <2>1. CASE Streaming
    BY <1>0, <1>6, <2>1, ActiveKeeps DEF ProviderRestarts
  <2>2. CASE ~Streaming
    BY <1>6, <2>2, SameCleaned DEF ProviderRestarts
  <2> QED BY <2>1, <2>2
<1>7. CASE WriteUploaded \/ Record \/ WriteRegistered \/ RecordImage \/ StartCleanup
  <2>1. cloud' = cloud /\ job' # "cleaned" /\ UNCHANGED <<kind, layout>>
    BY <1>7 DEF WriteUploaded, Record, WriteRegistered, RecordImage, StartCleanup
  <2> QED BY <1>0, <2>1, ActiveKeeps
<1>8. CASE RecordFails
  <2> DEFINE g == [cloud EXCEPT !.object = Absent]
  <2>1. job = "active" /\ (Fails(cloud) \/ Fails(g))
    BY <1>8 DEF RecordFails
  <2>2. Plain(g)
    BY <1>0 DEF Plain, Fields
  <2> HIDE DEF g
  <2> QED BY <1>0, <2>1, <2>2, CallKeeps
<1> QED
  BY <1>1, <1>2, <1>3, <1>4, <1>5, <1>6, <1>7, <1>8 DEF StreamNext, Streams

(* A cleanup Job that succeeds has deleted what was recorded, for every    *)
(* value of the constants, with partial chunks and expiring sessions too.  *)
THEOREM CleanedTargetIsGone ==
  Spec => []CleanedTarget
<1>1. Init => CleanInv
  <2> SUFFICES ASSUME Init PROVE CleanInv
    OBVIOUS
  <2>1. Fields(cloud) /\ cloud.version = FALSE
    BY DEF Init, Fields
  <2>2. CleanedTarget
    BY DEF Init, CleanedTarget
  <2> QED BY <2>1, <2>2 DEF Init, CleanInv, Plain
<1>2. CleanInv /\ [Next]_vars => CleanInv'
  <2> SUFFICES ASSUME CleanInv, [Next]_vars PROVE CleanInv'
    OBVIOUS
  <2>1. CASE Plugins
    BY <2>1, AWSCleans, AzureCleans, GCPCleans, OpenStackCleans, VSphereCleans DEF Plugins
  <2>2. CASE UploadExpires
    <3>1. PICK c \in {[cloud EXCEPT !.open = @ \ {t}] : t \in cloud.open}
                       \cup {[cloud EXCEPT !.object = Absent]} : cloud' = c
      BY <2>2 DEF UploadExpires
    <3>2. Plain(c)
      BY <3>1 DEF CleanInv, Plain, Fields
    <3>3. job' # "cleaned" /\ UNCHANGED <<kind, layout>>
      BY <2>2 DEF UploadExpires
    <3> QED BY <3>1, <3>2, <3>3, ActiveKeeps
  <2>3. CASE Done \/ UNCHANGED vars
    BY <2>3, SameCleaned DEF Done, vars
  <2> QED BY <2>1, <2>2, <2>3, OtherCleans DEF Next
<1>3. CleanInv => CleanedTarget
  BY DEF CleanInv
<1> QED BY <1>1, <1>2, <1>3, PTL DEF Spec
=============================================================================
