------------------------- MODULE BuildEngineProofs -------------------------
(***************************************************************************)
(* Proofs about the build engine, for any number of builders that share a  *)
(* cache, any manifests and any number of restarts of sidecars.            *)
(* EngineInvariant, SourcesAreVerified: a backend gets the source its      *)
(* checksum names; NoTransientsRemain: an ended build has cleaned its      *)
(* workspace; EngineTypeCorrect: type correctness; StepsAreInOrder: what   *)
(* is reported was done, in order, but for the steps of sidecars that have *)
(* a step of the builder before them.                                      *)
(*                                                                         *)
(* The library's induction theorems take a predicate, which the provers    *)
(* cannot instantiate; LeastNat and NatInd below say the same of sets, and *)
(* are enough to show what the recursive function in Select computes.      *)
(***************************************************************************)
EXTENDS BuildEngine, WellFoundedInduction, TLAPS

(* ---- The source ------------------------------------------------------- *)

(* A fetch, as FetchTypeOK describes it.                                   *)
FetchRec == [pc : FetchPcs, source : {"none", "partial", "good"},
             linked : BOOLEAN, mixed : BOOLEAN, shaken : BOOLEAN]

(* What makes SourceVerified inductive.  A builder that verified the entry *)
(* is marked as shaken before the entry can be anything but sound or gone; *)
(* a copy that may mix two contents was shaken; and what is put into the   *)
(* cache, or handed on, was hashed or copied from a sound entry.           *)
FetchOK(e, f) ==
  /\ f.pc = "verified" /\ e \notin {"absent", "sound"} => f.shaken
  /\ f.mixed => f.shaken
  /\ f.pc \in {"store", "storing", "fetched"} =>
       f.source = "good" \/ f.shaken

FetchInv ==
  /\ entry \in {"absent", "sound", "torn"} \cup Builders
  /\ fetch \in [Builders -> FetchRec]
  /\ \A b \in Builders : FetchOK(entry, fetch[b])

(* Initially no builder has verified anything.                             *)
LEMMA FetchInitInv == FetchInit => FetchInv
BY DEF FetchInit, FetchInv, FetchAt, FetchOK, FetchRec, FetchPcs

(* To change the records one by one is enough.                             *)
LEMMA FetchInvByRecord ==
  ASSUME entry' \in {"absent", "sound", "torn"} \cup Builders,
         fetch' = [x \in Builders |-> fetch'[x]],
         \A x \in Builders :
           fetch'[x] \in FetchRec /\ FetchOK(entry', fetch'[x])
  PROVE  FetchInv'
BY DEF FetchInv

(* One lemma for the steps of a fetch: each step of b changes the record   *)
(* of b, and what it does to the entry reaches the records of the others.  *)
LEMMA FetchStepInv ==
  ASSUME FetchInv, NEW b \in Builders, FetchStep(b)
  PROVE  FetchInv'
<1> USE DEF Goto, Failed, FetchAt, Unlinked
<1>0. /\ fetch \in [Builders -> FetchRec]
      /\ \A x \in Builders : FetchOK(entry, fetch[x])
  BY DEF FetchInv
<1>a. fetch' = [x \in Builders |-> fetch'[x]]
  BY <1>0 DEF FetchStep, LookUp, OpenCached, CopyCached, Download, BeginStore,
              EndStore, CopyFails
<1>b. entry' \in {"absent", "sound", "torn"} \cup Builders
  BY DEF FetchInv, FetchStep, LookUp, OpenCached, CopyCached, Download,
         BeginStore, EndStore, CopyFails
<1> SUFFICES ASSUME NEW x \in Builders
             PROVE  fetch'[x] \in FetchRec /\ FetchOK(entry', fetch'[x])
  BY <1>a, <1>b, FetchInvByRecord
<1>c. /\ fetch[x] \in FetchRec /\ FetchOK(entry, fetch[x])
      /\ fetch[b] \in FetchRec /\ FetchOK(entry, fetch[b])
  BY <1>0
<1> USE DEF FetchRec, FetchOK, FetchPcs
<1>1. CASE LookUp(b)
  <2>1. CASE fetch' = [fetch EXCEPT ![b].pc = "verified"] /\ entry' = "sound"
    BY <1>0, <1>c, <2>1
  <2>2. CASE fetch' = Unlinked(Goto(b, "download")) /\ entry' = "absent"
    <3>1. CASE x = b
      BY <1>0, <1>c, <2>2, <3>1
    <3>2. CASE x # b
      BY <1>0, <1>c, <2>2, <3>2
    <3> QED BY <3>1, <3>2
  <2> QED BY <1>1, <2>1, <2>2 DEF LookUp, verifyFileChecksum
<1>2. CASE OpenCached(b)
  BY <1>0, <1>c, <1>2 DEF OpenCached
<1>3. CASE CopyCached(b)
  <2>1. PICK got \in {"good", "partial"}, policy \in RetainPolicies :
          LET copied == [Goto(b, "fetched") EXCEPT ![b].source = got,
                              ![b].linked = FALSE, ![b].mixed = FALSE]
          IN /\ got = "partial" => fetch[b].mixed
             /\ \/ entry' = "absent" /\ fetch' = Unlinked(copied)
                \/ entry' = entry /\ fetch' = copied
    BY <1>3 DEF CopyCached
  <2> DEFINE of(y) == IF y = b THEN [fetch[b] EXCEPT !.pc = "fetched",
                              !.source = got, !.linked = FALSE, !.mixed = FALSE]
                      ELSE fetch[y]
  <2>2. of(x) \in FetchRec /\ FetchOK(entry, of(x)) /\ FetchOK("absent", of(x))
    BY <1>c, <2>1
  <2>3. \/ entry' = entry /\ fetch'[x] = of(x)
        \/ entry' = "absent" /\ fetch'[x] = [of(x) EXCEPT !.linked = FALSE]
    BY <1>0, <2>1
  <2> HIDE DEF of
  <2> QED BY <2>2, <2>3
<1>4. CASE Download(b)
  <2>1. /\ entry' = entry
        /\ \/ fetch'[b] = FetchAt("failed")
           \/ \E pc \in {"fetched", "store"} :
                fetch'[b] = [fetch[b] EXCEPT !.pc = pc, !.source = "good"]
        /\ x # b => fetch'[x] = fetch[x]
    BY <1>0, <1>c, <1>4 DEF Download
  <2>2. CASE x # b
    BY <1>c, <2>1, <2>2
  <2>3. CASE fetch'[b] = FetchAt("failed") /\ x = b
    <3>1. /\ FetchAt("failed") \in FetchRec
          /\ FetchAt("failed").pc = "failed" /\ ~FetchAt("failed").mixed
      OBVIOUS
    <3>2. fetch'[x] = FetchAt("failed")
      BY <2>3
    <3> HIDE DEF FetchAt
    <3> QED BY <3>1, <3>2
  <2>4. ASSUME NEW pc \in {"fetched", "store"}, x = b,
               fetch'[b] = [fetch[b] EXCEPT !.pc = pc, !.source = "good"]
        PROVE  fetch'[x] \in FetchRec /\ FetchOK(entry', fetch'[x])
    BY <1>c, <2>1, <2>4
  <2> QED BY <2>1, <2>2, <2>3, <2>4
<1>5. CASE BeginStore(b)
  BY <1>0, <1>c, <1>5 DEF BeginStore
<1>6. CASE EndStore(b)
  BY <1>0, <1>c, <1>6 DEF EndStore
<1>7. CASE CopyFails(b)
  <2>1. CASE fetch[b].pc = "copying" /\ entry' = entry
             /\ fetch' = Failed(b)
    BY <1>0, <1>c, <2>1
  <2>2. CASE fetch' = Unlinked(Failed(b)) /\ entry' = "absent"
    <3>1. CASE x = b
      BY <1>0, <1>c, <2>2, <3>1
    <3>2. CASE x # b
      BY <1>0, <1>c, <2>2, <3>2
    <3> QED BY <3>1, <3>2
  <2> QED BY <1>7, <2>1, <2>2 DEF CopyFails
<1> QED BY <1>1, <1>2, <1>3, <1>4, <1>5, <1>6, <1>7 DEF FetchStep

(* The loss of a Pod leaves its cache entry torn, never sound.             *)
LEMMA PodGoneInv ==
  ASSUME FetchInv, NEW b \in Builders, PodGone(b)
  PROVE  FetchInv'
<1>1. /\ fetch' = [x \in Builders |-> fetch'[x]]
      /\ entry' \in {"absent", "sound", "torn"} \cup Builders
      /\ entry' \in {entry, "torn"} /\ (entry' # entry => entry = b)
  BY DEF FetchInv, PodGone, Failed
<1>2. ASSUME NEW x \in Builders
      PROVE  fetch'[x] \in FetchRec /\ FetchOK(entry', fetch'[x])
  <2>1. CASE x = b
    BY <2>1 DEF FetchInv, FetchOK, FetchRec, FetchPcs, PodGone, Failed, FetchAt
  <2>2. CASE x # b
    BY <1>1, <2>2, BuildersAssumption
       DEF FetchInv, FetchOK, FetchRec, FetchPcs, PodGone, Failed
  <2> QED BY <2>1, <2>2
<1> QED BY <1>1, <1>2, FetchInvByRecord

(* A step of one builder leaves the others where they are.                 *)
LEMMA OthersStay ==
  ASSUME FetchInv, NEW b \in Builders, NEW c \in Builders, b # c,
         FetchStep(b) \/ PodGone(b)
  PROVE  fetch'[c].pc = fetch[c].pc
<1>0. /\ fetch \in [Builders -> FetchRec]
      /\ fetch[b] \in FetchRec /\ fetch[c] \in FetchRec
  BY DEF FetchInv
<1> USE <1>0 DEF FetchRec, Goto, Failed, Unlinked
<1>1. CASE \/ LookUp(b) \/ OpenCached(b) \/ Download(b)
           \/ EndStore(b) \/ CopyFails(b)
  BY <1>1 DEF LookUp, OpenCached, Download, EndStore, CopyFails
<1>2. CASE CopyCached(b)
  <2>1. PICK got, policy :
          LET copied == [Goto(b, "fetched") EXCEPT ![b].source = got,
                              ![b].linked = FALSE, ![b].mixed = FALSE]
          IN fetch' = Unlinked(copied) \/ fetch' = copied
    BY <1>2 DEF CopyCached
  <2> QED BY <2>1
<1>3. CASE BeginStore(b)
  BY <1>3 DEF BeginStore
<1>4. CASE PodGone(b)
  BY <1>4 DEF PodGone
<1> QED BY <1>1, <1>2, <1>3, <1>4 DEF FetchStep

(* ---- The ISO build ---------------------------------------------------- *)

(* What Build may have written when an error can still leave it behind.    *)
Written == {"source", "seed", "creds", "isos"}

(* The stages before the clean-up is deferred.                             *)
EarlyErrors == {"fetch", "media", "creds", "preboot", "isos"}

(* What has to be removed, and who removes it.  Until the clean-up is      *)
(* deferred there is no guest, disk or archive; from then on each file     *)
(* there may be is in reach of a function that has been deferred.          *)
Covered ==
  /\ stage \in EarlyErrors =>
       deferred = {} /\ files \subseteq Written /\ qemu = "none"
  /\ stage \in {"disk", "start"} => qemu = "none"
  /\ stage \notin EarlyErrors \cup {"ended"} =>
       /\ "workspace" \in deferred
       /\ access = "generated" => "credentials" \in deferred
       /\ "raw" \in files => "raw" \in deferred
  /\ "creds" \in files => access = "generated"
  /\ stage \in {"convert", "archive", "describe"} => qemu # "running"
  /\ stage = "describe" => "artifact" \in files

(* What makes TransientsRemoved inductive: the clean-up covers what there  *)
(* is, and a build past its fetch cannot fail in it any more.              *)
IsoInv ==
  /\ result \in [Builders -> {"none", "success", "failed", "lost"}]
  /\ files \subseteq Transients \cup {"raw", "artifact"}
  /\ deferred \subseteq {"workspace", "credentials", "raw"}
  /\ stage # "fetch" /\ result[Iso] = "none" => fetch[Iso].pc = "fetched"
  /\ Covered
  /\ TransientsRemoved

(* A step that leaves the build under way keeps the invariant...            *)
LEMMA AdvanceKeeps ==
  ASSUME IsoInv, fetch' = fetch, result' = result, result[Iso] = "none",
         fetch[Iso].pc = "fetched", Covered',
         files' \subseteq Transients \cup {"raw", "artifact"},
         deferred' \subseteq {"workspace", "credentials", "raw"}
  PROVE  IsoInv'
BY IsoAssumption DEF IsoInv, TransientsRemoved

(* ... and so does one that ends it, if the clean-up took place.            *)
LEMMA EndKeeps ==
  ASSUME IsoInv, stage' = "ended", deferred' = deferred, access' = access,
         result' \in [Builders -> {"none", "success", "failed", "lost"}],
         result'[Iso] # "none",
         files' \subseteq Transients \cup {"raw", "artifact"},
         "creds" \in files' => access = "generated",
         TransientsRemoved'
  PROVE  IsoInv'
BY DEF IsoInv, Covered, EarlyErrors

(* The clean-up only removes, and all that it has to once it is deferred.  *)
LEMMA CleanupRemoves ==
  ASSUME NEW fs, fs \subseteq Transients \cup {"raw", "artifact"},
         "workspace" \in deferred, "creds" \in fs => "credentials" \in deferred
  PROVE  /\ DeferredCleanup(fs) \cap Transients = {}
         /\ DeferredCleanup(fs) \subseteq fs
         /\ "raw" \in deferred => "raw" \notin DeferredCleanup(fs)
         /\ "artifact" \in fs => "artifact" \in DeferredCleanup(fs)
BY DEF DeferredCleanup, cleanupQEMUISOTransientWorkspace,
       cleanupGeneratedGuestCredentials, Transients

(* An error of the ISO build ends it: before the clean-up is deferred there *)
(* is nothing but seeds and credentials; afterwards the clean-up is done.   *)
LEMMA AbortKeeps ==
  ASSUME IsoInv, NEW fs, Abort(fs), access' = access, stage # "ended",
         fs \subseteq Transients \cup {"raw", "artifact"},
         stage \in EarlyErrors => fs \subseteq Written,
         "creds" \in fs => access = "generated"
  PROVE  IsoInv'
<1>1. /\ result' = [result EXCEPT ![Iso] = "failed"] /\ result'[Iso] = "failed"
      /\ result' \in [Builders -> {"none", "success", "failed", "lost"}]
  BY IsoAssumption DEF Abort, Finish, IsoInv
<1>2. stage' = "ended" /\ files' = DeferredCleanup(fs) /\ deferred' = deferred
      /\ qemu' = IF qemu = "running" THEN "killed" ELSE qemu
  BY DEF Abort
<1>3. CASE stage \in EarlyErrors
  <2>1. deferred = {} /\ qemu = "none"
    BY <1>3 DEF IsoInv, Covered
  <2>2. files' = fs /\ qemu' = "none"
    BY <1>2, <2>1 DEF DeferredCleanup
  <2>3. TransientsRemoved'
    BY <1>1, <1>3, <2>2 DEF TransientsRemoved, Written
  <2> QED BY <1>1, <1>2, <2>2, <2>3, EndKeeps
<1>4. CASE stage \notin EarlyErrors
  <2>1. "workspace" \in deferred /\ (access = "generated" => "credentials" \in deferred)
    BY <1>4 DEF IsoInv, Covered
  <2>2. files' \cap Transients = {} /\ files' \subseteq fs
    BY <1>2, <2>1, CleanupRemoves
  <2>3. TransientsRemoved'
    BY <1>1, <1>2, <2>2 DEF TransientsRemoved, Transients
  <2> QED BY <1>1, <1>2, <2>2, <2>3, EndKeeps
<1> QED BY <1>3, <1>4

(* Its success leaves the artifact.                                        *)
LEMMA DescribeKeeps ==
  ASSUME IsoInv, DescribeArtifact, access' = access
  PROVE  IsoInv'
<1>1. stage = "describe" /\ stage \notin EarlyErrors \cup {"ended"}
  BY DEF DescribeArtifact, At, EarlyErrors
<1>2. /\ "workspace" \in deferred /\ "artifact" \in files /\ qemu # "running"
      /\ "creds" \in files => access = "generated" /\ "credentials" \in deferred
      /\ "raw" \in files => "raw" \in deferred
      /\ files \subseteq Transients \cup {"raw", "artifact"}
  BY <1>1 DEF IsoInv, Covered
<1>3. CASE /\ stage' = "ended" /\ Finish(Iso, "success")
           /\ files' = DeferredCleanup(files)
           /\ UNCHANGED <<deferred, qemu>>
  <2>1. /\ files' \cap Transients = {} /\ files' \subseteq files
        /\ "raw" \in deferred => "raw" \notin files'
        /\ "artifact" \in files'
    BY <1>2, <1>3, CleanupRemoves
  <2>2. files' = {"artifact"}
    BY <1>2, <2>1
  <2>3. /\ result' \in [Builders -> {"none", "success", "failed", "lost"}]
        /\ result'[Iso] = "success"
    BY <1>3, IsoAssumption DEF Finish, IsoInv
  <2>4. TransientsRemoved'
    BY <1>2, <1>3, <2>2, <2>3 DEF TransientsRemoved, Transients
  <2>5. files' \subseteq Transients \cup {"raw", "artifact"} /\ "creds" \notin files'
    BY <2>2
  <2> QED BY <1>3, <2>3, <2>4, <2>5, EndKeeps
<1>4. CASE Abort(files)
  BY <1>1, <1>2, <1>4, AbortKeeps
<1> QED BY <1>3, <1>4 DEF DescribeArtifact

(* Steps that change neither files nor clean-up, and may fail.             *)
LEMMA AskKeeps ==
  ASSUME IsoInv, fetch' = fetch, access' = access,
         NEW s, NEW to, At(s), s \notin EarlyErrors \cup {"ended"},
         to \notin EarlyErrors \cup {"ended", "start", "disk", "describe"},
         to \in {"convert", "archive"} => qemu # "running",
         \/ Advance(to) /\ UNCHANGED <<files, deferred, qemu>>
         \/ Abort(files)
  PROVE  IsoInv'
<1>1. /\ files \subseteq Transients \cup {"raw", "artifact"}
      /\ "creds" \in files => access = "generated"
      /\ stage = s /\ result[Iso] = "none"
  BY DEF IsoInv, Covered, At
<1>2. CASE Abort(files)
  BY <1>1, <1>2, AbortKeeps
<1>3. CASE Advance(to) /\ UNCHANGED <<files, deferred, qemu>>
  <2>1. Covered'
    BY <1>1, <1>3 DEF Advance, IsoInv, Covered
  <2>2. fetch[Iso].pc = "fetched"
    BY <1>1 DEF IsoInv, EarlyErrors
  <2> QED BY <1>1, <1>3, <2>1, <2>2, AdvanceKeeps DEF Advance, IsoInv
<1> QED BY <1>2, <1>3

(* Steps that write what an early error may leave.                         *)
LEMMA WriteKeeps ==
  ASSUME IsoInv, fetch' = fetch, access' = access,
         NEW s, NEW to, NEW fs, Writes(s, to, fs),
         s \in {"media", "creds", "preboot"},
         to \in {"creds", "preboot", "isos"},
         fs \subseteq {"seed", "creds"}, "creds" \in fs => access = "generated"
  PROVE  IsoInv'
<1>1. /\ files \subseteq Written /\ deferred = {} /\ qemu = "none"
      /\ "creds" \in files => access = "generated"
      /\ stage = s /\ result[Iso] = "none" /\ fetch[Iso].pc = "fetched"
  BY DEF Writes, At, IsoInv, Covered, EarlyErrors
<1>2. CASE \E part \in SUBSET fs : Abort(files \cup part)
  <2>1. PICK part \in SUBSET fs : Abort(files \cup part)
    BY <1>2
  <2>2. /\ files \cup part \subseteq Written
        /\ files \cup part \subseteq Transients \cup {"raw", "artifact"}
        /\ "creds" \in files \cup part => access = "generated"
    BY <1>1 DEF Written, Transients
  <2>3. stage # "ended"
    BY <1>1
  <2> QED BY <2>1, <2>2, <2>3, AbortKeeps
<1>3. CASE Advance(to) /\ files' = files \cup fs /\ UNCHANGED <<deferred, qemu>>
  <2>1. files' \subseteq Written /\ files' \subseteq Transients \cup {"raw", "artifact"}
        /\ ("creds" \in files' => access = "generated")
    BY <1>1, <1>3 DEF Written, Transients
  <2>2. Covered'
    BY <1>1, <1>3, <2>1 DEF Advance, Covered, EarlyErrors
  <2> QED BY <1>1, <1>3, <2>1, <2>2, AdvanceKeeps DEF Advance, IsoInv
<1> QED BY <1>2, <1>3 DEF Writes

(* Making the ISOs is where the clean-up is deferred.                      *)
LEMMA CreateISOsKeeps ==
  ASSUME IsoInv, fetch' = fetch, access' = access, createInstallerDataISOs
  PROVE  IsoInv'
<1>1. /\ files \subseteq Written /\ deferred = {} /\ qemu = "none"
      /\ "creds" \in files => access = "generated"
      /\ stage = "isos" /\ result[Iso] = "none" /\ fetch[Iso].pc = "fetched"
  BY DEF createInstallerDataISOs, At, IsoInv, Covered, EarlyErrors
<1>a. seedISOs \subseteq {"isos"}
  BY DEF seedISOs
<1>2. CASE \E part \in SUBSET seedISOs : Abort(files \cup part)
  <2>1. PICK part \in SUBSET seedISOs : Abort(files \cup part)
    BY <1>2
  <2>2. /\ files \cup part \subseteq Written
        /\ files \cup part \subseteq Transients \cup {"raw", "artifact"}
        /\ "creds" \in files \cup part => access = "generated"
    BY <1>1, <1>a DEF Written, Transients
  <2>3. stage # "ended"
    BY <1>1
  <2> QED BY <2>1, <2>2, <2>3, AbortKeeps
<1>3. CASE /\ Advance("disk") /\ files' = files \cup seedISOs /\ qemu' = qemu
           /\ deferred' = IF access = "generated"
                            THEN {"workspace", "credentials"} ELSE {"workspace"}
  <2>1. /\ files' \subseteq Written
        /\ files' \subseteq Transients \cup {"raw", "artifact"}
        /\ "creds" \in files' => access = "generated"
    BY <1>1, <1>a, <1>3 DEF Written, Transients
  <2>2. deferred' \subseteq {"workspace", "credentials", "raw"}
    BY <1>3
  <2>3. Covered'
    BY <1>1, <1>3, <2>1 DEF Advance, Covered, EarlyErrors, Written
  <2> QED BY <1>1, <1>3, <2>1, <2>2, <2>3, AdvanceKeeps DEF Advance
<1> QED BY <1>2, <1>3 DEF createInstallerDataISOs

(* The disk and the start of the guest.                                    *)
LEMMA BootKeeps ==
  ASSUME IsoInv, fetch' = fetch, access' = access, CreateDisk \/ StartQEMU
  PROVE  IsoInv'
<1>1. /\ stage \in {"disk", "start"} /\ result[Iso] = "none"
      /\ fetch[Iso].pc = "fetched"
      /\ files \subseteq Transients \cup {"raw", "artifact"}
      /\ "creds" \in files => access = "generated"
      /\ stage \notin EarlyErrors /\ stage # "ended"
  BY DEF CreateDisk, StartQEMU, At, IsoInv, Covered, EarlyErrors
<1>2. CASE Abort(files)
  BY <1>1, <1>2, AbortKeeps
<1>3. CASE /\ Advance("start") /\ files' = files \cup {"disk"}
           /\ UNCHANGED <<deferred, qemu>>
  <2>1. files' \subseteq Transients \cup {"raw", "artifact"}
    BY <1>1, <1>3 DEF Transients
  <2>2. Covered'
    BY <1>1, <1>3 DEF Advance, IsoInv, Covered, EarlyErrors
  <2> QED BY <1>1, <1>3, <2>1, <2>2, AdvanceKeeps DEF Advance, IsoInv
<1>4. CASE /\ Advance("boot") /\ files' = files \cup {"qmp"} /\ deferred' = deferred
  <2>1. files' \subseteq Transients \cup {"raw", "artifact"}
    BY <1>1, <1>4 DEF Transients
  <2>2. Covered'
    BY <1>1, <1>4 DEF Advance, IsoInv, Covered, EarlyErrors
  <2> QED BY <1>1, <1>4, <2>1, <2>2, AdvanceKeeps DEF Advance, IsoInv
<1> QED BY <1>2, <1>3, <1>4 DEF CreateDisk, StartQEMU

(* The artifact, and the raw disk whose removal is deferred.               *)
LEMMA ConvertKeeps ==
  ASSUME IsoInv, fetch' = fetch, access' = access, Convert \/ createGCEArchive
  PROVE  IsoInv'
<1>1. /\ stage \in {"convert", "archive"} /\ result[Iso] = "none"
      /\ fetch[Iso].pc = "fetched" /\ qemu # "running"
      /\ files \subseteq Transients \cup {"raw", "artifact"}
      /\ deferred \subseteq {"workspace", "credentials", "raw"}
      /\ "creds" \in files => access = "generated"
      /\ stage \notin EarlyErrors /\ stage # "ended"
  BY DEF Convert, createGCEArchive, At, IsoInv, Covered, EarlyErrors
<1>2. ASSUME NEW fs \in {files, files \cup {"raw"}}, Abort(fs)
      PROVE  IsoInv'
  <2>1. /\ fs \subseteq Transients \cup {"raw", "artifact"}
        /\ "creds" \in fs => access = "generated"
    BY <1>1, <1>2
  <2> QED BY <1>1, <1>2, <2>1, AbortKeeps
<1>3. CASE /\ Advance("archive") /\ files' = files \cup {"raw"}
           /\ deferred' = deferred \cup {"raw"} /\ qemu' = qemu
  <2>1. /\ files' \subseteq Transients \cup {"raw", "artifact"}
        /\ deferred' \subseteq {"workspace", "credentials", "raw"}
    BY <1>1, <1>3
  <2>2. Covered'
    BY <1>1, <1>3 DEF Advance, IsoInv, Covered, EarlyErrors
  <2> QED BY <1>1, <1>3, <2>1, <2>2, AdvanceKeeps DEF Advance
<1>4. CASE /\ Advance("describe") /\ files' = files \cup {"artifact"}
           /\ UNCHANGED <<deferred, qemu>>
  <2>1. /\ files' \subseteq Transients \cup {"raw", "artifact"}
        /\ deferred' \subseteq {"workspace", "credentials", "raw"}
    BY <1>1, <1>4
  <2>2. Covered'
    BY <1>1, <1>4 DEF Advance, IsoInv, Covered, EarlyErrors
  <2> QED BY <1>1, <1>4, <2>1, <2>2, AdvanceKeeps DEF Advance
<1> QED BY <1>2, <1>3, <1>4 DEF Convert, createGCEArchive

(* What the invariant says does not depend on the provisioning.            *)
LEMMA IsoInvStays ==
  ASSUME IsoInv, UNCHANGED <<isoVars, result, access, fetch>>
  PROVE  IsoInv'
BY DEF isoVars, IsoInv, Covered, TransientsRemoved

(* The steps of the backend, and what they are made of.                     *)
LEMMA IsoStepKeeps ==
  ASSUME IsoInv, IsoStep
  PROVE  IsoInv' /\ fetch' = fetch /\ entry' = entry
<1>0. UNCHANGED <<fetchVars, access>>
  BY DEF IsoStep, SelectBackend, prepareInstallerMedia, prepareGuestCredentials,
         runPrebootProvisioners, createInstallerDataISOs, CreateDisk, StartQEMU,
         sendBootEvents, ReadinessWait, ProvisionGuest, RunStep,
         sanitizeGeneratedGuestCredentials, checkFinalImageHygiene, RunSysprep,
         finalizeGuest, WaitQEMU, Convert, createGCEArchive, DescribeArtifact,
         Writes, Asks, CallRunner, Fixed
<1>a. fetch' = fetch /\ entry' = entry /\ access' = access
  BY <1>0 DEF fetchVars
<1>1. CASE SelectBackend
  <2>1. /\ stage = "fetch" /\ result[Iso] = "none" /\ stage' = "media"
        /\ result' = result /\ files' = {"source"}
        /\ deferred' = deferred /\ qemu' = qemu /\ fetch[Iso].pc = "fetched"
    BY <1>1 DEF SelectBackend, At, Advance
  <2>2. Covered'
    BY <1>a, <2>1 DEF IsoInv, Covered, EarlyErrors, Written
  <2>3. files' \subseteq Transients \cup {"raw", "artifact"}
    BY <2>1 DEF Transients
  <2> QED BY <1>a, <2>1, <2>2, <2>3, AdvanceKeeps DEF IsoInv
<1>2. CASE \/ prepareInstallerMedia \/ prepareGuestCredentials
           \/ runPrebootProvisioners
  <2>1. \E s \in {"media", "creds", "preboot"}, to \in {"creds", "preboot", "isos"},
           fs \in SUBSET {"seed", "creds"} :
          Writes(s, to, fs) /\ ("creds" \in fs => access = "generated")
    <3>1. CASE prepareInstallerMedia
      BY <3>1 DEF prepareInstallerMedia
    <3>2. CASE prepareGuestCredentials
      <4>1. PICK injected \in {{}, {"seed"}} :
              Writes("creds", "preboot",
                     IF access = "generated" THEN {"creds"} \cup injected ELSE {})
        BY <3>2 DEF prepareGuestCredentials
      <4> DEFINE fs == IF access = "generated" THEN {"creds"} \cup injected ELSE {}
      <4>2. fs \in SUBSET {"seed", "creds"} /\ ("creds" \in fs => access = "generated")
        OBVIOUS
      <4> HIDE DEF fs
      <4>3. Writes("creds", "preboot", fs)
        BY <4>1 DEF fs
      <4> QED BY <4>2, <4>3
    <3>3. CASE runPrebootProvisioners
      <4>1. PICK injected \in {{}, {"seed"}} :
              Writes("preboot", "isos",
                     IF \E i \in Steps : manifest[i] = "cloud-init" THEN {"seed"}
                     ELSE IF access = "generated" THEN injected ELSE {})
        BY <3>3 DEF runPrebootProvisioners
      <4> DEFINE fs == IF \E i \in Steps : manifest[i] = "cloud-init" THEN {"seed"}
                       ELSE IF access = "generated" THEN injected ELSE {}
      <4>2. fs \in SUBSET {"seed", "creds"} /\ "creds" \notin fs
        OBVIOUS
      <4> HIDE DEF fs
      <4>3. Writes("preboot", "isos", fs)
        BY <4>1 DEF fs
      <4> QED BY <4>2, <4>3
    <3> QED BY <1>2, <3>1, <3>2, <3>3
  <2> QED BY <1>a, <2>1, WriteKeeps
<1>3. CASE \/ sendBootEvents \/ ReadinessWait \/ checkFinalImageHygiene
           \/ WaitQEMU
  <2>1. \E s \in {"boot", "ready", "hygiene", "wait"},
           to \in {"finalize", "ready", "provision", "sysprep", "convert"} :
          /\ At(s) /\ (to = "convert" => qemu # "running")
          /\ \/ Advance(to) /\ UNCHANGED <<files, deferred, qemu>>
             \/ Abort(files)
    BY <1>3 DEF sendBootEvents, ReadinessWait, checkFinalImageHygiene, WaitQEMU,
                Asks
  <2> QED BY <1>a, <2>1, AskKeeps DEF EarlyErrors
<1>4. CASE sanitizeGeneratedGuestCredentials \/ finalizeGuest
  <2>1. \E s \in {"sanitize", "finalize"}, to \in {"hygiene", "wait"} :
          /\ At(s)
          /\ \/ Advance(to) /\ UNCHANGED <<files, deferred, qemu>>
             \/ Abort(files)
    BY <1>4 DEF sanitizeGeneratedGuestCredentials, finalizeGuest
  <2> QED BY <1>a, <2>1, AskKeeps DEF EarlyErrors
<1>5. CASE ProvisionGuest \/ RunSysprep
  <2>1. \/ UNCHANGED <<isoVars, result>>
        \/ \E s \in {"provision", "sysprep"}, to \in {"sanitize", "finalize"} :
             /\ At(s)
             /\ \/ Advance(to) /\ UNCHANGED <<files, deferred, qemu>>
                \/ Abort(files)
    BY <1>5 DEF ProvisionGuest, RunSysprep, CallRunner
  <2>2. CASE UNCHANGED <<isoVars, result>>
    BY <1>a, <2>2, IsoInvStays
  <2> QED BY <1>a, <2>1, <2>2, AskKeeps DEF EarlyErrors
<1>6. CASE RunStep
  BY <1>6, <1>a, IsoInvStays DEF RunStep
<1>7. CASE createInstallerDataISOs
  BY <1>7, <1>a, CreateISOsKeeps
<1>8. CASE CreateDisk \/ StartQEMU
  BY <1>8, <1>a, BootKeeps
<1>9. CASE Convert \/ createGCEArchive
  BY <1>9, <1>a, ConvertKeeps
<1>10. CASE DescribeArtifact
  BY <1>10, <1>a, DescribeKeeps
<1> QED
  BY <1>a, <1>1, <1>2, <1>3, <1>4, <1>5, <1>6, <1>7, <1>8, <1>9, <1>10 DEF IsoStep

(* ---- The whole engine ------------------------------------------------- *)

EngineInv == FetchInv /\ IsoInv

(* Both parts hold initially...                                            *)
LEMMA EngineInvInit == Init => EngineInv
BY FetchInitInv, IsoAssumption
   DEF Init, EngineInv, IsoInv, Covered, EarlyErrors, Written, Transients,
       TransientsRemoved

(* ... and every step of a builder or of its surroundings keeps them.      *)
LEMMA EngineInvNext ==
  ASSUME EngineInv, [Next]_vars
  PROVE  EngineInv'
<1> USE DEF EngineInv
<1>1. ASSUME NEW b \in Builders, Fetch(b)
      PROVE  EngineInv'
  <2>1. FetchInv'
    BY <1>1, FetchStepInv DEF Fetch
  <2>2. fetch[b].pc # "fetched"
    BY <1>1 DEF Fetch, FetchStep, LookUp, OpenCached, CopyCached, Download,
                BeginStore, EndStore, CopyFails
  <2>3. b # Iso => fetch'[Iso].pc = fetch[Iso].pc
    BY <1>1, OthersStay, IsoAssumption DEF Fetch
  <2>4. b = Iso => stage = "fetch"
    BY <1>1, <2>2 DEF Fetch, IsoInv
  <2>5. /\ result' \in [Builders -> {"none", "success", "failed", "lost"}]
        /\ result'[Iso] \in {result[Iso], "failed"}
        /\ b # Iso => result'[Iso] = result[Iso]
    BY <1>1, IsoAssumption DEF Fetch, IsoInv
  <2>6. UNCHANGED <<access, stage, files, deferred, qemu>>
    BY <1>1 DEF Fetch, isoVars
  <2>7. Covered'
    BY <2>6 DEF IsoInv, Covered
  <2>8. TransientsRemoved'
    <3>1. CASE b # Iso
      BY <2>5, <2>6, <3>1 DEF IsoInv, TransientsRemoved
    <3>2. CASE b = Iso
      <4>1. files' \subseteq Written /\ qemu' = "none"
        BY <2>4, <2>6, <3>2 DEF IsoInv, Covered, EarlyErrors
      <4>2. result'[Iso] # "success"
        BY <1>1, <2>5, <3>2 DEF Fetch
      <4> QED BY <4>1, <4>2 DEF TransientsRemoved, Written
    <3> QED BY <3>1, <3>2
  <2>9. IsoInv'
    BY <2>3, <2>4, <2>5, <2>6, <2>7, <2>8 DEF IsoInv
  <2> QED BY <2>1, <2>9
<1>2. ASSUME NEW b \in Builders, BuildCloudImage(b)
      PROVE  EngineInv'
  <2>1. FetchInv' /\ fetch'[Iso].pc = fetch[Iso].pc
    BY <1>2, PodGoneInv, OthersStay, IsoAssumption DEF BuildCloudImage
  <2>2. /\ UNCHANGED <<access, stage, files, deferred, qemu>>
        /\ result'[Iso] = result[Iso]
        /\ result' \in [Builders -> {"none", "success", "failed", "lost"}]
    BY <1>2, IsoAssumption DEF BuildCloudImage, Finish, isoVars, IsoInv
  <2>3. IsoInv'
    BY <2>1, <2>2 DEF IsoInv, Covered, TransientsRemoved
  <2> QED BY <2>1, <2>3
<1>3. ASSUME NEW b \in Builders, Lose(b)
      PROVE  EngineInv'
  <2>1. FetchInv' /\ (b # Iso => fetch'[Iso].pc = fetch[Iso].pc)
    BY <1>3, PodGoneInv, OthersStay, IsoAssumption DEF Lose
  <2>2. /\ UNCHANGED <<access, files, deferred>>
        /\ result' \in [Builders -> {"none", "success", "failed", "lost"}]
    BY <1>3, IsoAssumption DEF Lose, Finish, IsoInv
  <2>3. CASE b = Iso
    <3>1. stage' = "ended" /\ result'[Iso] = "lost"
      BY <1>3, <2>3, IsoAssumption DEF Lose, Finish, IsoInv
    <3>2. IsoInv'
      BY <2>2, <3>1 DEF IsoInv, Covered, EarlyErrors, TransientsRemoved
    <3> QED BY <2>1, <3>2
  <2>4. CASE b # Iso
    <3>1. stage' = stage /\ result'[Iso] = result[Iso] /\ qemu' = qemu
      BY <1>3, <2>4, IsoAssumption DEF Lose, Finish, IsoInv
    <3>2. IsoInv'
      BY <2>1, <2>2, <2>4, <3>1 DEF IsoInv, Covered, TransientsRemoved
    <3> QED BY <2>1, <3>2
  <2> QED BY <2>3, <2>4
<1>4. CASE IsoStep
  BY <1>4, IsoStepKeeps DEF FetchInv
<1>5. CASE SidecarsMove \/ GuestStops \/ Expire
  <2>1. /\ UNCHANGED <<fetch, entry, access, stage, files, deferred, result>>
        /\ qemu' = qemu \/ (qemu = "running" /\ qemu' \in {"exited", "killed"})
    BY <1>5 DEF SidecarsMove, GuestStops, Expire, Fixed, fetchVars, isoVars
  <2>2. IsoInv'
    BY <2>1 DEF IsoInv, Covered, EarlyErrors, TransientsRemoved
  <2> QED BY <2>1, <2>2 DEF FetchInv
<1>6. CASE UNCHANGED vars
  <2>1. UNCHANGED <<isoVars, result, access, fetch, entry>>
    BY <1>6 DEF vars, fetchVars
  <2> QED BY <2>1, IsoInvStays DEF FetchInv
<1> QED
  BY <1>1, <1>2, <1>3, <1>4, <1>5, <1>6 DEF Next, BuilderStep, Done

(* Both parts together are an invariant of the build engine: the cache of  *)
(* HTTPFetcher and the order of QEMUISOBackend.Build, at every step.       *)
THEOREM EngineInvariant == Spec => []EngineInv
BY EngineInvInit, EngineInvNext, PTL DEF Spec

(* A backend is given the source its checksum names, unless another        *)
(* builder rewrote the cache entry between its verification and the copy   *)
(* (HTTPFetcher.fetch), for any number of builders that share the cache.   *)
THEOREM SourcesAreVerified == Spec => []SourceVerified
<1>1. EngineInv => SourceVerified
  BY DEF EngineInv, FetchInv, FetchOK, SourceVerified
<1> QED BY <1>1, EngineInvariant, PTL

(* A build that ended, wherever it failed, leaves no QEMU, disk or socket, *)
(* and nothing a guest was started from; a success leaves its artifact     *)
(* (QEMUISOBackend.Build and the functions it defers), for any manifest    *)
(* and whatever sidecars, guest and timeout do.                            *)
THEOREM NoTransientsRemain == Spec => []TransientsRemoved
<1>1. EngineInv => TransientsRemoved
  BY DEF EngineInv, IsoInv
<1> QED BY <1>1, EngineInvariant, PTL

(* ---- Induction ---------------------------------------------------------- *)

(* A set of natural numbers that is not empty has a least one.             *)
LEMMA LeastNat ==
  ASSUME NEW T, T \subseteq Nat, T # {}
  PROVE  \E x \in T : \A y \in T : ~(y < x)
<1>1. PICK x \in T : \A y \in T : ~(<<y, x>> \in OpToRel(<, Nat))
  BY NatLessThanWellFounded, WFMin
<1>2. \A y \in T : ~(y < x)
  BY <1>1 DEF OpToRel
<1> QED BY <1>2

(* So a set that has 0, and the successor of what it has, has them all.    *)
LEMMA NatInd ==
  ASSUME NEW S, 0 \in S, \A n \in Nat : n \in S => n + 1 \in S
  PROVE  \A n \in Nat : n \in S
<1> DEFINE T == {n \in Nat : n \notin S}
<1> SUFFICES ASSUME T # {} PROVE FALSE
  OBVIOUS
<1>1. PICK x \in T : \A y \in T : ~(y < x)
  BY LeastNat
<1>2. x # 0 /\ x \in Nat
  OBVIOUS
<1>3. x - 1 \in Nat /\ x - 1 < x /\ (x - 1) + 1 = x
  BY <1>2
<1>4. x - 1 \in S
  BY <1>1, <1>3
<1> QED BY <1>3, <1>4

(* ---- The steps of some kinds -------------------------------------------- *)

(* The loop of Select, unrolled by n rounds.                               *)
Loop(m, kinds, n, F) ==
  F = [k \in 0 .. n |->
         IF k = 0 THEN <<>>
         ELSE IF m[k] \in kinds THEN Append(F[k - 1], k) ELSE F[k - 1]]

(* The loop can be run for any number of rounds, by induction on them:     *)
(* this is what makes the recursive function of Select one.                *)
LEMMA LoopExists ==
  ASSUME NEW m, NEW K
  PROVE  \A n \in Nat : \E F : Loop(m, K, n, F)
<1> DEFINE S == {n \in Nat : \E F : Loop(m, K, n, F)}
<1>1. 0 \in S
  <2> DEFINE F == [k \in 0 .. 0 |-> <<>>]
  <2>1. Loop(m, K, 0, F)
    BY DEF Loop
  <2> QED BY <2>1
<1>2. ASSUME NEW n \in Nat, n \in S
      PROVE  n + 1 \in S
  <2>1. PICK F : Loop(m, K, n, F)
    BY <1>2
  <2> DEFINE last == IF m[n + 1] \in K THEN Append(F[n], n + 1) ELSE F[n]
             G == [k \in 0 .. (n + 1) |-> IF k = n + 1 THEN last ELSE F[k]]
  <2>2. ASSUME NEW k \in 0 .. (n + 1)
        PROVE  G[k] = IF k = 0 THEN <<>>
                      ELSE IF m[k] \in K THEN Append(G[k - 1], k) ELSE G[k - 1]
    <3>1. CASE k = n + 1
      BY <3>1
    <3>2. CASE k # n + 1
      <4>1. k \in 0 .. n /\ (k # 0 => k - 1 \in 0 .. n /\ k - 1 # n + 1)
        BY <3>2
      <4>2. F[k] = IF k = 0 THEN <<>>
                      ELSE IF m[k] \in K THEN Append(F[k - 1], k) ELSE F[k - 1]
        BY <4>1, <2>1 DEF Loop
      <4>3. G[k] = F[k] /\ (k # 0 => G[k - 1] = F[k - 1])
        BY <4>1
      <4> HIDE DEF G
      <4> QED BY <4>2, <4>3
    <3> QED BY <3>1, <3>2
  <2>3. Loop(m, K, n + 1, G)
    <3>1. G = [k \in 0 .. (n + 1) |-> G[k]]
      OBVIOUS
    <3> HIDE DEF G
    <3> QED BY <2>2, <3>1 DEF Loop
  <2> QED BY <2>3
<1> HIDE DEF S
<1>3. \A n \in Nat : n \in S
  BY <1>1, <1>2, NatInd
<1> QED BY <1>3 DEF S

(* Select is what the loop leaves after its last round.                    *)
LEMMA SelectLoop ==
  ASSUME NEW m, NEW K, Len(m) \in Nat
  PROVE  \E F : Loop(m, K, Len(m), F) /\ Select(m, K) = F[Len(m)]
<1> DEFINE F == CHOOSE F : Loop(m, K, Len(m), F)
<1>1. Loop(m, K, Len(m), F)
  BY LoopExists
<1>2. Select(m, K) = F[Len(m)]
  BY DEF Select, Loop
<1> QED BY <1>1, <1>2

(* What n rounds leave: the chosen steps among the first n, ascending.     *)
Chosen(m, kinds, n, s) ==
  /\ s \in Seq(1 .. n)
  /\ Len(s) <= n
  /\ \A i, j \in 1 .. Len(s) : i < j => s[i] < s[j]
  /\ \A i \in 1 .. Len(s) : m[s[i]] \in kinds
  /\ \A k \in 1 .. n : m[k] \in kinds => \E i \in 1 .. Len(s) : s[i] = k

(* One more round keeps that.                                              *)
LEMMA ChosenStep ==
  ASSUME NEW m, NEW K, NEW n \in Nat, NEW s, Chosen(m, K, n, s)
  PROVE  Chosen(m, K, n + 1, IF m[n + 1] \in K THEN Append(s, n + 1) ELSE s)
<1>0. s \in Seq(Nat) /\ s \in Seq(1 .. n) /\ Len(s) \in Nat
  BY DEF Chosen
<1>a. \A i \in 1 .. Len(s) : s[i] \in 1 .. n /\ s[i] \in 1 .. (n + 1)
  BY <1>0
<1>1. CASE m[n + 1] \in K
  <2> DEFINE t == Append(s, n + 1)
  <2>1. /\ Len(t) = Len(s) + 1 /\ t[Len(s) + 1] = n + 1
        /\ \A i \in 1 .. Len(s) : t[i] = s[i]
    BY <1>0
  <2>2. t \in Seq(1 .. (n + 1))
    <3>1. s \in Seq(1 .. (n + 1))
      BY <1>0, <1>a
    <3> QED BY <3>1
  <2>3. \A i \in 1 .. Len(t) : i \in 1 .. Len(s) \/ i = Len(s) + 1
    BY <1>0, <2>1
  <2> HIDE DEF t
  <2>4. ASSUME NEW i \in 1 .. Len(t), NEW j \in 1 .. Len(t), i < j
        PROVE  t[i] < t[j]
    <3>1. i \in 1 .. Len(s)
      BY <2>4, <2>3, <2>1, <1>0
    <3>2. CASE j \in 1 .. Len(s)
      BY <3>1, <3>2, <2>1, <2>4 DEF Chosen
    <3>3. CASE j = Len(s) + 1
      BY <3>1, <3>3, <2>1, <1>a
    <3> QED BY <3>2, <3>3, <2>3
  <2>5. \A i \in 1 .. Len(t) : m[t[i]] \in K
    BY <1>1, <2>1, <2>3 DEF Chosen
  <2>6. ASSUME NEW k \in 1 .. (n + 1), m[k] \in K
        PROVE  \E i \in 1 .. Len(t) : t[i] = k
    <3>1. CASE k = n + 1
      BY <3>1, <2>1, <1>0
    <3>2. CASE k \in 1 .. n
      <4>1. PICK i \in 1 .. Len(s) : s[i] = k
        BY <3>2, <2>6 DEF Chosen
      <4>2. i \in 1 .. Len(t)
        BY <2>1, <1>0
      <4> QED BY <4>1, <4>2, <2>1
    <3> QED BY <3>1, <3>2
  <2>7. Len(t) <= n + 1
    BY <2>1, <1>0 DEF Chosen
  <2>8. Chosen(m, K, n + 1, t)
    BY <2>2, <2>4, <2>5, <2>6, <2>7 DEF Chosen
  <2> QED BY <2>8, <1>1 DEF t
<1>2. CASE m[n + 1] \notin K
  <2>1. s \in Seq(1 .. (n + 1)) /\ Len(s) <= n + 1
    BY <1>0, <1>a DEF Chosen
  <2>2. \A k \in 1 .. (n + 1) : m[k] \in K => k \in 1 .. n
    BY <1>2
  <2>3. Chosen(m, K, n + 1, s)
    BY <2>1, <2>2 DEF Chosen
  <2> QED BY <2>3, <1>2
<1> QED BY <1>1, <1>2

(* So it holds after every round, by induction...                          *)
LEMMA LoopChosen ==
  ASSUME NEW m, NEW K, NEW l \in Nat, NEW F, Loop(m, K, l, F)
  PROVE  \A n \in 0 .. l : Chosen(m, K, n, F[n])
<1> DEFINE S == {n \in Nat : n <= l => Chosen(m, K, n, F[n])}
<1>1. 0 \in S
  <2>1. F[0] = <<>>
    BY DEF Loop
  <2>2. Chosen(m, K, 0, <<>>)
    BY DEF Chosen
  <2> QED BY <2>1, <2>2
<1>2. ASSUME NEW n \in Nat, n \in S
      PROVE  n + 1 \in S
  <2> SUFFICES ASSUME n + 1 <= l PROVE Chosen(m, K, n + 1, F[n + 1])
    OBVIOUS
  <2>1. Chosen(m, K, n, F[n])
    BY <1>2
  <2>2. n + 1 \in 0 .. l /\ n + 1 # 0 /\ (n + 1) - 1 = n
    OBVIOUS
  <2>3. F[n + 1] = IF m[n + 1] \in K THEN Append(F[n], n + 1) ELSE F[n]
    BY <2>2 DEF Loop
  <2> QED BY <2>1, <2>3, ChosenStep
<1> HIDE DEF S
<1>3. \A n \in Nat : n \in S
  BY <1>1, <1>2, NatInd
<1> QED BY <1>3 DEF S

(* ... and of Select: exactly the steps of the kinds, in order.            *)
LEMMA SelectChosen ==
  ASSUME NEW m, NEW K, Len(m) \in Nat
  PROVE  Chosen(m, K, Len(m), Select(m, K))
<1>1. PICK F : Loop(m, K, Len(m), F) /\ Select(m, K) = F[Len(m)]
  BY SelectLoop
<1>2. Len(m) \in 0 .. Len(m)
  OBVIOUS
<1> QED BY <1>1, <1>2, LoopChosen
(* ---- The plan of a build ---------------------------------------------- *)

(* What the backend makes of the manifest: some steps, each once.          *)
PlanOf(specs) ==
  /\ specs \in Seq(Steps)
  /\ Len(specs) <= Len(manifest)
  /\ \A j, k \in 1 .. Len(specs) : j # k => specs[j] # specs[k]

(* The same for the manifest of the build.                                 *)
LEMMA StepsOfChosen ==
  ASSUME manifest \in Manifests, NEW K
  PROVE  /\ Chosen(manifest, K, Len(manifest), StepsOf(K))
         /\ Steps = 1 .. Len(manifest) /\ Len(manifest) \in Nat
         /\ manifest \in Seq(Kinds)
<1>1. manifest \in Seq(Kinds)
  BY ManifestAssumption
<1>2. Len(manifest) \in Nat /\ DOMAIN manifest = 1 .. Len(manifest)
  BY <1>1
<1> QED BY <1>1, <1>2, SelectChosen DEF StepsOf, Steps

(* The steps of some kinds are a plan, and of those kinds.                 *)
LEMMA StepsOfPlan ==
  ASSUME manifest \in Manifests, NEW K
  PROVE  /\ PlanOf(StepsOf(K))
         /\ \A k \in 1 .. Len(StepsOf(K)) : manifest[StepsOf(K)[k]] \in K
<1> DEFINE s == StepsOf(K)
<1>1. /\ Chosen(manifest, K, Len(manifest), s)
      /\ Steps = 1 .. Len(manifest) /\ Len(manifest) \in Nat
  BY StepsOfChosen
<1> HIDE DEF s
<1>2. s \in Seq(Steps) /\ s \in Seq(1 .. Len(manifest))
  BY <1>1 DEF Chosen
<1>3. Len(s) \in Nat /\ \A j \in 1 .. Len(s) : s[j] \in 1 .. Len(manifest)
  BY <1>2
<1>4. ASSUME NEW j \in 1 .. Len(s), NEW k \in 1 .. Len(s), j # k
      PROVE  s[j] # s[k]
  <2>1. CASE j < k
    BY <1>1, <1>3, <2>1 DEF Chosen
  <2>2. CASE k < j
    BY <1>1, <1>3, <2>2 DEF Chosen
  <2> QED BY <2>1, <2>2, <1>3, <1>4
<1>5. PlanOf(s)
  BY <1>1, <1>2, <1>4 DEF PlanOf, Chosen
<1>6. \A k \in 1 .. Len(s) : manifest[s[k]] \in K
  BY <1>1 DEF Chosen
<1> QED BY <1>5, <1>6 DEF s

(* The steps before sysprep.                                               *)
LEMMA BeforeSysprepPlan ==
  ASSUME manifest \in Manifests
  PROVE  /\ PlanOf(provisionersBeforeSysprep)
         /\ \A k \in 1 .. Len(provisionersBeforeSysprep) :
              manifest[provisionersBeforeSysprep[k]] \in {"shell", "ansible"}
<1>1. Kinds \ {"cloud-init", "sysprep"} = {"shell", "ansible"}
  BY DEF Kinds
<1> QED BY <1>1, StepsOfPlan DEF provisionersBeforeSysprep

(* A sidecar's step that is not displaced has only such steps before it.   *)
LEMMA NotDisplacedPlan ==
  ASSUME manifest \in Manifests,
         NEW k \in 1 .. Len(provisionersBeforeSysprep),
         isInitContainer(manifest[provisionersBeforeSysprep[k]]),
         provisionersBeforeSysprep[k] \notin Displaced,
         NEW j \in 1 .. k
  PROVE  isInitContainer(manifest[provisionersBeforeSysprep[j]])
<1> DEFINE s == provisionersBeforeSysprep
           K == Kinds \ {"cloud-init", "sysprep"}
<1>1. /\ Chosen(manifest, K, Len(manifest), s)
      /\ Steps = 1 .. Len(manifest) /\ Len(manifest) \in Nat
  BY StepsOfChosen DEF provisionersBeforeSysprep
<1>2. /\ \A i \in 1 .. Len(s) : manifest[s[i]] \in {"shell", "ansible"}
      /\ s \in Seq(Steps)
  BY BeforeSysprepPlan DEF PlanOf
<1> HIDE DEF s, K
<1>3. k \in 1 .. Len(s) /\ Len(s) \in Nat /\ isInitContainer(manifest[s[k]])
      /\ s[k] \notin Displaced
  BY <1>2 DEF s
<1>4. CASE j = k
  BY <1>3, <1>4 DEF s
<1>5. CASE j # k
  <2>1. j \in 1 .. Len(s) /\ j < k
    BY <1>3, <1>5
  <2>2. s[j] < s[k] /\ s[j] \in Steps /\ s[k] \in Steps
    BY <1>1, <1>2, <1>3, <2>1 DEF Chosen
  <2>3. manifest[s[j]] # "shell"
    BY <1>3, <2>2 DEF Displaced
  <2>4. manifest[s[j]] = "ansible"
    BY <1>2, <2>1, <2>3
  <2> QED BY <2>4 DEF s, isInitContainer, InitContainerKinds
<1> QED BY <1>4, <1>5

(* The first sysprep step, if there is one, by itself.                     *)
LEMMA SysprepPlan ==
  ASSUME manifest \in Manifests
  PROVE  /\ PlanOf(sysprepProvisioner)
         /\ Len(sysprepProvisioner) \in {0, 1}
         /\ \A k \in 1 .. Len(sysprepProvisioner) :
              manifest[sysprepProvisioner[k]] = "sysprep"
<1> DEFINE all == StepsOf({"sysprep"})
           s == SubSeq(all, 1, IF all = <<>> THEN 0 ELSE 1)
<1>1. /\ all \in Seq(Steps) /\ Len(all) <= Len(manifest)
      /\ \A k \in 1 .. Len(all) : manifest[all[k]] = "sysprep"
  BY StepsOfPlan DEF PlanOf
<1>2. sysprepProvisioner = s
  BY DEF sysprepProvisioner
<1> HIDE DEF all
<1>3. Len(manifest) \in Nat
  BY StepsOfChosen
<1>4. CASE all = <<>>
  <2>1. s = <<>>
    BY <1>4
  <2> HIDE DEF s
  <2> QED BY <1>2, <1>3, <2>1 DEF PlanOf
<1>5. CASE all # <<>>
  <2>1. Len(all) \in Nat /\ Len(all) >= 1 /\ all[1] \in Steps
    BY <1>1, <1>5
  <2>2. s = SubSeq(all, 1, 1)
    BY <1>5
  <2>3. Len(s) = 1 /\ s[1] = all[1] /\ s \in Seq(Steps)
    BY <1>1, <2>1, <2>2
  <2> HIDE DEF s
  <2> QED BY <1>1, <1>2, <1>3, <2>1, <2>3 DEF PlanOf
<1> QED BY <1>4, <1>5

(* The two parts, one after the other, are what is to be carried out.      *)
LEMMA PostBootPlan ==
  ASSUME manifest \in Manifests
  PROVE  /\ postBootProvisioners \in Seq(Steps)
         /\ Len(postBootProvisioners)
              = Len(provisionersBeforeSysprep) + Len(sysprepProvisioner)
         /\ \A k \in 1 .. Len(provisionersBeforeSysprep) :
              postBootProvisioners[k] = provisionersBeforeSysprep[k]
         /\ \A k \in 1 .. Len(sysprepProvisioner) :
              postBootProvisioners[Len(provisionersBeforeSysprep) + k]
                = sysprepProvisioner[k]
         /\ \A j, k \in 1 .. Len(postBootProvisioners) :
              j # k => postBootProvisioners[j] # postBootProvisioners[k]
<1> DEFINE a == provisionersBeforeSysprep
           b == sysprepProvisioner
           c == a \o b
<1>1. /\ a \in Seq(Steps) /\ b \in Seq(Steps)
      /\ Len(a) \in Nat /\ Len(b) \in {0, 1}
      /\ \A j, k \in 1 .. Len(a) : j # k => a[j] # a[k]
      /\ \A k \in 1 .. Len(a) : manifest[a[k]] # "sysprep"
      /\ \A k \in 1 .. Len(b) : manifest[b[k]] = "sysprep"
  BY BeforeSysprepPlan, SysprepPlan DEF PlanOf
<1> HIDE DEF a, b
<1>2. /\ c \in Seq(Steps) /\ Len(c) = Len(a) + Len(b)
      /\ \A k \in 1 .. Len(a) : c[k] = a[k]
      /\ \A k \in 1 .. Len(b) : c[Len(a) + k] = b[k]
  BY <1>1
<1> HIDE DEF c
<1>3. \A k \in 1 .. Len(c) : k \in 1 .. Len(a) \/ (k = Len(a) + 1 /\ 1 \in 1 .. Len(b))
  BY <1>1, <1>2
<1>4. ASSUME NEW j \in 1 .. Len(c), NEW k \in 1 .. Len(c), j # k
      PROVE  c[j] # c[k]
  <2>1. CASE j \in 1 .. Len(a) /\ k \in 1 .. Len(a)
    BY <1>1, <1>2, <1>4, <2>1
  <2>2. CASE j \in 1 .. Len(a) /\ k = Len(a) + 1 /\ 1 \in 1 .. Len(b)
    BY <1>1, <1>2, <2>2
  <2>3. CASE k \in 1 .. Len(a) /\ j = Len(a) + 1 /\ 1 \in 1 .. Len(b)
    BY <1>1, <1>2, <2>3
  <2> QED BY <1>3, <1>4, <2>1, <2>2, <2>3
<1>5. postBootProvisioners = c
  BY DEF postBootProvisioners, a, b, c
<1> QED BY <1>2, <1>4, <1>5 DEF a, b

(* The manifest does not change, and with it none of what it says.         *)
LEMMA PlanStays ==
  ASSUME manifest' = manifest
  PROVE  /\ Steps' = Steps /\ StepDirs' = StepDirs /\ Sidecars' = Sidecars
         /\ Displaced' = Displaced
         /\ provisionersBeforeSysprep' = provisionersBeforeSysprep
         /\ sysprepProvisioner' = sysprepProvisioner
         /\ postBootProvisioners' = postBootProvisioners
<1>1. StepsOf(InitContainerKinds)' = StepsOf(InitContainerKinds)
  BY DEF StepsOf
<1>2. StepsOf(Kinds \ {"cloud-init", "sysprep"})'
        = StepsOf(Kinds \ {"cloud-init", "sysprep"})
  BY DEF StepsOf
<1>3. StepsOf({"sysprep"})' = StepsOf({"sysprep"})
  BY DEF StepsOf
<1>4. /\ provisionersBeforeSysprep' = provisionersBeforeSysprep
      /\ sysprepProvisioner' = sysprepProvisioner
  BY <1>2, <1>3 DEF provisionersBeforeSysprep, sysprepProvisioner
<1>5. Displaced' = Displaced
  BY DEF Displaced, Steps, isInitContainer
<1> QED
  BY <1>1, <1>4, <1>5 DEF Steps, StepDirs, Sidecars, postBootProvisioners

(* Every sidecar has a directory.                                          *)
LEMMA SidecarDirs ==
  ASSUME manifest \in Manifests
  PROVE  Sidecars \subseteq StepDirs /\ StepDirs \subseteq Nat
<1>1. /\ Len(StepsOf(InitContainerKinds)) <= Len(manifest)
      /\ StepsOf(InitContainerKinds) \in Seq(Steps)
      /\ Len(manifest) \in Nat
  BY StepsOfPlan, StepsOfChosen DEF PlanOf
<1>2. Len(StepsOf(InitContainerKinds)) \in Nat
  BY <1>1
<1> QED BY <1>1, <1>2 DEF Sidecars, StepDirs

(* ---- Types ------------------------------------------------------------ *)

(* The records of ProvTypeOK.                                              *)
StepStatus == [id : Steps, ok : BOOLEAN]
DirRec == [config : Steps \cup {0}, status : {"none", "partial"} \cup Answers]
RunRec == [pc : {"idle", "step", "running", "waiting", "failed"},
           specs : Seq(Steps), step : Nat, external : Nat,
           statuses : Seq(StepStatus)]
SidecarRec == [pc : {"waiting", "running", "answer", "writing", "idle", "backoff"},
               id : Steps \cup {0}, answer : Answers]

(* ProvTypeOK, with its records named.                                     *)
LEMMA ProvTypes ==
  ProvTypeOK <=> /\ manifest \in Manifests
                 /\ dirs \in [StepDirs -> DirRec]
                 /\ runner \in RunRec
                 /\ reported \in Seq(StepStatus)
                 /\ sidecars \in [Sidecars -> SidecarRec]
                 /\ restarts \in 0 .. MaxRestarts
                 /\ ran \in Seq(Steps)
BY DEF ProvTypeOK, StepStatus, DirRec, RunRec, SidecarRec

(* To show it of the next state, the sets of this state do.                *)
LEMMA ProvTypesNext ==
  ASSUME manifest \in Manifests, manifest' = manifest,
         dirs' \in [StepDirs -> DirRec], runner' \in RunRec,
         reported' \in Seq(StepStatus), sidecars' \in [Sidecars -> SidecarRec],
         restarts' \in 0 .. MaxRestarts, ran' \in Seq(Steps)
  PROVE  ProvTypeOK'
<1>1. /\ Steps' = Steps /\ StepDirs' = StepDirs /\ Sidecars' = Sidecars
  BY PlanStays
<1> QED BY <1>1 DEF ProvTypeOK, StepStatus, DirRec, RunRec, SidecarRec, Answers

(* The run under way: which steps it is for, how far it has come, and that *)
(* its two counters agree until it comes to a step of its own.             *)
RunShape ==
  /\ stage \in {"provision", "sysprep"}
  /\ runner.specs = IF stage = "provision" THEN provisionersBeforeSysprep
                                           ELSE sysprepProvisioner
  /\ runner.step <= Len(runner.specs) /\ runner.external <= runner.step
  /\ runner.pc \in {"running", "waiting"} => runner.step < Len(runner.specs)
  /\ runner.pc = "waiting" => isInitContainer(manifest[Current])
  /\ \A k \in 1 .. runner.step :
       (\A j \in 1 .. k : isInitContainer(manifest[runner.specs[j]])) =>
         k <= runner.external

(* The types, and a run in order as long as the build is under way.        *)
RunInv == /\ ProvTypeOK
          /\ result[Iso] = "none" /\ runner.pc # "idle" => RunShape
          /\ \A i \in Sidecars : sidecars[i].pc = "running" => sidecars[i].id # 0

(* A run stays within its steps and within the directories.                *)
LEMMA CurrentStep ==
  ASSUME ProvTypeOK, RunShape, runner.step < Len(runner.specs)
  PROVE  /\ Current \in Steps /\ StepDir \in StepDirs
         /\ runner.step + 1 \in 1 .. Len(runner.specs)
         /\ runner.step \in Nat /\ runner.external \in Nat
         /\ runner.specs \in Seq(Steps) /\ Len(runner.specs) \in Nat
<1>1. /\ manifest \in Manifests /\ runner \in RunRec
      /\ runner.step \in Nat /\ runner.external \in Nat
  BY ProvTypes DEF RunRec
<1>2. PlanOf(runner.specs)
  BY <1>1, BeforeSysprepPlan, SysprepPlan DEF RunShape
<1>3. Len(manifest) \in Nat
  BY <1>1, StepsOfChosen
<1>4. /\ runner.specs \in Seq(Steps) /\ Len(runner.specs) \in Nat
      /\ Len(runner.specs) <= Len(manifest)
  BY <1>2 DEF PlanOf
<1>5. runner.step + 1 \in 1 .. Len(runner.specs)
  BY <1>1, <1>4
<1>6. Current \in Steps
  BY <1>4, <1>5 DEF Current
<1>7. runner.step \in StepDirs /\ runner.external \in StepDirs
  BY <1>1, <1>3, <1>4 DEF StepDirs, RunShape
<1> QED BY <1>1, <1>4, <1>5, <1>6, <1>7 DEF StepDir

(* What the end of a step does to the run.                                 *)
LEMMA Concludes ==
  ASSUME ProvTypeOK, RunShape, runner.step < Len(runner.specs),
         NEW ok \in BOOLEAN, Conclude(ok)
  PROVE  /\ reported' = Append(runner.statuses, [id |-> Current, ok |-> ok])
         /\ reported' \in Seq(StepStatus)
         /\ runner' \in RunRec
         /\ runner'.pc = IF ok THEN "step" ELSE "failed"
         /\ runner'.specs = runner.specs /\ runner'.step = runner.step + 1
         /\ runner'.external = IF isInitContainer(manifest[Current])
                                 THEN runner.external + 1 ELSE runner.external
         /\ runner'.statuses = reported'
<1>1. runner \in RunRec /\ runner.statuses \in Seq(StepStatus)
  BY ProvTypes DEF RunRec
<1> DEFINE st == Append(runner.statuses, [id |-> Current, ok |-> ok])
<1>2. st \in Seq(StepStatus)
  BY <1>1, CurrentStep DEF StepStatus
<1>3. runner' = [runner EXCEPT
                   !.pc = IF ok THEN "step" ELSE "failed", !.step = @ + 1,
                   !.external = IF isInitContainer(manifest[Current]) THEN @ + 1 ELSE @,
                   !.statuses = st]
      /\ reported' = st
  BY DEF Conclude
<1> HIDE DEF st
<1>4. runner.step + 1 \in Nat /\ runner.external + 1 \in Nat
  BY CurrentStep
<1>5. /\ runner'.pc = IF ok THEN "step" ELSE "failed"
      /\ runner'.specs = runner.specs /\ runner'.step = runner.step + 1
      /\ runner'.external = IF isInitContainer(manifest[Current])
                                 THEN runner.external + 1 ELSE runner.external
      /\ runner'.statuses = st
  BY <1>1, <1>3 DEF RunRec
<1>6. runner' \in RunRec
  BY <1>1, <1>2, <1>3, <1>4 DEF RunRec
<1> QED BY <1>2, <1>3, <1>5, <1>6 DEF st

(* The end of a step leaves the run in order.                              *)
LEMMA ConcludesShape ==
  ASSUME ProvTypeOK, RunShape, runner.step < Len(runner.specs),
         NEW ok \in BOOLEAN, Conclude(ok), manifest' = manifest, stage' = stage
  PROVE  RunShape'
<1>1. /\ runner'.pc \in {"step", "failed"}
      /\ runner'.specs = runner.specs /\ runner'.step = runner.step + 1
      /\ runner'.external = IF isInitContainer(manifest[Current])
                                 THEN runner.external + 1 ELSE runner.external
  BY Concludes
<1>2. /\ runner.step + 1 \in 1 .. Len(runner.specs)
      /\ runner.step \in Nat /\ runner.external \in Nat
      /\ Len(runner.specs) \in Nat
  BY CurrentStep
<1>3. /\ provisionersBeforeSysprep' = provisionersBeforeSysprep
      /\ sysprepProvisioner' = sysprepProvisioner
  BY PlanStays
<1>4. \A k \in 1 .. (runner.step + 1) : k \in 1 .. runner.step \/ k = runner.step + 1
  BY <1>2
<1>5. ASSUME NEW k \in 1 .. runner'.step,
             \A j \in 1 .. k : isInitContainer(manifest[runner'.specs[j]])
      PROVE  k <= runner'.external
  <2>1. CASE k \in 1 .. runner.step
    <3>1. k <= runner.external
      BY <1>1, <1>5, <2>1 DEF RunShape
    <3> QED BY <1>1, <1>2, <3>1
  <2>2. CASE k = runner.step + 1
    <3>1. k \in 1 .. k
      BY <1>2, <2>2
    <3>2. isInitContainer(manifest[Current])
      BY <1>1, <1>5, <2>2, <3>1 DEF Current
    <3>3. runner'.external = runner.external + 1
      BY <1>1, <3>2
    <3>4. CASE runner.step = 0
      BY <1>2, <2>2, <3>3, <3>4
    <3>5. CASE runner.step # 0
      <4>1. /\ runner.step \in 1 .. runner.step
            /\ \A j \in 1 .. runner.step : j \in 1 .. k
        BY <1>2, <2>2, <3>5
      <4>2. runner.step <= runner.external
        BY <1>1, <1>5, <4>1 DEF RunShape
      <4> QED BY <1>2, <2>2, <3>3, <4>2
    <3> QED BY <3>4, <3>5
  <2> QED BY <1>1, <1>4, <2>1, <2>2
<1>6. /\ runner'.step <= Len(runner'.specs) /\ runner'.external <= runner'.step
  BY <1>1, <1>2 DEF RunShape
<1> QED BY <1>1, <1>3, <1>5, <1>6 DEF RunShape, isInitContainer

(* What a step of the runner does: it hands a step out, fails it, carries  *)
(* it out, or takes the answer of a sidecar.                               *)
RunnerEffect ==
  \/ /\ runner.pc = "step"
     /\ dirs' = [dirs EXCEPT ![StepDir].config = Current]
     /\ runner' = [runner EXCEPT !.pc =
                     IF isInitContainer(manifest[Current])
                       THEN "waiting" ELSE "running"]
     /\ UNCHANGED <<reported, ran>>
  \/ /\ dirs' = [dirs EXCEPT ![StepDir].status = "failure"]
     /\ Conclude(FALSE)
     /\ UNCHANGED ran
  \/ /\ runner.pc = "running"
     /\ dirs' = [dirs EXCEPT ![StepDir].status = "success"]
     /\ ran' = Append(ran, Current)
     /\ Conclude(TRUE)
  \/ /\ runner.pc = "waiting"
     /\ dirs[StepDir].status = "success"
     /\ Conclude(TRUE)
     /\ UNCHANGED <<dirs, ran>>
  \/ /\ runner.pc = "waiting"
     /\ Conclude(FALSE)
     /\ UNCHANGED <<dirs, ran>>

(* Every step of the runner is one of these, at a step of the run.         *)
LEMMA RunnerActs ==
  ASSUME RunInv, RunStep
  PROVE  /\ runner.pc \in {"step", "running", "waiting"} /\ RunShape /\ ProvTypeOK
         /\ runner.step < Len(runner.specs)
         /\ UNCHANGED <<manifest, sidecars, restarts, stage, result, access>>
         /\ result[Iso] = "none"
         /\ RunnerEffect
<1>1. /\ UNCHANGED <<stage, result, access>> /\ result[Iso] = "none"
      /\ StartStep \/ RunInProcess(Reachable) \/ waitForInitContainerOutput
           \/ WaitExpires
  BY DEF RunStep, RunnerStep, isoVars, Fixed
<1>2. runner.pc \in {"step", "running", "waiting"}
  BY <1>1 DEF StartStep, HasStep, RunInProcess, waitForInitContainerOutput, WaitExpires
<1>3. RunShape /\ ProvTypeOK
  BY <1>1, <1>2 DEF RunInv
<1>4. UNCHANGED <<manifest, sidecars, restarts>>
  BY <1>1 DEF StartStep, RunInProcess, waitForInitContainerOutput, WaitExpires
<1>5. runner.step < Len(runner.specs)
  BY <1>1, <1>3 DEF RunShape, StartStep, HasStep, RunInProcess,
                    waitForInitContainerOutput, WaitExpires
<1>6. RunnerEffect
  <2>1. CASE StartStep
    BY <2>1 DEF StartStep, HasStep, RunnerEffect
  <2>2. CASE RunInProcess(Reachable)
    <3>1. PICK ok \in BOOLEAN :
            /\ ran' = IF ok THEN Append(ran, Current) ELSE ran
            /\ dirs' = [dirs EXCEPT ![StepDir].status =
                                 IF ok THEN "success" ELSE "failure"]
            /\ Conclude(ok)
      BY <2>2 DEF RunInProcess
    <3>2. CASE ok = TRUE
      BY <2>2, <3>1, <3>2 DEF RunInProcess, RunnerEffect
    <3>3. CASE ok = FALSE
      BY <3>1, <3>3 DEF RunnerEffect
    <3> QED BY <3>2, <3>3
  <2>3. CASE waitForInitContainerOutput
    <3>1. CASE dirs[StepDir].status = "success"
      <4>1. (dirs[StepDir].status = "success") = TRUE
        BY <3>1
      <4> QED BY <2>3, <3>1, <4>1 DEF waitForInitContainerOutput, RunnerEffect
    <3>2. CASE dirs[StepDir].status # "success"
      <4>1. (dirs[StepDir].status = "success") = FALSE
        BY <3>2
      <4> QED BY <2>3, <3>2, <4>1 DEF waitForInitContainerOutput, RunnerEffect
    <3> QED BY <3>1, <3>2
  <2>4. CASE WaitExpires
    BY <2>4 DEF WaitExpires, RunnerEffect
  <2> QED BY <1>1, <2>1, <2>2, <2>3, <2>4
<1> QED BY <1>1, <1>2, <1>3, <1>4, <1>5, <1>6

(* The runner keeps to its steps, its directories and its counters.        *)
LEMMA RunStepTypes ==
  ASSUME RunInv, RunStep
  PROVE  RunInv'
<1>1. /\ RunShape /\ ProvTypeOK /\ runner.step < Len(runner.specs)
      /\ UNCHANGED <<manifest, sidecars, restarts, stage, result>>
  BY RunnerActs
<1>2. /\ manifest \in Manifests /\ dirs \in [StepDirs -> DirRec]
      /\ runner \in RunRec /\ reported \in Seq(StepStatus)
      /\ sidecars \in [Sidecars -> SidecarRec]
      /\ restarts \in 0 .. MaxRestarts /\ ran \in Seq(Steps)
  BY <1>1, ProvTypes
<1>3. Current \in Steps /\ StepDir \in StepDirs
  BY <1>1, CurrentStep
<1>4. dirs' \in [StepDirs -> DirRec]
  <2>1. dirs[StepDir] \in DirRec
    BY <1>2, <1>3
  <2>2. \A d \in DirRec : /\ [d EXCEPT !.config = Current] \in DirRec
                          /\ [d EXCEPT !.status = "failure"] \in DirRec
                          /\ [d EXCEPT !.status = "success"] \in DirRec
    BY <1>3 DEF DirRec, Answers
  <2>3. CASE dirs' = [dirs EXCEPT ![StepDir].config = Current]
    <3>1. [dirs[StepDir] EXCEPT !.config = Current] \in DirRec
      BY <2>1, <2>2
    <3> QED BY <1>2, <2>3, <3>1
  <2>4. CASE dirs' = [dirs EXCEPT ![StepDir].status = "failure"]
    <3>1. [dirs[StepDir] EXCEPT !.status = "failure"] \in DirRec
      BY <2>1, <2>2
    <3> QED BY <1>2, <2>4, <3>1
  <2>5. CASE dirs' = [dirs EXCEPT ![StepDir].status = "success"]
    <3>1. [dirs[StepDir] EXCEPT !.status = "success"] \in DirRec
      BY <2>1, <2>2
    <3> QED BY <1>2, <2>5, <3>1
  <2> QED BY <1>2, <2>3, <2>4, <2>5, RunnerActs DEF RunnerEffect
<1>5. ran' \in Seq(Steps)
  <2>1. ran' = ran \/ ran' = Append(ran, Current)
    BY RunnerActs DEF RunnerEffect
  <2> QED BY <1>2, <1>3, <2>1
<1>6. CASE \E ok \in BOOLEAN : Conclude(ok)
  <2>1. PICK ok \in BOOLEAN : Conclude(ok)
    BY <1>6
  <2>2. runner' \in RunRec /\ reported' \in Seq(StepStatus) /\ RunShape'
    BY <1>1, <2>1, Concludes, ConcludesShape
  <2>3. ProvTypeOK'
    BY <1>1, <1>2, <1>4, <1>5, <2>2, ProvTypesNext
  <2> QED BY <1>1, <2>2, <2>3, PlanStays DEF RunInv
<1>7. CASE /\ runner' = [runner EXCEPT !.pc =
                               IF isInitContainer(manifest[Current])
                                 THEN "waiting" ELSE "running"]
           /\ UNCHANGED <<reported, ran>>
  <2>1. /\ runner'.pc = IF isInitContainer(manifest[Current])
                          THEN "waiting" ELSE "running"
        /\ runner'.specs = runner.specs /\ runner'.step = runner.step
        /\ runner'.external = runner.external
        /\ runner' \in RunRec
    BY <1>2, <1>7 DEF RunRec
  <2>2. Current' = Current
    BY <2>1 DEF Current
  <2>3. /\ provisionersBeforeSysprep' = provisionersBeforeSysprep
        /\ sysprepProvisioner' = sysprepProvisioner
    BY <1>1, PlanStays
  <2>4. RunShape'
    BY <1>1, <2>1, <2>2, <2>3 DEF RunShape, isInitContainer
  <2>5. ProvTypeOK'
    BY <1>1, <1>2, <1>4, <1>5, <1>7, <2>1, ProvTypesNext
  <2> QED BY <1>1, <2>4, <2>5, PlanStays DEF RunInv
<1> QED BY <1>6, <1>7, RunnerActs DEF RunnerEffect

(* What a step of sidecar i does: it reads its config, carries the step    *)
(* out or fails, truncates its status, fills it, or starts again.          *)
SidecarEffect(i) ==
  \/ /\ dirs[i].config # 0
     /\ sidecars' = [sidecars EXCEPT ![i].pc = "running",
                                     ![i].id = dirs[i].config]
     /\ UNCHANGED <<dirs, restarts, ran>>
  \/ /\ sidecars[i].pc = "running"
     /\ isInitContainer(manifest[sidecars[i].id])
     /\ ran' = Append(ran, sidecars[i].id)
     /\ sidecars' = [sidecars EXCEPT ![i].pc = "answer",
                                     ![i].answer = "success"]
     /\ UNCHANGED <<dirs, restarts>>
  \/ /\ sidecars[i].pc = "running"
     /\ sidecars' = [sidecars EXCEPT ![i].pc = "answer",
                                     ![i].answer = "failure"]
     /\ UNCHANGED <<dirs, restarts, ran>>
  \/ /\ sidecars[i].pc = "answer"
     /\ dirs' = [dirs EXCEPT ![i].status = "partial"]
     /\ sidecars' = [sidecars EXCEPT ![i].pc = "writing"]
     /\ UNCHANGED <<restarts, ran>>
  \/ /\ sidecars[i].pc = "writing"
     /\ dirs' = [dirs EXCEPT ![i].status = sidecars[i].answer]
     /\ \E pc \in {"idle", "backoff"} :
          sidecars' = [sidecars EXCEPT ![i].pc = pc]
     /\ UNCHANGED <<restarts, ran>>
  \/ /\ restarts < MaxRestarts /\ restarts' = restarts + 1
     /\ sidecars' = [sidecars EXCEPT ![i].pc = "waiting", ![i].id = 0]
     /\ UNCHANGED <<dirs, ran>>

(* Every step of the sidecars is one of these.                             *)
LEMMA SidecarActs ==
  ASSUME ProvTypeOK, SidecarsMove
  PROVE  /\ UNCHANGED <<manifest, runner, reported, stage, result, access>>
         /\ result[Iso] = "none"
         /\ \E i \in Sidecars : SidecarEffect(i)
<1>1. /\ UNCHANGED <<stage, result, access>> /\ result[Iso] = "none"
      /\ SidecarStep(Reachable)
  BY DEF SidecarsMove, isoVars, Fixed
<1>2. PICK i \in Sidecars :
        waitForInput(i) \/ SidecarRuns(i, Reachable) \/ writeStatus(i) \/ Restart(i)
  BY <1>1 DEF SidecarStep
<1>3. UNCHANGED <<manifest, runner, reported>>
  BY <1>2 DEF waitForInput, SidecarRuns, writeStatus, Restart
<1>4. CASE waitForInput(i)
  BY <1>1, <1>3, <1>4 DEF waitForInput, SidecarEffect
<1>5. CASE SidecarRuns(i, Reachable)
  <2>1. PICK ok \in BOOLEAN :
       /\ ok => isInitContainer(manifest[sidecars[i].id])
       /\ ran' = IF ok THEN Append(ran, sidecars[i].id) ELSE ran
       /\ sidecars' = [sidecars EXCEPT
                         ![i].pc = "answer",
                         ![i].answer = IF ok THEN "success" ELSE "failure"]
    BY <1>5 DEF SidecarRuns
  <2>2. sidecars[i].pc = "running" /\ UNCHANGED <<dirs, restarts>>
    BY <1>5 DEF SidecarRuns
  <2>3. CASE ok = TRUE
    BY <1>1, <1>3, <2>1, <2>2, <2>3 DEF SidecarEffect
  <2>4. CASE ok = FALSE
    BY <1>1, <1>3, <2>1, <2>2, <2>4 DEF SidecarEffect
  <2> QED BY <2>3, <2>4
<1>6. CASE writeStatus(i)
  BY <1>1, <1>3, <1>6 DEF writeStatus, SidecarEffect
<1>7. CASE Restart(i)
  BY <1>1, <1>3, <1>7 DEF Restart, SidecarEffect
<1> QED BY <1>2, <1>4, <1>5, <1>6, <1>7

(* The sidecars keep their records and directories in shape.               *)
LEMMA SidecarTypes ==
  ASSUME RunInv, SidecarsMove
  PROVE  RunInv'
<1>0. ProvTypeOK /\ UNCHANGED <<manifest, runner, reported, stage, result>>
  BY SidecarActs DEF RunInv
<1>1. /\ manifest \in Manifests /\ dirs \in [StepDirs -> DirRec]
      /\ runner \in RunRec /\ reported \in Seq(StepStatus)
      /\ sidecars \in [Sidecars -> SidecarRec]
      /\ restarts \in 0 .. MaxRestarts /\ ran \in Seq(Steps)
      /\ MaxRestarts \in Nat
  BY <1>0, ProvTypes, RestartsAssumption
<1>2. /\ Sidecars' = Sidecars
      /\ provisionersBeforeSysprep' = provisionersBeforeSysprep
      /\ sysprepProvisioner' = sysprepProvisioner
  BY <1>0, PlanStays
<1>3. PICK i \in Sidecars : SidecarEffect(i)
  BY <1>0, SidecarActs
<1>4. i \in StepDirs /\ dirs[i] \in DirRec /\ sidecars[i] \in SidecarRec
  BY <1>1, SidecarDirs
<1>5. /\ dirs[i].config \in Steps \cup {0}
      /\ sidecars[i].answer \in Answers
      /\ sidecars[i].id \in Steps \cup {0}
      /\ sidecars[i].pc = "running" => sidecars[i].id \in Steps
  BY <1>4 DEF DirRec, SidecarRec, RunInv
<1>6. dirs' \in [StepDirs -> DirRec]
  <2>1. \A st \in {"partial"} \cup Answers : [dirs[i] EXCEPT !.status = st] \in DirRec
    BY <1>4 DEF DirRec
  <2>2. \/ dirs' = dirs
        \/ \E st \in {"partial"} \cup Answers : dirs' = [dirs EXCEPT ![i].status = st]
    BY <1>3, <1>5 DEF SidecarEffect
  <2> QED BY <1>1, <1>4, <2>1, <2>2
<1>7. sidecars' \in [Sidecars -> SidecarRec]
      /\ \A j \in Sidecars : sidecars'[j].pc = "running" => sidecars'[j].id # 0
  <2>0. /\ \A j \in Sidecars : sidecars[j].pc = "running" => sidecars[j].id # 0
    BY DEF RunInv
  <2>1. PICK r \in SidecarRec :
          /\ sidecars' = [sidecars EXCEPT ![i] = r]
          /\ r.pc = "running" => r.id # 0
    <3>1. CASE sidecars' = [sidecars EXCEPT ![i].pc = "running",
                                            ![i].id = dirs[i].config]
               /\ dirs[i].config # 0
      <4> DEFINE r == [sidecars[i] EXCEPT !.pc = "running", !.id = dirs[i].config]
      <4>1. r \in SidecarRec /\ r.id # 0
        BY <1>4, <1>5, <3>1 DEF SidecarRec
      <4>2. sidecars' = [sidecars EXCEPT ![i] = r]
        BY <1>1, <3>1
      <4> QED BY <4>1, <4>2
    <3>2. ASSUME NEW a \in Answers,
               sidecars' = [sidecars EXCEPT ![i].pc = "answer", ![i].answer = a]
          PROVE  \E r \in SidecarRec : sidecars' = [sidecars EXCEPT ![i] = r]
                                       /\ r.pc # "running"
      <4> DEFINE r == [sidecars[i] EXCEPT !.pc = "answer", !.answer = a]
      <4>1. r \in SidecarRec /\ r.pc = "answer"
        BY <1>4, <1>5, <3>2 DEF SidecarRec
      <4>2. sidecars' = [sidecars EXCEPT ![i] = r]
        BY <1>1, <3>2
      <4> QED BY <4>1, <4>2
    <3>3. ASSUME NEW pc \in {"writing", "idle", "backoff"},
               sidecars' = [sidecars EXCEPT ![i].pc = pc]
          PROVE  \E r \in SidecarRec : sidecars' = [sidecars EXCEPT ![i] = r]
                                       /\ r.pc # "running"
      <4> DEFINE r == [sidecars[i] EXCEPT !.pc = pc]
      <4>1. r \in SidecarRec /\ r.pc = pc
        BY <1>4, <1>5, <3>3 DEF SidecarRec
      <4>2. sidecars' = [sidecars EXCEPT ![i] = r]
        BY <1>1, <3>3
      <4> QED BY <4>1, <4>2
    <3>4. CASE sidecars' = [sidecars EXCEPT ![i].pc = "waiting", ![i].id = 0]
      <4> DEFINE r == [sidecars[i] EXCEPT !.pc = "waiting", !.id = 0]
      <4>1. r \in SidecarRec /\ r.pc = "waiting"
        BY <1>4, <1>5, <3>4 DEF SidecarRec
      <4>2. sidecars' = [sidecars EXCEPT ![i] = r]
        BY <1>1, <3>4
      <4> QED BY <4>1, <4>2
    <3> QED BY <1>3, <3>1, <3>2, <3>3, <3>4 DEF Answers, SidecarEffect
  <2>2. \A j \in Sidecars : sidecars'[j] = IF j = i THEN r ELSE sidecars[j]
    BY <1>1, <2>1
  <2> QED BY <1>1, <2>0, <2>1, <2>2
<1>8. ran' \in Seq(Steps) /\ restarts' \in 0 .. MaxRestarts
  <2>1. \/ ran' = ran
        \/ ran' = Append(ran, sidecars[i].id) /\ sidecars[i].id \in Steps
    BY <1>3, <1>5 DEF SidecarEffect
  <2>2. restarts' = restarts \/ (restarts < MaxRestarts /\ restarts' = restarts + 1)
    BY <1>3 DEF SidecarEffect
  <2>3. ran' \in Seq(Steps)
    BY <1>1, <2>1
  <2> QED BY <1>1, <2>2, <2>3
<1>9. ProvTypeOK'
  BY <1>0, <1>1, <1>6, <1>7, <1>8, ProvTypesNext
<1>10. runner.pc # "idle" /\ RunShape => RunShape'
  BY <1>0, <1>2 DEF RunShape, Current, isInitContainer
<1> QED BY <1>0, <1>2, <1>7, <1>9, <1>10 DEF RunInv

(* ---- The steps -------------------------------------------------------- *)

(* Of what was carried out, done, the steps there are, plan, and those that *)
(* nothing is promised of, off: a step is due once those before it have    *)
(* been carried out...                                                     *)
Carried(done, x, off) == Contains(done, x) \/ x \in off

Due(x, done, plan, off) ==
  \E k \in 1 .. Len(plan) :
    plan[k] = x /\ \A j \in 1 .. (k - 1) : Carried(done, plan[j], off)

(* ... none was carried out before it was due, ...                         *)
Ordered(done, plan, off) ==
  \A p \in 1 .. Len(done), k \in 1 .. Len(plan) :
    done[p] = plan[k] =>
      \A j \in 1 .. (k - 1) :
        plan[j] \in off \/ \E q \in 1 .. (p - 1) : done[q] = plan[j]

(* ... the first n of them have been, and a report says no more than that. *)
AllRan(done, plan, n, off) == \A k \in 1 .. n : Carried(done, plan[k], off)

Truthful(done, statuses, off) ==
  \A k \in 1 .. Len(statuses) :
    statuses[k].ok => Carried(done, statuses[k].id, off)

(* A directory and a sidecar are there for step x alone, and an answer of  *)
(* success means that x was carried out.                                   *)
DirServes(dir, x, done) ==
  /\ dir.config \in {0, x}
  /\ dir.status = "success" => Contains(done, x)

SidecarServes(car, x, done) ==
  /\ car.id \in {0, x}
  /\ car.pc \in {"answer", "writing"} /\ car.answer = "success" =>
       Contains(done, x)

(* Sidecar d and its directory serve the step of that place, if that is a  *)
(* step of a sidecar that is not displaced.                                *)
Served ==
  \A d \in StepDirs :
    /\ d < Len(provisionersBeforeSysprep)
    /\ isInitContainer(manifest[provisionersBeforeSysprep[d + 1]])
    /\ provisionersBeforeSysprep[d + 1] \notin Displaced
    => /\ DirServes(dirs[d], provisionersBeforeSysprep[d + 1], ran)
       /\ d \in Sidecars =>
            SidecarServes(sidecars[d], provisionersBeforeSysprep[d + 1], ran)

(* What is written for a sidecar, or known to one, is due.                 *)
HandedOut ==
  /\ \A d \in StepDirs :
       dirs[d].config # 0 => Due(dirs[d].config, ran, postBootProvisioners, Displaced)
  /\ \A i \in Sidecars :
       sidecars[i].id # 0 => Due(sidecars[i].id, ran, postBootProvisioners, Displaced)

EarlyStages == {"fetch", "media", "creds", "preboot", "isos", "disk", "start",
                "boot", "ready", "provision"}

(* How far a build has come at a stage.                                    *)
Progress ==
  /\ stage \in {"start", "boot"} => (requiresGuestAccess => access # "none")
  /\ stage \in {"sanitize", "hygiene", "sysprep"} =>
       AllRan(ran, provisionersBeforeSysprep, Len(provisionersBeforeSysprep), Displaced)
  /\ \/ stage \in {"finalize", "wait", "convert", "archive", "describe"}
     \/ result[Iso] = "success"
     => AllRan(ran, postBootProvisioners, Len(postBootProvisioners), Displaced)

(* What makes StepsInOrder inductive.                                      *)
StepsInv ==
  /\ Ordered(ran, postBootProvisioners, Displaced)
  /\ Truthful(ran, reported, Displaced)
  /\ Truthful(ran, runner.statuses, Displaced)
  /\ HandedOut
  /\ Progress
  /\ result[Iso] = "none" =>
       /\ runner.pc \in {"step", "running", "waiting"} =>
            AllRan(ran, runner.specs, runner.step, Displaced)
       /\ stage \in EarlyStages => Served

(* ran only grows.                                                         *)
LEMMA AppendKeeps ==
  ASSUME NEW S, NEW done \in Seq(S), NEW x \in S
  PROVE  /\ \A y : Contains(done, y) => Contains(Append(done, x), y)
         /\ Contains(Append(done, x), x)
<1>1. /\ Len(done) \in Nat /\ Len(Append(done, x)) = Len(done) + 1
      /\ Append(done, x)[Len(done) + 1] = x
      /\ \A k \in 1 .. Len(done) : Append(done, x)[k] = done[k]
  OBVIOUS
<1>2. Len(done) + 1 \in 1 .. (Len(done) + 1)
      /\ \A k \in 1 .. Len(done) : k \in 1 .. (Len(done) + 1)
  BY <1>1
<1> QED BY <1>1, <1>2 DEF Contains

(* A due step keeps the order.                                             *)
LEMMA OrderedAppend ==
  ASSUME NEW S, NEW done \in Seq(S), NEW plan \in Seq(S), NEW x \in S, NEW off,
         \A j, k \in 1 .. Len(plan) : j # k => plan[j] # plan[k],
         Ordered(done, plan, off), Due(x, done, plan, off)
  PROVE  Ordered(Append(done, x), plan, off)
<1> DEFINE new == Append(done, x)
<1>1. /\ Len(done) \in Nat /\ Len(new) = Len(done) + 1
      /\ new[Len(done) + 1] = x
      /\ \A k \in 1 .. Len(done) : new[k] = done[k]
  OBVIOUS
<1> HIDE DEF new
<1> SUFFICES ASSUME NEW p \in 1 .. Len(new), NEW k \in 1 .. Len(plan),
                    new[p] = plan[k], NEW j \in 1 .. (k - 1), plan[j] \notin off
             PROVE  \E q \in 1 .. (p - 1) : new[q] = plan[j]
  BY DEF Ordered, new
<1>2. CASE p \in 1 .. Len(done)
  <2>1. PICK q \in 1 .. (p - 1) : done[q] = plan[j]
    BY <1>1, <1>2 DEF Ordered
  <2>2. q \in 1 .. Len(done)
    BY <1>1, <1>2
  <2> QED BY <1>1, <2>1, <2>2
<1>3. CASE p = Len(done) + 1
  <2>1. PICK l \in 1 .. Len(plan) :
          plan[l] = x /\ \A i \in 1 .. (l - 1) : Carried(done, plan[i], off)
    BY DEF Due
  <2>2. l = k
    BY <1>1, <1>3, <2>1
  <2>3. PICK q \in 1 .. Len(done) : done[q] = plan[j]
    BY <2>1, <2>2 DEF Carried, Contains
  <2>4. q \in 1 .. (p - 1)
    BY <1>1, <1>3
  <2> QED BY <1>1, <2>3, <2>4
<1> QED BY <1>1, <1>2, <1>3

(* What was said of ran stays true when it grows.                          *)
LEMMA DueGrows ==
  ASSUME NEW done, NEW more, NEW off,
         \A y : Contains(done, y) => Contains(more, y)
  PROVE  /\ \A x : Carried(done, x, off) => Carried(more, x, off)
         /\ \A x, plan : Due(x, done, plan, off) => Due(x, more, plan, off)
         /\ \A s : Truthful(done, s, off) => Truthful(more, s, off)
         /\ \A plan, n : AllRan(done, plan, n, off) => AllRan(more, plan, n, off)
         /\ \A d, x : DirServes(d, x, done) => DirServes(d, x, more)
         /\ \A c, x : SidecarServes(c, x, done) => SidecarServes(c, x, more)
<1>0. \A x : Carried(done, x, off) => Carried(more, x, off)
  BY DEF Carried
<1>1. \A x, plan : Due(x, done, plan, off) => Due(x, more, plan, off)
  BY <1>0 DEF Due
<1>2. \A s : Truthful(done, s, off) => Truthful(more, s, off)
  BY <1>0 DEF Truthful
<1>3. \A plan, n : AllRan(done, plan, n, off) => AllRan(more, plan, n, off)
  BY <1>0 DEF AllRan
<1>4. \A d, x : DirServes(d, x, done) => DirServes(d, x, more)
  BY DEF DirServes
<1>5. \A c, x : SidecarServes(c, x, done) => SidecarServes(c, x, more)
  BY DEF SidecarServes
<1> QED BY <1>0, <1>1, <1>2, <1>3, <1>4, <1>5

(* A status may be reported once its step has been carried out.            *)
LEMMA TruthfulAppend ==
  ASSUME NEW done, NEW S, NEW s \in Seq(S), NEW r \in S, NEW off,
         Truthful(done, s, off), r.ok => Carried(done, r.id, off)
  PROVE  Truthful(done, Append(s, r), off)
<1>1. /\ Len(s) \in Nat /\ Len(Append(s, r)) = Len(s) + 1
      /\ Append(s, r)[Len(s) + 1] = r
      /\ \A k \in 1 .. Len(s) : Append(s, r)[k] = s[k]
  OBVIOUS
<1>2. \A k \in 1 .. (Len(s) + 1) : k \in 1 .. Len(s) \/ k = Len(s) + 1
  BY <1>1
<1> QED BY <1>1, <1>2 DEF Truthful

(* Order and completeness are what StepsInOrder says.                      *)
LEMMA StepsInvImplies ==
  ASSUME ProvTypeOK, StepsInv
  PROVE  StepsInOrder
<1> DEFINE plan == postBootProvisioners
<1>1. /\ manifest \in Manifests /\ ran \in Seq(Steps)
      /\ reported \in Seq(StepStatus)
  BY ProvTypes
<1>2. /\ plan \in Seq(Steps) /\ Len(plan) \in Nat /\ DOMAIN plan = 1 .. Len(plan)
  BY <1>1, PostBootPlan
<1>3. /\ DOMAIN reported = 1 .. Len(reported)
      /\ DOMAIN ran = 1 .. Len(ran) /\ Len(ran) \in Nat
  BY <1>1
<1>4. \A k \in DOMAIN reported :
        reported[k].ok => \/ Contains(ran, reported[k].id)
                          \/ reported[k].id \in Displaced
  BY <1>3 DEF StepsInv, Truthful, Carried
<1>5. /\ Ordered(ran, plan, Displaced)
      /\ result[Iso] = "success" => AllRan(ran, plan, Len(plan), Displaced)
  BY DEF StepsInv, Progress
<1> HIDE DEF plan
<1>6. ASSUME NEW x, Contains(ran, x)
      PROVE  /\ FirstRun(x) \in 1 .. Len(ran) /\ ran[FirstRun(x)] = x
             /\ \A j \in 1 .. (FirstRun(x) - 1) : ran[j] # x
  <2> DEFINE At0 == {k \in Nat : k \in 1 .. Len(ran) /\ ran[k] = x}
  <2>1. At0 # {} /\ At0 \subseteq Nat
    BY <1>3, <1>6 DEF Contains
  <2>2. PICK k \in At0 : \A j \in At0 : ~(j < k)
    BY <2>1, LeastNat
  <2>3. k \in DOMAIN ran /\ ran[k] = x /\ \A j \in 1 .. (k - 1) : ran[j] # x
    BY <1>3, <2>2
  <2>4. /\ FirstRun(x) \in DOMAIN ran /\ ran[FirstRun(x)] = x
        /\ \A j \in 1 .. (FirstRun(x) - 1) : ran[j] # x
    BY <2>3 DEF FirstRun
  <2> QED BY <1>3, <2>4
<1>7. ASSUME NEW k \in 1 .. Len(plan), Contains(ran, plan[k]),
             NEW i \in 1 .. (k - 1), plan[i] \notin Displaced
      PROVE  Contains(ran, plan[i]) /\ FirstRun(plan[i]) < FirstRun(plan[k])
  <2> DEFINE f == FirstRun(plan[k])
             e == FirstRun(plan[i])
  <2>1. f \in 1 .. Len(ran) /\ ran[f] = plan[k]
    BY <1>6, <1>7
  <2> HIDE DEF f
  <2>2. PICK q \in 1 .. (f - 1) : ran[q] = plan[i]
    BY <1>5, <1>7, <2>1 DEF Ordered
  <2>3. q \in 1 .. Len(ran)
    BY <1>3, <2>1
  <2>4. Contains(ran, plan[i])
    BY <2>2, <2>3 DEF Contains
  <2>5. e \in 1 .. Len(ran) /\ \A j \in 1 .. (e - 1) : ran[j] # plan[i]
    BY <1>6, <2>4
  <2> HIDE DEF e
  <2>6. ~(q \in 1 .. (e - 1))
    BY <2>2, <2>5
  <2>7. e < f
    BY <1>3, <2>1, <2>2, <2>5, <2>6
  <2> QED BY <2>4, <2>7 DEF e, f
<1>8. result[Iso] = "success" =>
        \A k \in DOMAIN plan : plan[k] \notin Displaced => Contains(ran, plan[k])
  BY <1>2, <1>5 DEF AllRan, Carried
<1> QED BY <1>2, <1>4, <1>7, <1>8 DEF StepsInOrder, plan

(* The step that is carried out next is due.                               *)
LEMMA CurrentDue ==
  ASSUME ProvTypeOK, RunShape, Progress, runner.step < Len(runner.specs),
         AllRan(ran, runner.specs, runner.step, Displaced)
  PROVE  Due(Current, ran, postBootProvisioners, Displaced)
<1> DEFINE a == provisionersBeforeSysprep
           b == sysprepProvisioner
           plan == postBootProvisioners
<1>1. manifest \in Manifests
  BY ProvTypes
<1>2. /\ Len(plan) = Len(a) + Len(b) /\ Len(a) \in Nat /\ Len(b) \in {0, 1}
      /\ \A k \in 1 .. Len(a) : plan[k] = a[k]
      /\ \A k \in 1 .. Len(b) : plan[Len(a) + k] = b[k]
  BY <1>1, PostBootPlan, BeforeSysprepPlan, SysprepPlan DEF PlanOf
<1>3. runner.step \in Nat /\ Current = runner.specs[runner.step + 1]
  BY CurrentStep DEF Current
<1>4. /\ runner.specs = IF stage = "provision" THEN a ELSE b
      /\ stage \in {"provision", "sysprep"}
  BY DEF RunShape
<1>5. stage = "sysprep" => AllRan(ran, a, Len(a), Displaced)
  BY DEF Progress
<1> HIDE DEF a, b, plan
<1>6. CASE stage = "provision"
  <2> DEFINE k == runner.step + 1
  <2>0. runner.step < Len(a) /\ Len(plan) >= Len(a) /\ Len(plan) \in Nat
    <3>1. runner.specs = a
      BY <1>4, <1>6
    <3>2. CASE Len(b) = 0
      BY <1>2, <3>1, <3>2
    <3>3. CASE Len(b) = 1
      BY <1>2, <3>1, <3>3
    <3> QED BY <1>2, <3>2, <3>3
  <2>1. k \in 1 .. Len(a) /\ k \in 1 .. Len(plan) /\ k - 1 = runner.step
    <3>1. runner.step \in Nat /\ Len(a) \in Nat
      BY <1>2, <1>3
    <3> QED BY <2>0, <3>1
  <2>2. plan[k] = Current
    BY <1>2, <1>3, <1>4, <1>6, <2>1
  <2>3. \A j \in 1 .. (k - 1) : j \in 1 .. Len(a) /\ j \in 1 .. runner.step
    BY <1>2, <1>3, <2>1
  <2>4. \A j \in 1 .. (k - 1) : Carried(ran, plan[j], Displaced)
    BY <1>2, <1>4, <1>6, <2>3 DEF AllRan
  <2> HIDE DEF k
  <2> QED BY <2>1, <2>2, <2>4 DEF Due, plan
<1>7. CASE stage = "sysprep"
  <2> DEFINE k == Len(a) + 1
  <2>1. /\ runner.step = 0 /\ 1 \in 1 .. Len(b) /\ k \in 1 .. Len(plan)
        /\ k - 1 = Len(a)
    BY <1>2, <1>3, <1>4, <1>7
  <2>2. plan[k] = Current
    BY <1>2, <1>3, <1>4, <1>7, <2>1
  <2>3. \A j \in 1 .. (k - 1) : j \in 1 .. Len(a)
    BY <1>2, <2>1
  <2>4. \A j \in 1 .. (k - 1) : Carried(ran, plan[j], Displaced)
    BY <1>2, <1>5, <1>7, <2>3 DEF AllRan
  <2> HIDE DEF k
  <2> QED BY <2>1, <2>2, <2>4 DEF Due, plan
<1> QED BY <1>4, <1>6, <1>7

(* The directory of the current step serves no other step of a sidecar,    *)
(* displaced ones apart: up to such a step a run consists of steps of      *)
(* sidecars, and both counts are the same.                                 *)
LEMMA DirOfStep ==
  ASSUME ProvTypeOK, RunShape, stage = "provision",
         runner.step < Len(runner.specs),
         \/ isInitContainer(manifest[Current]) /\ Current \notin Displaced
         \/ /\ StepDir < Len(provisionersBeforeSysprep)
            /\ isInitContainer(manifest[provisionersBeforeSysprep[StepDir + 1]])
            /\ provisionersBeforeSysprep[StepDir + 1] \notin Displaced
  PROVE  /\ Current = provisionersBeforeSysprep[StepDir + 1]
         /\ StepDir < Len(provisionersBeforeSysprep)
         /\ isInitContainer(manifest[Current])
<1> DEFINE a == provisionersBeforeSysprep
           n == runner.step
           e == runner.external
<1>1. manifest \in Manifests /\ runner.specs = a
  BY ProvTypes DEF RunShape
<1>2. /\ n + 1 \in 1 .. Len(a) /\ n \in Nat /\ Current = a[n + 1]
      /\ Len(a) \in Nat /\ n < Len(a) /\ e \in Nat /\ e <= n
  BY <1>1, CurrentStep DEF Current, RunShape
<1>3. \A k \in 1 .. n : (\A j \in 1 .. k : isInitContainer(manifest[a[j]])) => k <= e
  BY <1>1 DEF RunShape
<1>4. \A k \in 1 .. Len(a) :
        isInitContainer(manifest[a[k]]) /\ a[k] \notin Displaced =>
          \A j \in 1 .. k : isInitContainer(manifest[a[j]])
  BY <1>1, NotDisplacedPlan
<1>5. StepDir = IF isInitContainer(manifest[Current]) THEN e ELSE n
  BY DEF StepDir
<1> HIDE DEF a, n, e
<1>6. CASE isInitContainer(manifest[Current])
  <2>1. n <= e
    <3>1. CASE Current \notin Displaced
      <4>1. \A j \in 1 .. (n + 1) : isInitContainer(manifest[a[j]])
        BY <1>2, <1>4, <1>6, <3>1
      <4>2. \A j \in 1 .. n : j \in 1 .. (n + 1)
        BY <1>2
      <4>3. n # 0 => n \in 1 .. n
        BY <1>2
      <4> QED BY <1>2, <1>3, <4>1, <4>2, <4>3
    <3>2. CASE /\ e < Len(a) /\ isInitContainer(manifest[a[e + 1]])
               /\ a[e + 1] \notin Displaced
      <4>1. e + 1 \in 1 .. Len(a)
        BY <1>2, <3>2
      <4>2. \A j \in 1 .. (e + 1) : isInitContainer(manifest[a[j]])
        BY <1>4, <3>2, <4>1
      <4>3. ~(e + 1 \in 1 .. n)
        <5>1. ~(e + 1 <= e)
          BY <1>2
        <5> QED BY <1>3, <4>2, <5>1
      <4> QED BY <1>2, <4>3
    <3> QED BY <1>5, <1>6, <3>1, <3>2 DEF a
  <2>2. StepDir = n
    BY <1>2, <1>5, <1>6, <2>1
  <2> QED BY <1>2, <1>6, <2>2 DEF a
<1>7. CASE ~isInitContainer(manifest[Current])
  <2>1. StepDir = n
    BY <1>5, <1>7
  <2> QED BY <1>2, <1>7, <2>1 DEF a
<1> QED BY <1>6, <1>7

(* The runner carries out only the step that is due, and takes an answer   *)
(* of success only from the sidecar of its current step, but for a step    *)
(* that is displaced.                                                      *)
LEMMA RunStepSteps ==
  ASSUME RunInv, StepsInv, RunStep
  PROVE  StepsInv'
<1>1. /\ runner.pc \in {"step", "running", "waiting"} /\ RunShape /\ ProvTypeOK
      /\ runner.step < Len(runner.specs) /\ result[Iso] = "none"
      /\ UNCHANGED <<manifest, sidecars, restarts, stage, result, access>>
  BY RunnerActs
<1>2. /\ manifest \in Manifests /\ dirs \in [StepDirs -> DirRec]
      /\ runner \in RunRec /\ runner.statuses \in Seq(StepStatus)
      /\ sidecars \in [Sidecars -> SidecarRec] /\ ran \in Seq(Steps)
  BY <1>1, ProvTypes DEF RunRec
<1>3. /\ StepDirs' = StepDirs /\ Sidecars' = Sidecars
      /\ provisionersBeforeSysprep' = provisionersBeforeSysprep
      /\ sysprepProvisioner' = sysprepProvisioner
      /\ postBootProvisioners' = postBootProvisioners
      /\ Displaced' = Displaced
  BY <1>1, PlanStays
<1>4. /\ Current \in Steps /\ StepDir \in StepDirs /\ runner.step \in Nat
      /\ runner.step + 1 \in 1 .. Len(runner.specs)
  BY <1>1, CurrentStep
<1>5. /\ Ordered(ran, postBootProvisioners, Displaced) /\ Truthful(ran, reported, Displaced)
      /\ Truthful(ran, runner.statuses, Displaced) /\ HandedOut /\ Progress
      /\ AllRan(ran, runner.specs, runner.step, Displaced)
      /\ stage \in EarlyStages => Served
  BY <1>1 DEF StepsInv
<1>6. Due(Current, ran, postBootProvisioners, Displaced)
  BY <1>1, <1>5, CurrentDue
<1>7. stage \in EarlyStages => stage = "provision"
  BY <1>1 DEF RunShape, EarlyStages
<1>8. \A d \in StepDirs : dirs[d] \in DirRec
  BY <1>2
<1>9. ASSUME Conclude(FALSE), ran' = ran,
             \/ dirs' = [dirs EXCEPT ![StepDir].status = "failure"]
             \/ dirs' = dirs
      PROVE  StepsInv'
  <2>1. /\ reported' = Append(runner.statuses, [id |-> Current, ok |-> FALSE])
        /\ runner'.pc = "failed" /\ runner'.statuses = reported'
    BY <1>1, <1>9, Concludes
  <2>2. Truthful(ran, reported', Displaced)
    <3>1. [id |-> Current, ok |-> FALSE] \in StepStatus
      BY <1>4 DEF StepStatus
    <3> QED BY <1>2, <1>5, <2>1, <3>1, TruthfulAppend
  <2>3. ASSUME NEW d \in StepDirs
        PROVE  dirs'[d].config = dirs[d].config
               /\ (dirs'[d].status = "success" => dirs[d].status = "success")
    BY <1>2, <1>8, <1>9 DEF DirRec
  <2>4. HandedOut'
    BY <1>1, <1>3, <1>5, <1>9, <2>3 DEF HandedOut
  <2>5. Progress'
    BY <1>1, <1>3, <1>5, <1>9 DEF Progress, requiresGuestAccess
  <2>6. stage \in EarlyStages => Served'
    BY <1>1, <1>3, <1>5, <1>9, <2>3 DEF Served, DirServes, isInitContainer
  <2> QED BY <1>1, <1>3, <1>5, <1>9, <2>1, <2>2, <2>4, <2>5, <2>6 DEF StepsInv
<1>10. CASE /\ dirs' = [dirs EXCEPT ![StepDir].config = Current]
            /\ runner' = [runner EXCEPT !.pc =
                               IF isInitContainer(manifest[Current])
                                 THEN "waiting" ELSE "running"]
            /\ UNCHANGED <<reported, ran>>
  <2>1. /\ runner'.statuses = runner.statuses /\ runner'.specs = runner.specs
        /\ runner'.step = runner.step
    BY <1>2, <1>10 DEF RunRec
  <2>2. ASSUME NEW d \in StepDirs
        PROVE  /\ dirs'[d].config = IF d = StepDir THEN Current ELSE dirs[d].config
               /\ dirs'[d].status = dirs[d].status
    BY <1>2, <1>8, <1>10 DEF DirRec
  <2>3. HandedOut'
    BY <1>1, <1>3, <1>5, <1>6, <1>10, <2>2 DEF HandedOut
  <2>4. Progress'
    BY <1>1, <1>3, <1>5, <1>10 DEF Progress, requiresGuestAccess
  <2>5. ASSUME stage \in EarlyStages, NEW d \in StepDirs,
               d < Len(provisionersBeforeSysprep),
               isInitContainer(manifest[provisionersBeforeSysprep[d + 1]]),
               provisionersBeforeSysprep[d + 1] \notin Displaced
        PROVE  DirServes(dirs'[d], provisionersBeforeSysprep[d + 1], ran)
    <3>1. DirServes(dirs[d], provisionersBeforeSysprep[d + 1], ran)
      BY <1>5, <2>5 DEF Served
    <3>2. d = StepDir => Current = provisionersBeforeSysprep[d + 1]
      BY <1>1, <1>7, <2>5, DirOfStep
    <3> QED BY <2>2, <3>1, <3>2 DEF DirServes
  <2>6. stage \in EarlyStages => Served'
    BY <1>1, <1>3, <1>5, <1>10, <2>5 DEF Served, isInitContainer
  <2> QED BY <1>1, <1>3, <1>5, <1>10, <2>1, <2>3, <2>4, <2>6 DEF StepsInv
<1>11. ASSUME Conclude(TRUE), Carried(ran', Current, Displaced),
              ran' \in Seq(Steps),
              \A y : Contains(ran, y) => Contains(ran', y),
              Ordered(ran', postBootProvisioners, Displaced),
              \/ /\ dirs' = [dirs EXCEPT ![StepDir].status = "success"]
                 /\ Contains(ran', Current)
              \/ dirs' = dirs
       PROVE  StepsInv'
  <2> DEFINE new == ran'
  <2>0. /\ \A y : Contains(ran, y) => Contains(new, y)
        /\ Carried(new, Current, Displaced)
    BY <1>11
  <2> HIDE DEF new
  <2>a. /\ \A x, plan : Due(x, ran, plan, Displaced) => Due(x, new, plan, Displaced)
        /\ \A s : Truthful(ran, s, Displaced) => Truthful(new, s, Displaced)
        /\ \A plan, n : AllRan(ran, plan, n, Displaced) => AllRan(new, plan, n, Displaced)
        /\ \A d, x : DirServes(d, x, ran) => DirServes(d, x, new)
        /\ \A c, x : SidecarServes(c, x, ran) => SidecarServes(c, x, new)
    BY <2>0, DueGrows
  <2>1. /\ reported' = Append(runner.statuses, [id |-> Current, ok |-> TRUE])
        /\ runner'.statuses = reported'
        /\ runner'.specs = runner.specs /\ runner'.step = runner.step + 1
    BY <1>1, <1>11, Concludes
  <2>2. Truthful(new, reported', Displaced)
    <3>1. [id |-> Current, ok |-> TRUE] \in StepStatus
      BY <1>4 DEF StepStatus
    <3>2. Truthful(new, runner.statuses, Displaced)
      BY <1>5, <2>a
    <3> QED BY <1>2, <2>0, <2>1, <3>1, <3>2, TruthfulAppend
  <2>3. ASSUME NEW d \in StepDirs
        PROVE  /\ dirs'[d].config = dirs[d].config
               /\ dirs'[d].status = "success" =>
                    \/ dirs[d].status = "success"
                    \/ d = StepDir /\ Contains(new, Current)
    BY <1>2, <1>8, <1>11 DEF DirRec, new
  <2>4. HandedOut'
    BY <1>1, <1>3, <1>5, <2>3, <2>a DEF HandedOut, new
  <2>5. Progress'
    BY <1>1, <1>3, <1>5, <2>a DEF Progress, requiresGuestAccess, new
  <2>6. ASSUME stage \in EarlyStages, NEW d \in StepDirs,
               d < Len(provisionersBeforeSysprep),
               isInitContainer(manifest[provisionersBeforeSysprep[d + 1]]),
               provisionersBeforeSysprep[d + 1] \notin Displaced
        PROVE  /\ DirServes(dirs'[d], provisionersBeforeSysprep[d + 1], new)
               /\ d \in Sidecars =>
                    SidecarServes(sidecars[d], provisionersBeforeSysprep[d + 1], new)
    <3>1. /\ DirServes(dirs[d], provisionersBeforeSysprep[d + 1], new)
          /\ d \in Sidecars =>
               SidecarServes(sidecars[d], provisionersBeforeSysprep[d + 1], new)
      BY <1>5, <2>6, <2>a DEF Served
    <3>2. d = StepDir => Current = provisionersBeforeSysprep[d + 1]
      BY <1>1, <1>7, <2>6, DirOfStep
    <3> QED BY <2>3, <3>1, <3>2 DEF DirServes
  <2>7. stage \in EarlyStages => Served'
    BY <1>1, <1>3, <2>6 DEF Served, isInitContainer, new
  <2>8. AllRan(new, runner'.specs, runner'.step, Displaced)
    <3>1. \A k \in 1 .. (runner.step + 1) : k \in 1 .. runner.step \/ k = runner.step + 1
      BY <1>4
    <3>2. AllRan(new, runner.specs, runner.step, Displaced)
      BY <1>5, <2>a
    <3> QED BY <2>0, <2>1, <3>1, <3>2 DEF AllRan, Current
  <2> QED BY <1>1, <1>3, <1>11, <2>1, <2>2, <2>4, <2>5, <2>7, <2>8 DEF StepsInv, new
<1>12. CASE /\ dirs' = [dirs EXCEPT ![StepDir].status = "success"]
            /\ ran' = Append(ran, Current)
            /\ Conclude(TRUE)
  <2>1. /\ Contains(ran', Current) /\ ran' \in Seq(Steps)
        /\ \A y : Contains(ran, y) => Contains(ran', y)
    BY <1>2, <1>4, <1>12, AppendKeeps
  <2>2. Ordered(ran', postBootProvisioners, Displaced)
    BY <1>2, <1>4, <1>5, <1>6, <1>12, OrderedAppend, PostBootPlan
  <2> QED BY <1>11, <1>12, <2>1, <2>2 DEF Carried
<1>13. CASE /\ runner.pc = "waiting"
            /\ dirs[StepDir].status = "success"
            /\ Conclude(TRUE)
            /\ UNCHANGED <<dirs, ran>>
  <2>1. isInitContainer(manifest[Current])
    BY <1>1, <1>13 DEF RunShape
  <2>2. stage = "provision"
    <3>1. CASE stage = "sysprep"
      <4>1. runner.specs = sysprepProvisioner
        BY <1>1, <3>1 DEF RunShape
      <4>2. manifest[Current] = "sysprep"
        BY <1>2, <1>4, <4>1, SysprepPlan DEF Current
      <4> QED BY <2>1, <4>2 DEF isInitContainer, InitContainerKinds
    <3> QED BY <1>1, <3>1 DEF RunShape
  <2>3. ASSUME Current \notin Displaced
        PROVE  Contains(ran, Current)
    <3>1. /\ Current = provisionersBeforeSysprep[StepDir + 1]
          /\ StepDir < Len(provisionersBeforeSysprep)
      BY <1>1, <2>1, <2>2, <2>3, DirOfStep
    <3>2. DirServes(dirs[StepDir], Current, ran)
      BY <1>4, <1>5, <2>1, <2>2, <2>3, <3>1 DEF Served, EarlyStages
    <3> QED BY <1>13, <3>2 DEF DirServes
  <2>4. Carried(ran', Current, Displaced)
    BY <1>13, <2>3 DEF Carried
  <2> QED BY <1>2, <1>5, <1>11, <1>13, <2>4
<1> QED BY <1>9, <1>10, <1>12, <1>13, RunnerActs DEF RunnerEffect

(* A sidecar carries out only what is due, and answers for nothing else.   *)
LEMMA SidecarSteps ==
  ASSUME RunInv, StepsInv, SidecarsMove
  PROVE  StepsInv'
<1>0. /\ ProvTypeOK /\ result[Iso] = "none"
      /\ UNCHANGED <<manifest, runner, reported, stage, result, access>>
  BY SidecarActs DEF RunInv
<1>1. /\ manifest \in Manifests /\ dirs \in [StepDirs -> DirRec]
      /\ sidecars \in [Sidecars -> SidecarRec] /\ ran \in Seq(Steps)
  BY <1>0, ProvTypes
<1>2. /\ StepDirs' = StepDirs /\ Sidecars' = Sidecars
      /\ provisionersBeforeSysprep' = provisionersBeforeSysprep
      /\ postBootProvisioners' = postBootProvisioners
      /\ Displaced' = Displaced
  BY <1>0, PlanStays
<1>3. /\ Ordered(ran, postBootProvisioners, Displaced) /\ Truthful(ran, reported, Displaced)
      /\ Truthful(ran, runner.statuses, Displaced) /\ HandedOut /\ Progress
      /\ runner.pc \in {"step", "running", "waiting"} =>
           AllRan(ran, runner.specs, runner.step, Displaced)
      /\ stage \in EarlyStages => Served
  BY <1>0 DEF StepsInv
<1>4. PICK i \in Sidecars : SidecarEffect(i)
  BY <1>0, SidecarActs
<1>5. i \in StepDirs /\ dirs[i] \in DirRec /\ sidecars[i] \in SidecarRec
  BY <1>1, SidecarDirs
<1>6. /\ sidecars[i].id \in Steps \cup {0}
      /\ sidecars[i].pc = "running" =>
           sidecars[i].id \in Steps /\ sidecars[i].id # 0
  BY <1>5 DEF SidecarRec, RunInv
<1> DEFINE new == ran'
<1>7. /\ \A y : Contains(ran, y) => Contains(new, y)
      /\ Ordered(new, postBootProvisioners, Displaced)
  <2>1. CASE ran' = ran
    BY <1>3, <2>1
  <2>2. CASE sidecars[i].pc = "running" /\ ran' = Append(ran, sidecars[i].id)
    <3>1. Due(sidecars[i].id, ran, postBootProvisioners, Displaced)
      BY <1>3, <1>6, <2>2 DEF HandedOut
    <3>2. \A y : Contains(ran, y) => Contains(new, y)
      BY <1>1, <1>6, <2>2, AppendKeeps
    <3>3. Ordered(new, postBootProvisioners, Displaced)
      BY <1>1, <1>3, <1>6, <2>2, <3>1, OrderedAppend, PostBootPlan
    <3> QED BY <3>2, <3>3
  <2> QED BY <1>4, <2>1, <2>2 DEF SidecarEffect
<1>8. sidecars[i].pc = "running" /\ ran' = Append(ran, sidecars[i].id) =>
        Contains(new, sidecars[i].id)
  BY <1>1, <1>6, AppendKeeps
<1>9. \A j \in Sidecars : j # i => sidecars'[j] = sidecars[j]
  BY <1>1, <1>4 DEF SidecarEffect
<1>10. \A d \in StepDirs : d # i => dirs'[d] = dirs[d]
  BY <1>1, <1>4 DEF SidecarEffect
<1>11. /\ dirs'[i].config = dirs[i].config
       /\ dirs'[i].status = "success" =>
            \/ dirs[i].status = "success"
            \/ sidecars[i].pc = "writing" /\ sidecars[i].answer = "success"
  <2>1. CASE dirs' = dirs
    BY <2>1
  <2>2. CASE dirs' = [dirs EXCEPT ![i].status = "partial"]
    BY <1>1, <1>5, <2>2 DEF DirRec
  <2>3. CASE /\ sidecars[i].pc = "writing"
             /\ dirs' = [dirs EXCEPT ![i].status = sidecars[i].answer]
    BY <1>1, <1>5, <2>3 DEF DirRec
  <2> QED BY <1>4, <2>1, <2>2, <2>3 DEF SidecarEffect
<1>12. /\ \/ sidecars'[i].id \in {0, sidecars[i].id}
          \/ sidecars'[i].id = dirs[i].config
       /\ sidecars'[i].pc \in {"answer", "writing"} /\ sidecars'[i].answer = "success" =>
            \/ sidecars[i].pc = "running" /\ Contains(new, sidecars[i].id)
            \/ sidecars[i].pc \in {"answer", "writing"}
               /\ sidecars[i].answer = "success"
  <2> HIDE DEF new
  <2>1. CASE sidecars' = [sidecars EXCEPT ![i].pc = "running",
                                          ![i].id = dirs[i].config]
    BY <1>1, <1>5, <2>1 DEF SidecarRec
  <2>2. CASE /\ sidecars[i].pc = "running"
             /\ ran' = Append(ran, sidecars[i].id)
             /\ sidecars' = [sidecars EXCEPT ![i].pc = "answer",
                                             ![i].answer = "success"]
    <3>1. Contains(new, sidecars[i].id)
      BY <1>8, <2>2
    <3> QED BY <1>1, <1>5, <2>2, <3>1 DEF SidecarRec
  <2>3. CASE sidecars' = [sidecars EXCEPT ![i].pc = "answer",
                                          ![i].answer = "failure"]
    BY <1>1, <1>5, <2>3 DEF SidecarRec
  <2>4. CASE /\ sidecars[i].pc = "answer"
             /\ sidecars' = [sidecars EXCEPT ![i].pc = "writing"]
    BY <1>1, <1>5, <2>4 DEF SidecarRec
  <2>5. ASSUME NEW pc \in {"idle", "backoff"},
               sidecars' = [sidecars EXCEPT ![i].pc = pc]
        PROVE  sidecars'[i].id = sidecars[i].id /\ sidecars'[i].pc = pc
    BY <1>1, <1>5, <2>5 DEF SidecarRec
  <2>6. CASE sidecars' = [sidecars EXCEPT ![i].pc = "waiting", ![i].id = 0]
    BY <1>1, <1>5, <2>6 DEF SidecarRec
  <2> QED BY <1>4, <2>1, <2>2, <2>3, <2>4, <2>5, <2>6 DEF SidecarEffect
<1>a. /\ \A x, plan : Due(x, ran, plan, Displaced) => Due(x, new, plan, Displaced)
      /\ \A s : Truthful(ran, s, Displaced) => Truthful(new, s, Displaced)
      /\ \A plan, n : AllRan(ran, plan, n, Displaced) => AllRan(new, plan, n, Displaced)
      /\ \A d, x : DirServes(d, x, ran) => DirServes(d, x, new)
      /\ \A c, x : SidecarServes(c, x, ran) => SidecarServes(c, x, new)
  <2> HIDE DEF new
  <2> QED BY <1>7, DueGrows
<1> HIDE DEF new
<1>13. HandedOut'
  <2>1. ASSUME NEW d \in StepDirs, dirs'[d].config # 0
        PROVE  Due(dirs'[d].config, new, postBootProvisioners, Displaced)
    <3>1. dirs'[d].config = dirs[d].config
      BY <1>10, <1>11
    <3> QED BY <1>3, <1>a, <2>1, <3>1 DEF HandedOut
  <2>2. ASSUME NEW j \in Sidecars, sidecars'[j].id # 0
        PROVE  Due(sidecars'[j].id, new, postBootProvisioners, Displaced)
    <3>1. CASE j # i
      BY <1>3, <1>9, <1>a, <2>2, <3>1 DEF HandedOut
    <3>2. CASE j = i
      <4>1. CASE sidecars'[i].id = sidecars[i].id
        BY <1>3, <1>a, <2>2, <3>2, <4>1 DEF HandedOut
      <4>2. CASE sidecars'[i].id = dirs[i].config
        BY <1>3, <1>5, <1>a, <2>2, <3>2, <4>2 DEF HandedOut
      <4> QED BY <1>12, <2>2, <3>2, <4>1, <4>2
    <3> QED BY <3>1, <3>2
  <2> QED BY <1>2, <2>1, <2>2 DEF HandedOut, new
<1>14. ASSUME stage \in EarlyStages, NEW d \in StepDirs,
              d < Len(provisionersBeforeSysprep),
              isInitContainer(manifest[provisionersBeforeSysprep[d + 1]]),
              provisionersBeforeSysprep[d + 1] \notin Displaced
       PROVE  /\ DirServes(dirs'[d], provisionersBeforeSysprep[d + 1], new)
              /\ d \in Sidecars =>
                   SidecarServes(sidecars'[d], provisionersBeforeSysprep[d + 1], new)
  <2> DEFINE x == provisionersBeforeSysprep[d + 1]
  <2>1. /\ DirServes(dirs[d], x, ran)
        /\ d \in Sidecars => SidecarServes(sidecars[d], x, ran)
    BY <1>3, <1>14 DEF Served
  <2> HIDE DEF x
  <2>2. /\ DirServes(dirs[d], x, new)
        /\ d \in Sidecars => SidecarServes(sidecars[d], x, new)
    BY <1>a, <2>1
  <2>3. CASE d # i
    BY <1>9, <1>10, <2>2, <2>3 DEF x
  <2>4. CASE d = i
    <3>1. DirServes(dirs'[d], x, new)
      BY <1>11, <2>2, <2>4 DEF DirServes, SidecarServes
    <3>2. SidecarServes(sidecars'[d], x, new)
      <4>1. sidecars[i].pc = "running" => sidecars[i].id = x
        BY <1>6, <2>2, <2>4 DEF SidecarServes
      <4>2. sidecars'[i].id \in {0, x}
        BY <1>12, <2>2, <2>4 DEF SidecarServes, DirServes
      <4> QED BY <1>12, <2>2, <2>4, <4>1, <4>2 DEF SidecarServes
    <3> QED BY <3>1, <3>2 DEF x
  <2> QED BY <2>3, <2>4
<1>15. stage \in EarlyStages => Served'
  BY <1>0, <1>2, <1>14 DEF Served, isInitContainer, new
<1>16. Progress'
  BY <1>0, <1>2, <1>3, <1>a DEF Progress, requiresGuestAccess, sysprepProvisioner, new
<1>17. /\ Truthful(new, reported, Displaced) /\ Truthful(new, runner.statuses, Displaced)
       /\ runner.pc \in {"step", "running", "waiting"} =>
            AllRan(new, runner.specs, runner.step, Displaced)
  BY <1>3, <1>a
<1> QED BY <1>0, <1>2, <1>7, <1>13, <1>15, <1>16, <1>17 DEF StepsInv, new

(* A step of the build that leaves the provisioning alone: the runner is   *)
(* idle, or the stage stays, or the build has ended.                       *)
LEMMA StageKeepsRun ==
  ASSUME RunInv, UNCHANGED provVars,
         result'[Iso] = "none" => /\ result[Iso] = "none"
                                  /\ stage' = stage \/ runner.pc = "idle"
  PROVE  RunInv'
<1>1. UNCHANGED <<manifest, dirs, runner, reported, sidecars, restarts, ran>>
  BY DEF provVars
<1>2. /\ Steps' = Steps /\ StepDirs' = StepDirs /\ Sidecars' = Sidecars
      /\ provisionersBeforeSysprep' = provisionersBeforeSysprep
      /\ sysprepProvisioner' = sysprepProvisioner
  BY <1>1, PlanStays
<1>3. ProvTypeOK'
  BY <1>1, <1>2 DEF RunInv, ProvTypeOK, Answers
<1>4. RunShape /\ stage' = stage => RunShape'
  BY <1>1, <1>2 DEF RunShape, Current, isInitContainer
<1> QED BY <1>1, <1>2, <1>3, <1>4 DEF RunInv

(* It keeps the steps as they are as well.                                 *)
LEMMA StageKeepsSteps ==
  ASSUME StepsInv, UNCHANGED provVars, Progress',
         result'[Iso] = "none" => /\ result[Iso] = "none"
                                  /\ stage' \in EarlyStages => stage \in EarlyStages
  PROVE  StepsInv'
<1>1. UNCHANGED <<manifest, dirs, runner, reported, sidecars, restarts, ran>>
  BY DEF provVars
<1>2. /\ StepDirs' = StepDirs /\ Sidecars' = Sidecars
      /\ provisionersBeforeSysprep' = provisionersBeforeSysprep
      /\ postBootProvisioners' = postBootProvisioners
      /\ Displaced' = Displaced
  BY <1>1, PlanStays
<1>3. HandedOut => HandedOut'
  BY <1>1, <1>2 DEF HandedOut
<1>4. Served => Served'
  BY <1>1, <1>2 DEF Served, isInitContainer
<1> QED BY <1>1, <1>2, <1>3, <1>4 DEF StepsInv

(* What Progress asks for, of a step that leaves the provisioning alone.   *)
ProgressAt(s, r) ==
  /\ s \in {"start", "boot"} => (requiresGuestAccess => access # "none")
  /\ s \in {"sanitize", "hygiene", "sysprep"} =>
       AllRan(ran, provisionersBeforeSysprep, Len(provisionersBeforeSysprep), Displaced)
  /\ s \in {"finalize", "wait", "convert", "archive", "describe"} \/ r = "success" =>
       AllRan(ran, postBootProvisioners, Len(postBootProvisioners), Displaced)

(* That Progress holds after such a step, from the state before it.        *)
LEMMA ProgressNext ==
  ASSUME UNCHANGED provVars, access' = access, ProgressAt(stage', result'[Iso])
  PROVE  Progress'
<1>1. manifest' = manifest /\ ran' = ran
  BY DEF provVars
<1>2. /\ provisionersBeforeSysprep' = provisionersBeforeSysprep
      /\ postBootProvisioners' = postBootProvisioners
      /\ Displaced' = Displaced
  BY <1>1, PlanStays
<1> QED BY <1>1, <1>2 DEF Progress, ProgressAt, requiresGuestAccess

(* Every action of the backend but the calls of the runner and its steps.  *)
Staged ==
  \/ SelectBackend \/ prepareInstallerMedia \/ prepareGuestCredentials
  \/ runPrebootProvisioners \/ createInstallerDataISOs \/ CreateDisk
  \/ StartQEMU \/ sendBootEvents \/ ReadinessWait
  \/ sanitizeGeneratedGuestCredentials \/ checkFinalImageHygiene
  \/ finalizeGuest \/ WaitQEMU \/ Convert \/ createGCEArchive
  \/ DescribeArtifact

(* The stages they lead from and to.                                       *)
StagedMoves == { <<"fetch", "media">>, <<"media", "creds">>,
  <<"creds", "preboot">>, <<"preboot", "isos">>, <<"isos", "disk">>,
  <<"disk", "start">>, <<"start", "boot">>, <<"boot", "ready">>,
  <<"boot", "finalize">>, <<"ready", "provision">>, <<"sanitize", "hygiene">>,
  <<"hygiene", "sysprep">>, <<"finalize", "wait">>, <<"wait", "convert">>,
  <<"convert", "archive">>, <<"convert", "describe">>,
  <<"archive", "describe">> }

(* An error ends the build.                                                *)
LEMMA AbortEnds ==
  ASSUME IsoInv, NEW fs, Abort(fs)
  PROVE  stage' = "ended" /\ result'[Iso] = "failed"
BY IsoAssumption DEF Abort, Finish, IsoInv

(* They go from stage to stage, or end the build.                          *)
LEMMA StagedActs ==
  ASSUME IsoInv, Staged
  PROVE  /\ UNCHANGED provVars /\ access' = access
         /\ result[Iso] = "none" /\ stage \notin {"provision", "sysprep"}
         /\ \/ /\ <<stage, stage'>> \in StagedMoves /\ result' = result
               /\ stage' = "start" => (requiresGuestAccess => access # "none")
               /\ stage = "boot" /\ stage' = "finalize" => access = "none"
            \/ stage' = "ended" /\ result'[Iso] = "failed"
            \/ /\ stage' = "ended" /\ result'[Iso] = "success"
               /\ stage = "describe"
<1> USE DEF At, Advance, Fixed, StagedMoves
<1>1. CASE SelectBackend
  BY <1>1 DEF SelectBackend
<1>2. CASE \/ prepareInstallerMedia \/ prepareGuestCredentials
           \/ runPrebootProvisioners
  <2>1. \A s, t, fs :
          Writes(s, t, fs) => /\ At(s) /\ UNCHANGED provVars /\ Fixed
                              /\ Advance(t) \/ \E left : Abort(left)
    BY DEF Writes
  <2>2. CASE prepareInstallerMedia
    BY <2>1, <2>2, AbortEnds DEF prepareInstallerMedia
  <2>3. CASE prepareGuestCredentials
    BY <2>1, <2>3, AbortEnds DEF prepareGuestCredentials
  <2>4. CASE runPrebootProvisioners
    BY <2>1, <2>4, AbortEnds DEF runPrebootProvisioners
  <2> QED BY <1>2, <2>2, <2>3, <2>4
<1>3. CASE createInstallerDataISOs
  <2>1. /\ At("isos") /\ UNCHANGED provVars /\ Fixed
        /\ Advance("disk") \/ \E fs : Abort(fs)
    BY <1>3 DEF createInstallerDataISOs
  <2> QED BY <2>1, AbortEnds
<1>4. CASE CreateDisk
  BY <1>4, AbortEnds DEF CreateDisk
<1>5. CASE StartQEMU
  BY <1>5, AbortEnds DEF StartQEMU
<1>6. CASE sendBootEvents
  BY <1>6, AbortEnds DEF sendBootEvents, Asks
<1>7. CASE ReadinessWait \/ checkFinalImageHygiene
  BY <1>7, AbortEnds DEF ReadinessWait, checkFinalImageHygiene, Asks
<1>8. CASE sanitizeGeneratedGuestCredentials
  BY <1>8, AbortEnds DEF sanitizeGeneratedGuestCredentials
<1>9. CASE finalizeGuest
  BY <1>9, AbortEnds DEF finalizeGuest
<1>10. CASE WaitQEMU
  BY <1>10, AbortEnds DEF WaitQEMU, Asks
<1>11. CASE Convert
  <2>1. At("convert") /\ UNCHANGED provVars /\ Fixed
    BY <1>11 DEF Convert
  <2>2. Advance("archive") \/ Advance("describe") \/ \E fs : Abort(fs)
    BY <1>11 DEF Convert
  <2> QED BY <2>1, <2>2, AbortEnds
<1>12. CASE createGCEArchive
  BY <1>12, AbortEnds DEF createGCEArchive
<1>13. CASE DescribeArtifact
  <2>1. At("describe") /\ UNCHANGED provVars /\ Fixed
    BY <1>13 DEF DescribeArtifact
  <2>2. \/ stage' = "ended" /\ Finish(Iso, "success")
        \/ \E fs : Abort(fs)
    BY <1>13 DEF DescribeArtifact
  <2> QED BY <2>1, <2>2, AbortEnds, IsoAssumption DEF Finish, IsoInv
<1> QED BY <1>1, <1>2, <1>3, <1>4, <1>5, <1>6, <1>7, <1>8, <1>9, <1>10, <1>11,
           <1>12, <1>13 DEF Staged

(* No run is under way at those stages.                                    *)
LEMMA StagedKeepsRun ==
  ASSUME IsoInv, RunInv, Staged
  PROVE  RunInv'
<1>1. /\ UNCHANGED provVars /\ result[Iso] = "none"
      /\ stage \notin {"provision", "sysprep"}
  BY StagedActs
<1>2. runner.pc = "idle"
  BY <1>1 DEF RunInv, RunShape
<1> QED BY <1>1, <1>2, StageKeepsRun

(* A build without access to the guest skips the provisioning; CreateDisk  *)
(* has seen to it that there was none to do.                               *)
LEMMA StagedKeepsSteps ==
  ASSUME IsoInv, RunInv, StepsInv, Staged
  PROVE  StepsInv'
<1>1. /\ UNCHANGED provVars /\ access' = access /\ result[Iso] = "none"
  BY StagedActs
<1>2. Progress /\ manifest \in Manifests
  BY ProvTypes DEF StepsInv, RunInv
<1>3. CASE /\ <<stage, stage'>> \in StagedMoves /\ result' = result
           /\ stage' = "start" => (requiresGuestAccess => access # "none")
           /\ stage = "boot" /\ stage' = "finalize" => access = "none"
  <2>1. stage' \in EarlyStages => stage \in EarlyStages
    BY <1>3 DEF StagedMoves, EarlyStages
  <2>2. stage = "boot" /\ stage' = "finalize" =>
          AllRan(ran, postBootProvisioners, Len(postBootProvisioners), Displaced)
    <3>1. SUFFICES ASSUME stage = "boot", stage' = "finalize"
                   PROVE  AllRan(ran, postBootProvisioners,
                                 Len(postBootProvisioners), Displaced)
      OBVIOUS
    <3>2. postBootProvisioners = <<>>
      BY <1>2, <1>3, <3>1 DEF Progress, requiresGuestAccess
    <3>3. Len(postBootProvisioners) = 0
      BY <3>2
    <3> QED BY <3>3 DEF AllRan
  <2>3. ProgressAt(stage', result'[Iso])
    <3>1. stage' \in {"start", "boot"} => (requiresGuestAccess => access # "none")
      BY <1>2, <1>3 DEF Progress, StagedMoves
    <3>2. stage' \in {"sanitize", "hygiene", "sysprep"} =>
            AllRan(ran, provisionersBeforeSysprep, Len(provisionersBeforeSysprep), Displaced)
      BY <1>2, <1>3 DEF Progress, StagedMoves
    <3>3. stage' \in {"finalize", "wait", "convert", "archive", "describe"} =>
            AllRan(ran, postBootProvisioners, Len(postBootProvisioners), Displaced)
      BY <1>2, <1>3, <2>2 DEF Progress, StagedMoves
    <3> QED BY <1>1, <1>3, <3>1, <3>2, <3>3 DEF ProgressAt
  <2> QED BY <1>1, <1>3, <2>1, <2>3, StageKeepsSteps, ProgressNext
<1>4. CASE stage' = "ended" /\ result'[Iso] = "failed"
  BY <1>1, <1>4, StageKeepsSteps, ProgressNext DEF ProgressAt
<1>5. CASE /\ stage' = "ended" /\ result'[Iso] = "success"
           /\ stage = "describe"
  BY <1>1, <1>2, <1>5, StageKeepsSteps, ProgressNext DEF ProgressAt, Progress
<1> QED BY <1>3, <1>4, <1>5, StagedActs

(* The calls of the runner.                                                *)
Called(s, specs, to) ==
  \/ /\ runner.pc = "idle" /\ BeginRun(specs)
     /\ UNCHANGED <<manifest, dirs, reported, sidecars, restarts, ran>>
     /\ UNCHANGED <<stage, result>>
  \/ /\ specs = <<>> \/ RunDone
     /\ stage' = to /\ UNCHANGED result
     /\ runner' = NoRun
     /\ UNCHANGED <<manifest, dirs, reported, sidecars, restarts, ran>>
  \/ stage' = "ended" /\ result'[Iso] = "failed" /\ UNCHANGED provVars

(* The two places of QEMUISOBackend.Build that call the runner.            *)
LEMMA Calls ==
  ASSUME IsoInv, ProvisionGuest \/ RunSysprep
  PROVE  \E s, specs, to :
           /\ \/ /\ s = "provision" /\ to = "sanitize"
                 /\ specs = provisionersBeforeSysprep
              \/ /\ s = "sysprep" /\ to = "finalize"
                 /\ specs = sysprepProvisioner
           /\ stage = s /\ result[Iso] = "none" /\ access' = access
           /\ Called(s, specs, to)
<1>1. ASSUME NEW s, NEW specs, NEW to, CallRunner(s, specs, to)
      PROVE  stage = s /\ result[Iso] = "none" /\ access' = access
             /\ Called(s, specs, to)
  BY <1>1, AbortEnds DEF CallRunner, Called, At, Advance, Fixed, isoVars
<1>2. CASE ProvisionGuest
  BY <1>1, <1>2 DEF ProvisionGuest
<1>3. CASE RunSysprep
  BY <1>1, <1>3 DEF RunSysprep
<1> QED BY <1>2, <1>3

(* A call begins a run of the steps of its stage, or ends one.             *)
LEMMA CallsKeepRun ==
  ASSUME IsoInv, RunInv, ProvisionGuest \/ RunSysprep
  PROVE  RunInv'
<1>1. PICK s, specs, to :
           /\ \/ /\ s = "provision" /\ to = "sanitize"
                 /\ specs = provisionersBeforeSysprep
              \/ /\ s = "sysprep" /\ to = "finalize"
                 /\ specs = sysprepProvisioner
           /\ stage = s /\ result[Iso] = "none"
           /\ Called(s, specs, to)
  BY Calls
<1>2. ProvTypeOK /\ manifest \in Manifests
  BY ProvTypes DEF RunInv
<1>3. PlanOf(specs)
  BY <1>1, <1>2, BeforeSysprepPlan, SysprepPlan
<1>4. /\ specs \in Seq(Steps) /\ Len(specs) \in Nat
  BY <1>3 DEF PlanOf
<1>5. CASE UNCHANGED <<manifest, dirs, reported, sidecars, restarts, ran>>
  <2>1. /\ provisionersBeforeSysprep' = provisionersBeforeSysprep
        /\ sysprepProvisioner' = sysprepProvisioner /\ Sidecars' = Sidecars
    BY <1>5, PlanStays
  <2>2. runner' \in RunRec => ProvTypeOK'
    BY <1>2, <1>5, ProvTypes, ProvTypesNext
  <2>3. CASE BeginRun(specs) /\ UNCHANGED <<stage, result>>
    <3>0. <<>> \in Seq(StepStatus) /\ <<>> \in Seq(Steps)
      OBVIOUS
    <3>1. /\ runner'.pc = "step" /\ runner'.specs = specs /\ runner'.step = 0
          /\ runner'.external = 0 /\ runner'.statuses = <<>>
          /\ runner' = [pc |-> "step", specs |-> specs, step |-> 0, external |-> 0,
                        statuses |-> <<>>]
      BY <2>3 DEF BeginRun, NoRun
    <3>a. runner' \in RunRec
      BY <1>4, <3>0, <3>1 DEF RunRec
    <3>2. RunShape'
      BY <1>1, <1>4, <2>1, <2>3, <3>1 DEF RunShape
    <3> QED BY <1>5, <2>1, <2>2, <3>1, <3>a, <3>2 DEF RunInv
  <2>4. CASE runner' = NoRun
    <3>1. runner'.pc = "idle" /\ runner' \in RunRec
      BY <2>4 DEF NoRun, RunRec
    <3> QED BY <1>5, <2>1, <2>2, <3>1 DEF RunInv
  <2>5. CASE result'[Iso] = "failed" /\ UNCHANGED provVars
    BY <2>5, StageKeepsRun
  <2> QED BY <1>1, <2>3, <2>4, <2>5 DEF Called
<1>6. CASE result'[Iso] = "failed" /\ UNCHANGED provVars
  BY <1>6, StageKeepsRun
<1> QED BY <1>1, <1>5, <1>6 DEF Called

(* A run that is done has carried out all its steps.                       *)
LEMMA CallsKeepSteps ==
  ASSUME IsoInv, RunInv, StepsInv, ProvisionGuest \/ RunSysprep
  PROVE  StepsInv'
<1>1. PICK s, specs, to :
           /\ \/ /\ s = "provision" /\ to = "sanitize"
                 /\ specs = provisionersBeforeSysprep
              \/ /\ s = "sysprep" /\ to = "finalize"
                 /\ specs = sysprepProvisioner
           /\ stage = s /\ result[Iso] = "none" /\ access' = access
           /\ Called(s, specs, to)
  BY Calls
<1>2. /\ ProvTypeOK /\ manifest \in Manifests /\ Progress
      /\ Truthful(ran, reported, Displaced) /\ HandedOut
      /\ Ordered(ran, postBootProvisioners, Displaced)
      /\ stage \in EarlyStages => Served
  BY <1>1, ProvTypes DEF RunInv, StepsInv
<1>3. CASE stage' = "ended" /\ result'[Iso] = "failed" /\ UNCHANGED provVars
  BY <1>1, <1>3, StageKeepsSteps, ProgressNext DEF ProgressAt
<1>4. ASSUME UNCHANGED <<manifest, dirs, reported, sidecars, restarts, ran>>,
             runner'.statuses = <<>>, runner'.step = 0,
             stage' \in EarlyStages => stage \in EarlyStages,
             Progress'
      PROVE  StepsInv'
  <2>1. /\ StepDirs' = StepDirs /\ Sidecars' = Sidecars
        /\ provisionersBeforeSysprep' = provisionersBeforeSysprep
        /\ postBootProvisioners' = postBootProvisioners
        /\ Displaced' = Displaced
    BY <1>4, PlanStays
  <2>2. HandedOut'
    BY <1>2, <1>4, <2>1 DEF HandedOut
  <2>3. Served => Served'
    BY <1>4, <2>1 DEF Served, isInitContainer
  <2>4. /\ Truthful(ran, runner'.statuses, Displaced)
        /\ AllRan(ran, runner'.specs, runner'.step, Displaced)
    BY <1>4 DEF Truthful, AllRan
  <2> QED BY <1>2, <1>4, <2>1, <2>2, <2>3, <2>4 DEF StepsInv
<1>5. CASE /\ BeginRun(specs) /\ UNCHANGED <<stage, result>>
           /\ UNCHANGED <<manifest, dirs, reported, sidecars, restarts, ran>>
  <2>1. runner'.statuses = <<>> /\ runner'.step = 0
    BY <1>5 DEF BeginRun, NoRun
  <2>2. /\ provisionersBeforeSysprep' = provisionersBeforeSysprep
        /\ postBootProvisioners' = postBootProvisioners
        /\ Displaced' = Displaced
    BY <1>5, PlanStays
  <2>3. Progress'
    BY <1>1, <1>2, <1>5, <2>2 DEF Progress, requiresGuestAccess
  <2> QED BY <1>4, <1>5, <2>1, <2>3
<1>6. CASE /\ specs = <<>> \/ RunDone
           /\ stage' = to /\ UNCHANGED result /\ runner' = NoRun
           /\ UNCHANGED <<manifest, dirs, reported, sidecars, restarts, ran>>
  <2>1. runner'.statuses = <<>> /\ runner'.step = 0
    BY <1>6 DEF NoRun
  <2>2. /\ provisionersBeforeSysprep' = provisionersBeforeSysprep
        /\ postBootProvisioners' = postBootProvisioners
        /\ Displaced' = Displaced
    BY <1>6, PlanStays
  <2>3. AllRan(ran, specs, Len(specs), Displaced)
    <3>1. CASE specs = <<>>
      BY <3>1 DEF AllRan
    <3>2. CASE RunDone
      <4>1. RunShape /\ AllRan(ran, runner.specs, runner.step, Displaced)
        BY <1>1, <3>2 DEF RunDone, RunInv, StepsInv
      <4>2. runner.specs = specs
        BY <1>1, <4>1 DEF RunShape
      <4> QED BY <3>2, <4>1, <4>2 DEF RunDone
    <3> QED BY <1>6, <3>1, <3>2
  <2>4. Progress'
    <3>1. CASE s = "provision"
      BY <1>1, <1>6, <2>2, <2>3, <3>1 DEF Progress
    <3>2. CASE s = "sysprep"
      <4> DEFINE a == provisionersBeforeSysprep
                 b == sysprepProvisioner
                 plan == postBootProvisioners
      <4>1. AllRan(ran, a, Len(a), Displaced) /\ AllRan(ran, b, Len(b), Displaced)
        BY <1>1, <1>2, <2>3, <3>2 DEF Progress
      <4>2. /\ Len(plan) = Len(a) + Len(b) /\ Len(a) \in Nat /\ Len(b) \in Nat
            /\ \A k \in 1 .. Len(a) : plan[k] = a[k]
            /\ \A k \in 1 .. Len(b) : plan[Len(a) + k] = b[k]
        BY <1>2, PostBootPlan, BeforeSysprepPlan, SysprepPlan DEF PlanOf
      <4> HIDE DEF a, b, plan
      <4>3. ASSUME NEW k \in 1 .. Len(plan)
            PROVE  Carried(ran, plan[k], Displaced)
        <5>1. CASE k \in 1 .. Len(a)
          BY <4>1, <4>2, <5>1 DEF AllRan
        <5>2. CASE k \notin 1 .. Len(a)
          <6>1. k - Len(a) \in 1 .. Len(b) /\ Len(a) + (k - Len(a)) = k
            BY <4>2, <5>2
          <6>2. plan[k] = b[k - Len(a)]
            BY <4>2, <6>1
          <6> QED BY <4>1, <6>1, <6>2 DEF AllRan
        <5> QED BY <5>1, <5>2
      <4>4. AllRan(ran, plan, Len(plan), Displaced)
        BY <4>3 DEF AllRan
      <4> QED BY <1>1, <1>6, <2>2, <3>2, <4>4 DEF Progress, plan
    <3> QED BY <1>1, <3>1, <3>2
  <2>5. stage' \notin EarlyStages
    BY <1>1, <1>6 DEF EarlyStages
  <2> QED BY <1>4, <1>6, <2>1, <2>4, <2>5
<1> QED BY <1>1, <1>3, <1>5, <1>6 DEF Called

(* ---- Types of the engine ---------------------------------------------- *)

(* The rest of TypeOK: IsoInv has what there is of files and clean-up.     *)
EngineTypes ==
  /\ access \in Accesses
  /\ stage \in Stages
  /\ qemu \in {"none", "running", "exited", "killed"}
  /\ sanitized \in BOOLEAN
  /\ expired \in BOOLEAN

(* An error ends the build and at most stops the guest.                    *)
LEMMA AbortTypes ==
  ASSUME EngineTypes, NEW fs, Abort(fs), access' = access
  PROVE  EngineTypes'
BY DEF EngineTypes, Abort, Stages

(* The stages keep the types of the build.                                 *)
LEMMA StagedTypes ==
  ASSUME IsoInv, EngineTypes, Staged
  PROVE  EngineTypes'
<1>0. access' = access
  BY StagedActs
<1>1. CASE \E fs : Abort(fs)
  BY <1>0, <1>1, AbortTypes
<1>2. ASSUME stage' \in Stages, expired' = expired,
             sanitized' \in {sanitized, (access = "generated")},
             qemu' \in {qemu, "running"}
      PROVE  EngineTypes'
  <2>1. (access = "generated") \in BOOLEAN
    OBVIOUS
  <2>2. sanitized' \in BOOLEAN
    BY <1>2, <2>1 DEF EngineTypes
  <2> QED BY <1>0, <1>2, <2>2 DEF EngineTypes
<1> USE DEF Advance, Stages
<1>3. CASE SelectBackend \/ createInstallerDataISOs \/ CreateDisk \/ StartQEMU
  BY <1>1, <1>2, <1>3
     DEF SelectBackend, createInstallerDataISOs, CreateDisk, StartQEMU
<1>4. CASE \/ prepareInstallerMedia \/ prepareGuestCredentials
           \/ runPrebootProvisioners
  <2>1. ASSUME NEW s, NEW t \in {"creds", "preboot", "isos"}, NEW fs,
               Writes(s, t, fs)
        PROVE  EngineTypes'
    BY <1>1, <1>2, <2>1 DEF Writes
  <2>2. CASE prepareInstallerMedia
    BY <2>1, <2>2 DEF prepareInstallerMedia
  <2>3. CASE prepareGuestCredentials
    BY <2>1, <2>3 DEF prepareGuestCredentials
  <2>4. CASE runPrebootProvisioners
    BY <2>1, <2>4 DEF runPrebootProvisioners
  <2> QED BY <1>4, <2>2, <2>3, <2>4
<1>5. CASE sendBootEvents \/ ReadinessWait \/ checkFinalImageHygiene \/ WaitQEMU
  BY <1>1, <1>2, <1>5
     DEF sendBootEvents, ReadinessWait, checkFinalImageHygiene, WaitQEMU, Asks
<1>6. CASE sanitizeGeneratedGuestCredentials \/ finalizeGuest
  BY <1>1, <1>2, <1>6 DEF sanitizeGeneratedGuestCredentials, finalizeGuest
<1>7. CASE Convert \/ createGCEArchive \/ DescribeArtifact
  BY <1>1, <1>2, <1>7 DEF Convert, createGCEArchive, DescribeArtifact
<1> QED BY <1>3, <1>4, <1>5, <1>6, <1>7 DEF Staged

(* So do the calls of the runner.                                          *)
LEMMA CallTypes ==
  ASSUME EngineTypes, ProvisionGuest \/ RunSysprep
  PROVE  EngineTypes'
<1>1. /\ access' = access
      /\ \/ UNCHANGED isoVars
         \/ /\ stage' \in {"sanitize", "finalize"}
            /\ UNCHANGED <<qemu, sanitized, expired>>
         \/ Abort(files)
  BY DEF ProvisionGuest, RunSysprep, CallRunner, Fixed, Advance
<1>2. CASE UNCHANGED isoVars
  BY <1>1, <1>2 DEF isoVars, EngineTypes
<1>3. CASE /\ stage' \in {"sanitize", "finalize"}
           /\ UNCHANGED <<qemu, sanitized, expired>>
  BY <1>1, <1>3 DEF EngineTypes, Stages
<1>4. CASE Abort(files)
  BY <1>1, <1>4, AbortTypes DEF EngineTypes
<1> QED BY <1>1, <1>2, <1>3, <1>4

(* ---- Every step, and the theorems on the steps ------------------------ *)

(* What any step of the engine is, to the provisioning: a step of the      *)
(* runner, of a sidecar, a call of the runner, a step of the backend that  *)
(* leaves it alone, or a step of the surroundings, which at most ends it.  *)
LEMMA EngineSteps ==
  ASSUME IsoInv, [Next]_vars
  PROVE  \/ RunStep \/ SidecarsMove \/ ProvisionGuest \/ RunSysprep \/ Staged
         \/ /\ UNCHANGED <<provVars, access>>
            /\ \/ stage' = stage /\ result'[Iso] = result[Iso]
               \/ /\ result[Iso] = "none" /\ result'[Iso] \in {"failed", "lost"}
                  /\ stage' \in {stage, "ended"}
            /\ UNCHANGED <<files, sanitized>>
            /\ qemu' \in {qemu, "exited", "killed"} /\ expired' \in {expired, TRUE}
<1>1. ASSUME NEW b \in Builders, Fetch(b)
      PROVE  /\ UNCHANGED <<provVars, access>>
             /\ \/ stage' = stage /\ result'[Iso] = result[Iso]
                \/ /\ result[Iso] = "none" /\ result'[Iso] = "failed"
                   /\ stage' = stage
             /\ UNCHANGED <<files, sanitized, qemu, expired>>
  BY <1>1, IsoAssumption DEF Fetch, isoVars, IsoInv
<1>2. ASSUME NEW b \in Builders, BuildCloudImage(b)
      PROVE  /\ UNCHANGED <<provVars, access>>
             /\ stage' = stage /\ result'[Iso] = result[Iso]
             /\ UNCHANGED <<files, sanitized, qemu, expired>>
  BY <1>2, IsoAssumption DEF BuildCloudImage, Finish, isoVars, IsoInv
<1>3. ASSUME NEW b \in Builders, Lose(b)
      PROVE  /\ UNCHANGED <<provVars, access>>
             /\ \/ stage' = stage /\ result'[Iso] = result[Iso]
                \/ /\ result[Iso] = "none" /\ result'[Iso] = "lost"
                   /\ stage' = "ended"
             /\ UNCHANGED <<files, sanitized, expired>>
             /\ qemu' \in {qemu, "killed"}
  <2>1. CASE b = Iso
    BY <1>3, <2>1, IsoAssumption DEF Lose, Finish, IsoInv
  <2>2. CASE b # Iso
    BY <1>3, <2>2, IsoAssumption DEF Lose, Finish, IsoInv
  <2> QED BY <2>1, <2>2
<1>4. CASE IsoStep
  BY <1>4 DEF IsoStep, Staged
<1>5. CASE GuestStops \/ Expire
  BY <1>5 DEF GuestStops, Expire, Fixed
<1>6. CASE UNCHANGED vars
  BY <1>6 DEF vars, isoVars
<1>7. CASE SidecarsMove
  BY <1>7
<1>8. \/ \E b \in Builders : Fetch(b) \/ BuildCloudImage(b) \/ Lose(b)
      \/ IsoStep \/ SidecarsMove \/ GuestStops \/ Expire \/ UNCHANGED vars
  BY DEF Next, BuilderStep, Done
<1> QED BY <1>1, <1>2, <1>3, <1>4, <1>5, <1>6, <1>7, <1>8

(* All that is needed for the types.                                       *)
TypeInv == EngineInv /\ EngineTypes /\ RunInv

(* The types and the shape of the run hold initially...                    *)
LEMMA TypeInvInit == Init => TypeInv
<1> SUFFICES ASSUME Init PROVE TypeInv
  OBVIOUS
<1>1. EngineInv
  BY EngineInvInit
<1>2. EngineTypes
  BY DEF Init, EngineTypes, Stages
<1>3. manifest \in Manifests /\ Len(manifest) \in Nat
  BY StepsOfChosen DEF Init, ProvInit
<1>4. dirs \in [StepDirs -> DirRec]
  BY DEF Init, ProvInit, DirRec
<1>5. runner \in RunRec /\ runner.pc = "idle"
  BY DEF Init, ProvInit, NoRun, RunRec
<1>6. sidecars \in [Sidecars -> SidecarRec]
      /\ \A i \in Sidecars : sidecars[i].pc = "waiting"
  BY DEF Init, ProvInit, SidecarRec, Answers
<1>7. reported \in Seq(StepStatus) /\ ran \in Seq(Steps)
      /\ restarts \in 0 .. MaxRestarts
  BY RestartsAssumption DEF Init, ProvInit
<1>8. ProvTypeOK
  BY <1>3, <1>4, <1>5, <1>6, <1>7, ProvTypes
<1>9. RunInv
  BY <1>5, <1>6, <1>8 DEF RunInv
<1> QED BY <1>1, <1>2, <1>9 DEF TypeInv

(* ... and every step keeps them, whatever the manifest.                   *)
LEMMA TypeInvNext ==
  ASSUME TypeInv, [Next]_vars
  PROVE  TypeInv'
<1>0. EngineInv /\ IsoInv /\ EngineTypes /\ RunInv
  BY DEF TypeInv, EngineInv
<1>1. EngineInv'
  BY <1>0, EngineInvNext
<1>2. CASE RunStep \/ SidecarsMove
  <2>1. RunInv'
    BY <1>0, <1>2, RunStepTypes, SidecarTypes
  <2>2. EngineTypes'
    BY <1>0, <1>2 DEF RunStep, SidecarsMove, Fixed, isoVars, EngineTypes
  <2> QED BY <1>1, <2>1, <2>2 DEF TypeInv
<1>3. CASE ProvisionGuest \/ RunSysprep
  BY <1>0, <1>1, <1>3, CallsKeepRun, CallTypes DEF TypeInv
<1>4. CASE Staged
  BY <1>0, <1>1, <1>4, StagedKeepsRun, StagedTypes DEF TypeInv
<1>5. CASE /\ UNCHANGED <<provVars, access>>
           /\ \/ stage' = stage /\ result'[Iso] = result[Iso]
              \/ /\ result[Iso] = "none" /\ result'[Iso] \in {"failed", "lost"}
                 /\ stage' \in {stage, "ended"}
           /\ UNCHANGED <<files, sanitized>>
           /\ qemu' \in {qemu, "exited", "killed"} /\ expired' \in {expired, TRUE}
  <2>1. RunInv'
    BY <1>0, <1>5, StageKeepsRun
  <2>2. EngineTypes'
    BY <1>0, <1>5 DEF EngineTypes, Stages
  <2> QED BY <1>1, <2>1, <2>2 DEF TypeInv
<1> QED BY <1>0, <1>2, <1>3, <1>4, <1>5, EngineSteps

(* The variables of the engine keep their types: in particular a run stays *)
(* within its steps, and a step directory is never written outside those   *)
(* there are (provisionerStepDir), for every manifest.                     *)
THEOREM EngineTypeCorrect == Spec => []TypeOK
<1>1. TypeInv => TypeOK
  BY DEF TypeInv, EngineInv, FetchInv, FetchRec, IsoInv, EngineTypes, RunInv,
         TypeOK, FetchTypeOK
<1> QED BY <1>1, TypeInvInit, TypeInvNext, PTL DEF Spec

(* Nothing is carried out before there is a guest.                         *)
LEMMA StepsInvInit == Init => StepsInv
<1> SUFFICES ASSUME Init PROVE StepsInv
  OBVIOUS
<1>1. ran = <<>> /\ reported = <<>> /\ runner.statuses = <<>> /\ runner.pc = "idle"
  BY DEF Init, ProvInit, NoRun
<1>2. Ordered(ran, postBootProvisioners, Displaced)
  BY <1>1 DEF Ordered
<1>3. Truthful(ran, reported, Displaced) /\ Truthful(ran, runner.statuses, Displaced)
  BY <1>1 DEF Truthful
<1>4. /\ \A d \in StepDirs : dirs[d].config = 0 /\ dirs[d].status = "none"
      /\ \A i \in Sidecars : sidecars[i].id = 0 /\ sidecars[i].pc = "waiting"
  BY DEF Init, ProvInit
<1>5. HandedOut
  BY <1>4 DEF HandedOut
<1>6. Served
  BY <1>4 DEF Served, DirServes, SidecarServes
<1>7. Progress
  BY IsoAssumption DEF Init, Progress
<1> QED BY <1>1, <1>2, <1>3, <1>5, <1>6, <1>7 DEF StepsInv

(* Every step keeps the steps in order and the reports true.               *)
LEMMA StepsInvNext ==
  ASSUME TypeInv, StepsInv, [Next]_vars
  PROVE  StepsInv'
<1>0. IsoInv /\ RunInv
  BY DEF TypeInv, EngineInv
<1>1. CASE RunStep
  BY <1>0, <1>1, RunStepSteps
<1>2. CASE SidecarsMove
  BY <1>0, <1>2, SidecarSteps
<1>3. CASE ProvisionGuest \/ RunSysprep
  BY <1>0, <1>3, CallsKeepSteps
<1>4. CASE Staged
  BY <1>0, <1>4, StagedKeepsSteps
<1>5. CASE /\ UNCHANGED <<provVars, access>>
           /\ \/ stage' = stage /\ result'[Iso] = result[Iso]
              \/ /\ result[Iso] = "none" /\ result'[Iso] \in {"failed", "lost"}
                 /\ stage' \in {stage, "ended"}
  <2>1. ProgressAt(stage', result'[Iso])
    BY <1>5 DEF StepsInv, Progress, ProgressAt
  <2> QED BY <1>5, <2>1, StageKeepsSteps, ProgressNext
<1> QED BY <1>0, <1>1, <1>2, <1>3, <1>4, <1>5, EngineSteps

(* For every manifest: a step that is reported as successful, or that a    *)
(* successful build asked for, was carried out, unless it is a sidecar's   *)
(* step with a step of the builder before it (the two counts of            *)
(* SequentialProvisionerRunner.Run); and no step is carried out before the *)
(* others ahead of it, sysprep last, whatever sidecars and timeout do.     *)
THEOREM StepsAreInOrder == Spec => []StepsInOrder
<1>1. Init => TypeInv /\ StepsInv
  BY TypeInvInit, StepsInvInit
<1>2. TypeInv /\ StepsInv /\ [Next]_vars => (TypeInv /\ StepsInv)'
  BY TypeInvNext, StepsInvNext
<1>3. TypeInv /\ StepsInv => StepsInOrder
  BY StepsInvImplies DEF TypeInv, RunInv
<1> QED BY <1>1, <1>2, <1>3, PTL DEF Spec
=============================================================================
