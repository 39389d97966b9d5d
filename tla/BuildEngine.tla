---------------------------- MODULE BuildEngine ----------------------------
(***************************************************************************)
(* cmd/builder and pkg/builder: build Pods that fetch a source through a   *)
(* shared cache (SourceFetch) and turn it into an artifact.  One of them,  *)
(* Iso, boots an installer in QEMU, provisions the guest (Provisioning),   *)
(* removes what the build put into it, shuts it down and converts its      *)
(* disk; the others convert or copy a cloud image, which is never booted.  *)
(*                                                                         *)
(* A build runs in one Pod that is not restarted.  It may be lost at any   *)
(* point; the guest may stop or fail at any point; the timeout of the      *)
(* build ends what waits for the guest.                                    *)
(***************************************************************************)
EXTENDS SourceFetch, Provisioning

CONSTANTS
  Iso,       \* the builder whose source is an ISO
  Accesses,  \* its guest access: none, own credentials, or generated
  Formats    \* spec.targets[0].format: qcow2, or gce, a raw disk in a tar

ASSUME IsoAssumption == Iso \in Builders
ASSUME ModeAssumption == /\ Accesses \subseteq {"none", "own", "generated"}
                         /\ Formats \subseteq {"qcow2", "gce"}

VARIABLES
  access,     \* spec.build.guestAccess of Iso
  stage,      \* where QEMUISOBackend.Build of Iso is
  files,      \* what it has put into the workspace
  deferred,   \* the clean-up functions it has deferred
  qemu,       \* the virtual machine
  sanitized,  \* the generated account is locked and its key removed
  expired,    \* the timeout of the build has passed
  result      \* result.json of each builder

isoVars == <<stage, files, deferred, qemu, sanitized, expired>>
vars == <<fetchVars, provVars, access, isoVars, result>>

(* source.img, the seed files of the installer (cloud-init, autounattend,  *)
(* kickstart or preseed), the generated credentials, the ISOs made of the   *)
(* seeds, the disk and its QMP socket.                                      *)
Transients == {"source", "seed", "creds", "isos", "disk", "qmp"}

Stages == {"fetch", "media", "creds", "preboot", "isos", "disk", "start",
           "boot", "ready", "provision", "sanitize", "hygiene", "sysprep",
           "finalize", "wait", "convert", "archive", "describe", "ended"}

VMStages == {"boot", "ready", "provision", "sanitize", "hygiene", "sysprep",
             "finalize", "wait"}

TypeOK ==
  /\ FetchTypeOK
  /\ ProvTypeOK
  /\ access \in Accesses
  /\ stage \in Stages
  /\ files \subseteq Transients \cup {"raw", "artifact"}
  /\ deferred \subseteq {"workspace", "credentials", "raw"}
  /\ qemu \in {"none", "running", "exited", "killed"}
  /\ sanitized \in BOOLEAN
  /\ expired \in BOOLEAN
  /\ result \in [Builders -> {"none", "success", "failed", "lost"}]

(* ---- The manifest as the ISO backend splits it -------------------------- *)

provisionersBeforeSysprep == StepsOf(Kinds \ {"cloud-init", "sysprep"})
sysprepProvisioner ==  \* the first one; any other is dropped
  LET all == StepsOf({"sysprep"}) IN SubSeq(all, 1, IF all = <<>> THEN 0 ELSE 1)
postBootProvisioners == provisionersBeforeSysprep \o sysprepProvisioner
requiresGuestAccess == postBootProvisioners # <<>>

Init ==
  /\ FetchInit
  /\ ProvInit
  /\ access \in Accesses
  /\ stage = "fetch"
  /\ files = {}
  /\ deferred = {}
  /\ qemu = "none"
  /\ sanitized = FALSE
  /\ expired = FALSE
  /\ result = [b \in Builders |-> "none"]

(* ---- Engine.Build and the cloud-image backends -------------------------- *)

Finish(b, outcome) == result' = [result EXCEPT ![b] = outcome]

(* fetchSource; an error ends the build.                                    *)
Fetch(b) ==
  /\ result[b] = "none"
  /\ FetchStep(b)
  /\ result' = IF fetch'[b].pc = "failed"
                 THEN [result EXCEPT ![b] = "failed"] ELSE result
  /\ UNCHANGED <<provVars, access, isoVars>>

(* QEMUImageBackend: qemu-img inspects and converts the source; for GCE     *)
(* the raw disk is then packed.  CloudImageBackend, for a format qemu-img   *)
(* does not write, copies the file and repeats the checksum of the source.  *)
BuildCloudImage(b) ==
  /\ b # Iso
  /\ result[b] = "none"
  /\ fetch[b].pc = "fetched"
  /\ \E outcome \in {"success", "failed"} : Finish(b, outcome)
  /\ PodGone(b)
  /\ UNCHANGED <<provVars, access, isoVars>>

(* ---- QEMUISOBackend.Build ------------------------------------------------ *)

Fixed == UNCHANGED <<fetchVars, access>>

At(s) == stage = s /\ result[Iso] = "none"

Advance(to) == stage' = to /\ UNCHANGED result

cleanupQEMUISOTransientWorkspace(fs) ==
  fs \ {"disk", "qmp", "isos", "source", "seed"}

(* It removes two of the four kinds of seeds as well.                       *)
cleanupGeneratedGuestCredentials(fs) == fs \ {"creds", "isos"}

(* What runs when Build returns, however it does, last deferred first.      *)
DeferredCleanup(fs) ==
  LET raw == IF "raw" \in deferred THEN fs \ {"raw"} ELSE fs
      creds == IF "credentials" \in deferred
                 THEN cleanupGeneratedGuestCredentials(raw) ELSE raw
  IN IF "workspace" \in deferred
       THEN cleanupQEMUISOTransientWorkspace(creds) ELSE creds

(* An error, which leaves the files fs, stops QEMU.                         *)
Abort(fs) ==
  /\ stage' = "ended"
  /\ Finish(Iso, "failed")
  /\ files' = DeferredCleanup(fs)
  /\ qemu' = IF qemu = "running" THEN "killed" ELSE qemu
  /\ UNCHANGED <<deferred, sanitized, expired>>

SelectBackend ==
  /\ At("fetch")
  /\ fetch[Iso].pc = "fetched"
  /\ Advance("media")
  /\ files' = {"source"}
  /\ UNCHANGED <<provVars, deferred, qemu, sanitized, expired>> /\ Fixed

(* The files an installation needs, each written by one function: seeds of *)
(* the installer, generated credentials and the seed that carries them,    *)
(* the cloud-init steps, after the steps kept in git have been fetched.    *)
(* An error returns at once.                                               *)
Writes(s, to, fs) ==
  /\ At(s)
  /\ \/ /\ Advance(to)
        /\ files' = files \cup fs
        /\ UNCHANGED <<deferred, qemu, sanitized, expired>>
     \/ \E part \in SUBSET fs : Abort(files \cup part)
  /\ UNCHANGED provVars /\ Fixed

prepareInstallerMedia ==
  \E installer \in {{}, {"seed"}} : Writes("media", "creds", installer)

(* Generated credentials reach the guest in the autounattend file, in a     *)
(* cloud-init step that is added to the image, or not at all.               *)
prepareGuestCredentials ==
  \E injected \in {{}, {"seed"}} :
    Writes("creds", "preboot",
           IF access = "generated" THEN {"creds"} \cup injected ELSE {})

runPrebootProvisioners ==
  \E injected \in {{}, {"seed"}} :
    Writes("preboot", "isos",
           IF \E i \in Steps : manifest[i] = "cloud-init" THEN {"seed"}
           ELSE IF access = "generated" THEN injected ELSE {})

seedISOs == IF "seed" \in files THEN {"isos"} ELSE {}

(* A plausible fault: only the first of the two functions is deferred.      *)
MutCreateISOs ==
  /\ At("isos")
  /\ \/ /\ Advance("disk")
        /\ files' = files \cup seedISOs
        /\ deferred' = {"workspace"}
        /\ UNCHANGED <<qemu, sanitized, expired>>
     \/ \E part \in SUBSET seedISOs : Abort(files \cup part)
  /\ UNCHANGED provVars /\ Fixed

(* Once the ISOs are made Build defers its clean-up; until then an error    *)
(* leaves what has been written.                                            *)
createInstallerDataISOs ==
  /\ At("isos")
  /\ \/ /\ Advance("disk")
        /\ files' = files \cup seedISOs
        /\ deferred' = IF access = "generated"
                         THEN {"workspace", "credentials"} ELSE {"workspace"}
        /\ UNCHANGED <<qemu, sanitized, expired>>
     \/ \E part \in SUBSET seedISOs : Abort(files \cup part)
  /\ UNCHANGED provVars /\ Fixed

(* Boot commands and guest access are parsed, then qemu-img makes the disk. *)
CreateDisk ==
  /\ At("disk")
  /\ \/ /\ requiresGuestAccess => access # "none"
        /\ Advance("start")
        /\ files' = files \cup {"disk"}
        /\ UNCHANGED <<deferred, qemu, sanitized, expired>>
     \/ Abort(files)
  /\ UNCHANGED provVars /\ Fixed

StartQEMU ==
  /\ At("start")
  /\ \/ /\ Advance("boot")
        /\ qemu' = "running"
        /\ files' = files \cup {"qmp"}
        /\ UNCHANGED <<deferred, sanitized, expired>>
     \/ Abort(files)
  /\ UNCHANGED provVars /\ Fixed

(* What the guest can be asked: a locked account refuses every login.       *)
Reachable == qemu = "running" /\ access # "none" /\ ~sanitized

(* A step that needs the running guest, and may fail.                       *)
Asks(s, possible, to) ==
  /\ At(s)
  /\ \/ /\ possible
        /\ Advance(to)
        /\ UNCHANGED <<files, deferred, qemu, sanitized, expired>>
     \/ Abort(files)
  /\ UNCHANGED provVars /\ Fixed

sendBootEvents ==
  Asks("boot", qemu = "running", IF access = "none" THEN "finalize" ELSE "ready")

ReadinessWait == Asks("ready", Reachable, "provision")

(* The runner is called for one part of the steps, and again for sysprep.   *)
CallRunner(s, specs, to) ==
  /\ At(s)
  /\ \/ /\ runner.pc = "idle" /\ specs # <<>>
        /\ BeginRun(specs)
        /\ UNCHANGED <<manifest, dirs, reported, sidecars, restarts, ran>>
        /\ UNCHANGED <<isoVars, result>>
     \/ /\ specs = <<>> \/ RunDone
        /\ Advance(to)
        /\ runner' = NoRun
        /\ UNCHANGED <<manifest, dirs, reported, sidecars, restarts, ran>>
        /\ UNCHANGED <<files, deferred, qemu, sanitized, expired>>
     \/ runner.pc = "failed" /\ Abort(files) /\ UNCHANGED provVars
  /\ Fixed

ProvisionGuest == CallRunner("provision", provisionersBeforeSysprep, "sanitize")

RunStep ==
  /\ result[Iso] = "none"
  /\ \/ RunnerStep(Reachable)
     \/ expired /\ WaitExpires
  /\ UNCHANGED <<isoVars, result>> /\ Fixed

(* The sanitizer locks or rotates the account it logs in with.              *)
sanitizeGeneratedGuestCredentials ==
  /\ At("sanitize")
  /\ \/ /\ access = "generated" => Reachable
        /\ Advance("hygiene")
        /\ sanitized' = (access = "generated")
        /\ UNCHANGED <<files, deferred, qemu, expired>>
     \/ access = "generated" /\ Abort(files)
  /\ UNCHANGED provVars /\ Fixed

checkFinalImageHygiene == Asks("hygiene", Reachable, "sysprep")

RunSysprep == CallRunner("sysprep", sysprepProvisioner, "finalize")

(* The guest is told to shut down, unless sysprep did.  When nothing was    *)
(* done to it, the installer ends by itself.                                *)
needsFinalization == postBootProvisioners # <<>> \/ access = "generated"

finalizeGuest ==
  /\ At("finalize")
  /\ \/ /\ needsFinalization => sysprepProvisioner # <<>> \/ Reachable
        /\ Advance("wait")
        /\ UNCHANGED <<files, deferred, qemu, sanitized, expired>>
     \/ needsFinalization /\ Abort(files)
  /\ UNCHANGED provVars /\ Fixed

WaitQEMU == qemu # "running" /\ Asks("wait", qemu = "exited", "convert")

(* qemu-img convert.  For GCE its output is an intermediate raw file, whose *)
(* removal is deferred before it is packed; a conversion that fails leaves  *)
(* it.                                                                      *)
Convert ==
  /\ At("convert")
  /\ \E format \in Formats :
       \/ /\ format = "gce"
          /\ Advance("archive")
          /\ files' = files \cup {"raw"}
          /\ deferred' = deferred \cup {"raw"}
          /\ UNCHANGED <<qemu, sanitized, expired>>
       \/ /\ format # "gce"
          /\ Advance("describe")
          /\ files' = files \cup {"artifact"}
          /\ UNCHANGED <<deferred, qemu, sanitized, expired>>
       \/ Abort(IF format = "gce" THEN files \cup {"raw"} ELSE files)
  /\ UNCHANGED provVars /\ Fixed

createGCEArchive ==
  /\ At("archive")
  /\ \/ /\ Advance("describe")
        /\ files' = files \cup {"artifact"}
        /\ UNCHANGED <<deferred, qemu, sanitized, expired>>
     \/ Abort(files)
  /\ UNCHANGED provVars /\ Fixed

(* The artifact is measured and its checksum taken.                         *)
DescribeArtifact ==
  /\ At("describe")
  /\ \/ /\ stage' = "ended" /\ Finish(Iso, "success")
        /\ files' = DeferredCleanup(files)
        /\ UNCHANGED <<deferred, qemu, sanitized, expired>>
     \/ Abort(files)
  /\ UNCHANGED provVars /\ Fixed

IsoStep ==
  \/ SelectBackend \/ prepareInstallerMedia \/ prepareGuestCredentials
  \/ runPrebootProvisioners \/ createInstallerDataISOs \/ CreateDisk
  \/ StartQEMU \/ sendBootEvents \/ ReadinessWait \/ ProvisionGuest \/ RunStep
  \/ sanitizeGeneratedGuestCredentials \/ checkFinalImageHygiene \/ RunSysprep
  \/ finalizeGuest \/ WaitQEMU \/ Convert \/ createGCEArchive
  \/ DescribeArtifact

(* The build container of b, which is sequential.                           *)
BuilderStep(b) ==
  Fetch(b) \/ BuildCloudImage(b) \/ (b = Iso /\ IsoStep)

(* ---- The surroundings ---------------------------------------------------- *)

(* The containers of provisioners live as long as the Pod.                  *)
SidecarsMove ==
  /\ result[Iso] = "none"
  /\ SidecarStep(Reachable)
  /\ UNCHANGED <<isoVars, result>> /\ Fixed

(* The guest powers off or QEMU fails.                                      *)
GuestStops ==
  /\ qemu = "running"
  /\ qemu' \in {"exited", "killed"}
  /\ UNCHANGED <<provVars, stage, files, deferred, sanitized, expired, result>>
  /\ Fixed

(* The context of the build ends: QEMU, which was started under it, dies.   *)
Expire ==
  /\ stage \in VMStages /\ ~expired
  /\ expired' = TRUE
  /\ qemu' = IF qemu = "running" THEN "killed" ELSE qemu
  /\ UNCHANGED <<provVars, stage, files, deferred, sanitized, result>> /\ Fixed

(* The Pod is evicted or reaches the deadline of its Job; what it wrote     *)
(* stays where it is.                                                       *)
Lose(b) ==
  /\ result[b] = "none"
  /\ Finish(b, "lost")
  /\ qemu' = IF b = Iso /\ qemu = "running" THEN "killed" ELSE qemu
  /\ stage' = IF b = Iso THEN "ended" ELSE stage
  /\ PodGone(b)
  /\ UNCHANGED <<provVars, access, files, deferred, sanitized, expired>>

Done ==
  /\ \A b \in Builders : result[b] # "none"
  /\ UNCHANGED vars

Next ==
  \/ \E b \in Builders : BuilderStep(b) \/ Lose(b)
  \/ SidecarsMove \/ GuestStops \/ Expire \/ Done

Spec == Init /\ [][Next]_vars

(* The builders take their steps and time passes; nothing is assumed of    *)
(* the sidecars, which may hang, of the guest or of the Pods' survival.    *)
Fairness ==
  /\ \A b \in Builders : WF_vars(BuilderStep(b))
  /\ WF_vars(Expire)

FairSpec == Spec /\ Fairness

(* ---- Properties ------------------------------------------------------------ *)

(* The source a backend is given is the one the checksum names, whatever   *)
(* other builders left in the shared cache; the one exception is a build   *)
(* whose entry another builder began to write between its verification     *)
(* and the end of its copy (copyValidCache does not verify the copy).      *)
SourceVerified ==
  \A b \in Builders : fetch[b].pc = "fetched" =>
                        fetch[b].source = "good" \/ fetch[b].shaken

FirstRun(i) == CHOOSE k \in DOMAIN ran :
                 ran[k] = i /\ \A j \in 1 .. (k - 1) : ran[j] # i

(* A step that provisioners-result.json reports as successful was carried  *)
(* out on the guest, and a build that succeeds has carried out every step, *)
(* in the manifest's order, sysprep last, although sidecars are restarted, *)
(* repeat their step and are read while they write.                        *)
StepsCarriedOut ==
  /\ \A k \in DOMAIN reported : reported[k].ok => Contains(ran, reported[k].id)
  /\ result[Iso] = "success" =>
       \A k \in DOMAIN postBootProvisioners :
         /\ Contains(ran, postBootProvisioners[k])
         /\ k > 1 => FirstRun(postBootProvisioners[k - 1])
                       < FirstRun(postBootProvisioners[k])

(* What the code keeps of that for every manifest: the answer of a step is *)
(* its own unless it is a sidecar's step with a step of the builder before *)
(* it (Displaced).  Every other step that is reported as successful, or    *)
(* that a successful build asked for, was carried out; and at no time has  *)
(* any step been carried out before the others ahead of it.                *)
StepsInOrder ==
  /\ \A k \in DOMAIN reported :
       reported[k].ok => \/ Contains(ran, reported[k].id)
                         \/ reported[k].id \in Displaced
  /\ \A k \in DOMAIN postBootProvisioners :
       LET step == postBootProvisioners[k]
       IN /\ result[Iso] = "success" /\ step \notin Displaced =>
               Contains(ran, step)
          /\ Contains(ran, step) =>
               \A j \in 1 .. (k - 1) :
                 \/ postBootProvisioners[j] \in Displaced
                 \/ /\ Contains(ran, postBootProvisioners[j])
                    /\ FirstRun(postBootProvisioners[j]) < FirstRun(step)

(* A build that ended, well or badly, leaves no running QEMU, no disk and  *)
(* no socket; and if its guest was ever started, nothing it was started    *)
(* from either: no source, seed, ISO or generated credentials.  A build    *)
(* that succeeds leaves its artifact alone.                                *)
TransientsRemoved ==
  result[Iso] \in {"success", "failed"} =>
    /\ qemu # "running"
    /\ files \cap {"disk", "qmp"} = {}
    /\ qemu # "none" => files \cap Transients = {}
    /\ result[Iso] = "success" => files = {"artifact"}

(* What docs/operations/operator.md says of every build.  Errors before    *)
(* the clean-up is deferred leave seeds and credentials, so the code does  *)
(* not keep it.                                                            *)
NoTransientStays ==
  result[Iso] \in {"success", "failed"} => files \subseteq {"source", "artifact"}

(* Every build ends with a result, though a sidecar may never answer and   *)
(* the guest may never stop.                                               *)
BuildsEnd == <>(\A b \in Builders : result[b] # "none")
=============================================================================
