# A TLA+ model of VM Image Builder

VM Image Builder is a Kubernetes operator: a `VMImage` names a source, an
ordered list of provisioners and the platforms that should get the image; the
operator builds it in a Job (or lets a platform build it remotely), uploads and
registers it, and keeps the outcome in the object's status. Almost everything
that can go wrong here goes wrong between two API calls. This directory models
the control logic at that grain, checks it with TLC on small instances, and
proves the central properties with TLAPS for every instance.

## Inventory

| Part (source) | State it keeps | Operations | What makes it correct |
|---|---|---|---|
| Build admission (`pkg/controller/vmimage/scheduler.go`) | one Lease per global slot; `status.buildLeaseRefs` | acquire, renew, recreate, release | builds within the limit, live Leases stay with their holders, queued images get a turn |
| Local VMImage controller (`pkg/controller/vmimage/reconciler.go`) | phase, observed generation and revision, Job references, results; Jobs and PVCs named by the revision | `reconcilePending/Building/Uploading/Delete`, `reconcileSpecGeneration`, revision garbage collection, `cleanupLocalUpload`, retention | results belong to the attempt, a workspace lives as long as it is needed, failed uploads are cleaned, every attempt ends |
| Remote builds (`reconcileRemoteBuild` and helpers, `pkg/provider/errors`) | operation reference, start time, retry count and next retry | start, continue, retry, time out, clean up | retries end at the timeout, nothing is left at the provider |
| Uploader (`cmd/uploader/main.go`) | session and operation files with backups; provider-side uploads and images | upload, checkpoint, record, register; cleanup | success means all registered, what exists can be cleaned |
| Job assembly (`pkg/controller/buildpod`, `uploadpod`, `revision`) | none | names, deadlines, retry limits, Pod specs | names of different attempts differ |
| Webhooks (`api/v1alpha1`) | none | admission of creates and updates | spec changes only in a terminal phase and with a new token |
| PlatformProvider controller and registry (`pkg/controller/provider`, `pkg/plugin/registry.go`) | provider Deployment and Service, health, registered adapters by UID | deploy, handshake, health probe, deregister | an adapter in use is the one of the live object |
| gRPC adapter and provider SDK (`pkg/plugin/grpc`, `pkg/provider/sdk`) | stream offsets, session tokens | upload stream, resume, status | committed bytes are never resent at a wrong offset or skipped |
| Platform plugins (`plugins/{aws,azure,gcp,openstack,vsphere}`) | resources at the platform, operation reference | remote build steps, upload, register, cleanup | repeated calls find earlier ones, cleanup finds everything |
| Builder (`pkg/builder`, `cmd/builder`) | workspace files, QEMU process | source fetch, boot, provisioning, sanitise, hygiene, convert | steps in order, failure paths clean up, handshake with sidecars |
| Provisioners (`pkg/provisioner`, `cmd/provisioner`) | step directories | run one step | a step runs once and its output is the one read |
| Security, observability, charts | none | checks of URLs and signatures, metrics, deployment | single-step functions |

How they interact: the controller talks to Jobs, Pods, PVCs and Leases through
the API server only, reads through a cache and writes with optimistic
concurrency; build and upload Pods share the workspace PVC; the uploader and
the controller call providers, in process or over gRPC; the controller learns
of a provider's health from the status the PlatformProvider controller writes.

What is hard: a reconcile may stop after any API call (crash, conflict, API
error) and is run again from the top; Pods are lost and replaced; a deletion or
a rebuild request arrives in the middle of a reconcile; Job names are reused by
design so that a repeated create finds the earlier Job; cached reads lag;
providers act before their answer is recorded. `PROJECT.json` lists the places
under `hazards`.

## Modules

| Module | Models |
|---|---|
| `BuildSlots` (`MCBuildSlots`, `BuildSlotsProofs`) | build admission for several images |
| `VMImage` (`MCVMImage`, `VMImageProofs`) | one locally built image |
| `RemoteBuild` (`RemoteBuildProofs`) | one remotely built image, the provider by what it may answer |
| `Uploader` (`UploaderProofs`) | the upload and cleanup Jobs of one image, with their files |
| `ImageContract` | what a user may rely on; implemented by `VMImage` and `RemoteBuild` |
| `RemoteClient`; `RemoteAWS`, `RemoteAzure`, `RemoteOpenStack`, `RemoteVSphere`, `RemoteGCP`; `RemoteClients` (`MCRemoteClients`, `RemoteClientsProofs`) | the remote builds of the five plugins: what they have in common, the clients, and their composition under one controller |
| `UploadTarget`, `UploadStream`; `UploadAWS`, `UploadAzure`, `UploadGCP`, `UploadOpenStack`, `UploadVSphere`; `PlatformUpload` (`PlatformUploadProofs`) | one upload target: the calls of the Pods, the gRPC stream, the plugins, and their composition |
| `ProviderRegistry` (`ProviderRegistryProofs`) | the PlatformProvider controller, the registry and the connections of external providers |
| `SourceFetch`, `Provisioning`; `BuildEngine` (`MCBuildEngine`, `BuildEngineProofs`) | the builder: source cache, provisioner handshake, and the builds that use them |

`ImageContract` is the abstract specification: requested versions are attempted
one at a time, an attempt ends at most once, its outcome stands until a newer
request is taken up, removal is final. `VMImage` and `RemoteBuild` instantiate
it with `requested` as `metadata.generation`, `attempt` as the observed
generation and `state` as the phase, with the phases of an unfinished attempt
mapped to "active".

### BuildSlots

`versions` gives for each slot the versions of its Lease, from the one the
informer cache of the manager's client still has, which every Get returns, to
that of the API server, which every write meets. `phase`, `refs`, `deleting` are
the VMImage; `pc`, `slot`, `mem`, `goal` are the locals of the reconcile under
way. `Start...` actions are the beginning of a reconcile (`Reconcile`,
`reconcilePending`, `reconcileBuilding`, `reconcileDelete`); `Acquire*`,
`RecreateExpired`, `SkipHeld`, `CreateJob`, `MarkBuilding`, the release and
status steps are the API calls that follow, in the order of the code. The
operator runs one worker (controller-runtime's default; no option changes it),
so reconciles of two images do not overlap, but each may be left unfinished at
any step (`Fault`), and the Leases of one image expire while another is served.
A Get and the write decided by it are one step: the cache moves by itself and
with a single worker nothing else writes in between. A Lease is `fresh` or not;
the six hours themselves are not counted. The one thing assumed of the cache is
that it is never as much as a lease duration behind: `Expire` waits for
`Current`.

The history variable `claim` says how an image came by its slot: "misread" if it
accepted an outdated copy as its own Lease or took over an expired one, "lapsed"
once a Lease of it expired, "sound" otherwise. With cached reads the code keeps
the limit for sound claims only, and that is what the properties say.

### VMImage

One image with up to `MaxGeneration` accepted specs and `MaxRevision` revision
tokens. Objects whose names derive from the token (build, upload and cleanup
Job, PVC, provider-side upload) are functions over tokens, and a rebuild may name
any token but the present one, also one that an earlier attempt had, as the
webhook admits it. A status may be one of an operator without
`observedGeneration` that had finished the image. History variables remember which generation a result was made from (`buildGen`,
`uploadGen`, `artifact`, `images`, `volume`), the tokens that earlier attempts
had (`tokens`) and the version that an old status was taken to be of
(`adopted`).

The provider's side of an upload is "clean", "partial", "registered" or "stuck"
(an AMI that is deregistered while the uploader's files still name it), and
`record` says whether these files name all there is. The cleanup Job deletes
what they name; the rest it may find by name or leave (`CleanupSucceeds`), and a
stuck upload fails it at every repetition (`Cleanable`). Build slots are left to
`BuildSlots`; `Queue` is an admission that finds none. Jobs, Pods and the TTL of
finished Jobs are the environment.

### RemoteBuild

A reconcile is split where the outside world can see it: the provider call
(`CallProvider`), the cleanup call (`TimeoutCleanup`, `FailureCleanup`,
`DeleteCleanup`) and the status write that ends it. `ref` is the attempt that
the recorded reference belongs to and `named` whether it names an image. The
provider holds of each attempt a set of things (builder, image, snapshots of a
deregistered AMI, an OpenStack server that a second one replaced) and may answer
anything consistent with that; a transient answer may come before or after its
effect. Its cleanup deletes what it can find (`Found`), and that is where the
providers differ: AWS looks for the tags of the BuildID and Azure for names,
GCP and OpenStack need the reference, vSphere has it or looks for a name it did
not give, and captured images of Azure and OpenStack are not looked for at all.
An AWS cleanup whose reference names an AMI that is gone fails each time
(`CleanupStuck`), as does that of an AMI made from a snapshot, whose reference
it cannot parse. The seven `Kinds` are AWS, Azure, GCP, OpenStack and vSphere,
with AWS and Azure once more for the sources that need no builder. Time runs in
units from `status.startTime`; one unit past the timeout stands for all later
times.

### Uploader

Targets are worked on in order. Each checkpoint file is a pair of its current
and its backup generation; the replacement of a file is atomic (rename), so a
checkpoint is one step. `Replace`, `PodLost` and `DeadlineExceeded` are the Job
controller; `Damage` makes a file unreadable, the case the backup exists for.
Upload offsets are abstracted to whether the provider reported one. `OneShot`
targets are those at AWS: their image can be deregistered only once, and a
cleanup that stops right after leaves "deregistered", which no later cleanup
gets past.

### RemoteClients

The controller calls `ReconcileRemoteBuild` again and again with the reference
it has saved. `cloud` is what the platform holds (servers, images, snapshots,
disk, what has run on each server), `ref` the reference of the call under way
and `saved` that in the status. One action is one branch of the client from the
read of the cloud to its answer: it may end in `Done`, in an error before or
after its effect, or with an answer that is never saved. Servers and images
move by themselves (`ServerMoves`, `ImageSettles`). Waiting loops inside one call are one step.
Settings that select a branch (source type, guest family, keys, templates) are
fields of the requests; `MCRequests` holds requests that reach every branch.

### PlatformUpload

The artifact is the sequence of its units, and what is stored is the sequence
of units written there, so data skipped or repeated by a resumed upload shows.
`saved` and `ops` are the session and operation records of the uploader, which
`Uploader` models in more detail; here they are written between the calls of
`processUploadTarget`. The plugin is linked in (`via = "plugin"`) or behind
`UploadStream`: `DataWindow` and `Window` are the two directions' flow-control
windows, `server` what the external process remembers and loses when it
restarts. Backend sessions and Azure's staging blob may be removed from outside
at any time, GCS may commit a chunk in part, and AWS refuses to resume at an
offset that is not a multiple of its part size, as after a short last part. The
history variable `cloud.torn` holds the sessions that a plugin went on with
behind a gap: a chunk sent after one that was committed in part, or a blob
created again without an answer.

### ProviderRegistry

Resources of one installation name follow one another, each with a UID. The
controller reads `cache`, which lags; `Update` fails when the object changed
since. A package is a number that also stands for the capabilities its process
advertises; `adapters` are the open connections and `call` a use of one by the
VMImage controller. Policy and signature verification are the input `policy`.

### BuildEngine

`SourceFetch` is `HTTPFetcher` for several builders on one cache volume, with
the file system's rules for a file that is removed or truncated while it is
read. `Provisioning` is `SequentialProvisionerRunner` and the sidecars, which
speak through `step-N/config.json` and `status.json`; steps are named by their
place in the manifest; `Displaced` are the sidecars' steps with a step of the
builder before them. `BuildEngine` runs one ISO build through the stages of
`QEMUISOBackend.Build` beside cloud-image builds. `files` is what the build has
put into the workspace and `deferred` the clean-up functions that are registered
so far (the workspace's, that of generated credentials, that of the raw disk of
a GCE archive); an error runs those and leaves any part of what was written
under way.
The guest may stop at any point, `Expire` is the timeout and `Lose` the loss of
a Pod. `ran` remembers what was really carried out on the guest.

## Runs

Passing runs and their instances:

| Run | Instance | Shows |
|---|---|---|
| `BuildSlots_safety` | 2 images, 1 slot, 1 fault, symmetric | `TypeOK`, `BuildingHoldsSlot`, `BuildsWithinLimit`, `LiveLeaseKept` |
| `BuildSlots_live` | 2 images, 1 slot, no fault, fair | `QueuedImagesProgress` |
| `VMImage_safety` | 3 generations, 2 tokens, policy Never, 1 fault | `TypeOK`, `StatusShowsOwnAttempt`, `WorkspaceKept`, `UploadFailureCleaned`, `MeetsContract` |
| `VMImage_live` | 2 generations, 2 tokens, policy OnFailure, 1 fault, fair | `AttemptsConclude`, `RebuildsStart`, `DeletionCompletes` |
| `Uploader` | 2 targets, one at AWS, 1 replacement, 1 damaged file, fair | `SuccessRegistersAll`, `ImageRecorded`, `UploadsNotRepeated`, `RegisteredOnDiskStays`, `UploadSettles` |
| `RemoteBuild` | 7 kinds of provider, 2 generations, timeout 2, 1 fault, fair | `TypeOK`, `RetryWithinBudget`, `DeletionRemovesBuild`, `CleanedBeforeFailed`, `MeetsContract`, `AttemptsConclude`, `DeletionCompletes` |
| `RemoteClients` | 5 providers, 10 requests, 2 servers, any call failing before or after its effect | `CapturesProvisioned`, `ReadyIsComplete`, `CleanedUp`, `OthersConclude` |
| `PlatformUpload` | 5 plugins, linked in and over gRPC, 5 units in chunks of 2, 3 backend sessions | `CommittedIsStored`, `ImageIsArtifact`, `CleanedTarget` |
| `ProviderRegistry` | 2 resources, 2 packages of which one misnamed, 2 connections, 2 changes | `NoLeakedAdapter`, `EntryIsUsable`, `ProviderComesBack` |
| `BuildEngine` | an ISO and a cloud-image builder on one cache, 3 manifests (one with a shell step before an Ansible step), all modes, 1 sidecar restart | `SourceVerified`, `StepsInOrder`, `TransientsRemoved`, `BuildsEnd` |

What the exceptions in these properties are:

- `BuildSlots`: images whose claim is not sound (see above); `LimitEnforced` is
  the property without that, and fails.
- `VMImage`: tokens that an earlier attempt had, whose Jobs, PVC and finished
  cleanup are adopted, and a version that the migration of an old status adopts.
  `DeletionBlocked` is a deletion that waits for a cleanup which cannot succeed.
- `RemoteBuild`: `OnlyKnownLeft` lists per provider what a cleanup without an
  error leaves; everything else must be gone. `CleanupStuck` is exempt from
  `AttemptsConclude` and `DeletionCompletes`.
- `PlatformUpload`: torn sessions, and the two layouts of vSphere named at
  `ImageIsArtifact`.
- `BuildEngine`: displaced steps in `StepsInOrder`, and in `TransientsRemoved`
  what a build leaves that failed before its guest was started, of which only
  the disk and the socket are sure to be gone.

Why the bounds are enough: two images on one slot give every contention there
is between a holder and a rival; two generations give an old and a new attempt,
and a third one that uses the first one's token again; a fault can be placed at
each step of a reconcile and is followed by the recovery; two targets give one
that is finished and one that is not. `RemoteBuild`'s delays make each of the
clamps (maximum, remaining time, least delay) decide in some state. In
`RemoteClients` a second server is the one that a repeated start makes. In
`PlatformUpload` five units in chunks of two give full chunks and a short last
one, and three sessions let one expire, be replaced and be resumed; `Window`
holds all progress messages of an upload, since with less every upload over
gRPC may stall, which `PlatformUpload_stall` shows with `Window = 1`. In
`ProviderRegistry` two resources of one name give a predecessor and a
successor, and two connections the registered one and that of a handshake. In
`BuildEngine` two builders give one that rewrites what the other reads. The
proofs lift these bounds for safety. Images are symmetric in
`BuildSlots_safety`; no symmetry is used with liveness. Deadlock is not checked
where an image or resource that is removed, or terminal with no request left,
rightly rests; `RemoteClients`, `PlatformUpload` and `BuildEngine` are checked
for it.

The modules without `TypeOK` in their run (`Uploader`, `RemoteClients`,
`PlatformUpload`, `BuildEngine`, `ProviderRegistry`) satisfy it in the same
instance, and it is proved for them.

Every property of a passing run has a mutant: a definition `Mut...` that
changes one mapped definition as a plausible slip would, and that TLC must
find to violate the property.

## Where code and documentation disagree

Two runs show a disagreement (entries under `findings`):

| Run | What happens |
|---|---|
| `PlatformUpload_stall` | with a window smaller than the progress of an upload, the adapter, which sends everything before it reads, and the provider wait for each other until the Job's deadline ends the Pod (`grpc/adapter.go:353`) |
| `BuildEngine_steps` | a shell step before an Ansible step: the shell step's `step-0/status.json` is read as the answer of the first sidecar, which is reported successful before it has run (`builder/provisioning.go:104`) |

The following are shown by the models as well; no run is kept for them. The
definition that fails and the constants that differ from the passing run of the
module are given.

- `BuildSlots`, `LimitEnforced`: after a build Job could not be created its slot
  is released (`reconciler.go:351`); the next reconcile may find the released
  Lease in the cache, accept it as its own (`scheduler.go:72`) and build beside
  the image that has the slot by now (`operator.md:171`, "Global slots enforce
  `--max-concurrent-builds`").
- `BuildSlots`, `DeletedImagesHoldNoSlot`, `MaxFaults = 0`: only Leases named in
  `status.buildLeaseRefs` are released (`scheduler.go:92`), and a Lease is
  recorded after its Job is created; an image deleted in between keeps it until
  it expires (`operator.md:173`, "Slots are released after build success,
  failure, timeout, or deletion.").
- `VMImage`, `StatusShowsOwnAttempt` without `obsRev \notin tokens`: a token used
  again adopts the old attempt's Jobs and results (`reconciler.go:350`;
  `ARCHITECTURE.md:367`, "old and new attempts cannot collide").
- `VMImage`, `RebuildsStart` without `obsGen # 0` in `RebuildDue`: a rebuild that
  is requested before an old status is migrated is recorded as observed and
  never built (`reconciler.go:167`).
- `VMImage`, `FailedLeavesNoPartialUpload`, `MaxGeneration = 1`: an upload Job
  that disappears or expires, or whose result cannot be read, fails the image
  without cleanup (`reconciler.go:837`, `:885`; `ARCHITECTURE.md:332`).
- `VMImage`, `DeletionCompletes` without `DeletionBlocked`: an upload whose AMI a
  failed cleanup had deregistered keeps the finalizer.
- `Uploader`, `CleanupLeavesNothing`, `MaxRestarts = 0`: an upload that was
  interrupted before it was recorded survives cleanup (`cmd/uploader/main.go:345`;
  `ARCHITECTURE.md:350`).
- `Uploader`, `UploadSettles` without its last disjunct: `deregisterImage` of an
  AMI that is gone is an error (`plugins/aws/plugin.go:1227`), so after a cleanup
  that failed behind it, at the snapshots, every cleanup Job fails
  (`provider-sdk.md:342`, "treat already-deleted resources as success").
- `RemoteBuild`, `FailedLeavesNoBuilder`: a failed lookup, an unhealthy
  provider, a rejected configuration or unreadable credentials fail the image
  while its builder runs (`reconciler.go:516`, `:520`, `:527`, `:574`, `:579`;
  `ARCHITECTURE.md:360`).
- `RemoteBuild`, `OnlyKnownLeft` without its exceptions: the images that Azure
  and OpenStack captured, the disk image of GCP and the server of OpenStack whose
  reference was lost (`plugins/gcp/plugin.go:417`), and a vSphere VM whose
  Destroy was refused outlive the VMImage (FR-043). An OpenStack server that a
  second one replaced (the "orphan") stays as well.
- `RemoteBuild`, `AttemptsConclude` and `DeletionCompletes` without
  `CleanupStuck`: an AMI whose hygiene check failed is deregistered and the
  image becomes Failed with the reference that names it, so its deletion fails
  at `DescribeImages` each time (`plugins/aws/remote_client.go:699`), as does
  every cleanup that stopped behind the deregistration. The reference of an AMI
  made from a snapshot cannot be parsed and blocks deletion likewise.
- `RemoteClients`, `CleanupConcludes`: the same of the AWS client by itself
  (`plugins/aws/remote_client.go:701`).
- `PlatformUpload`, `ImageIsArtifact` without `saved.token \notin cloud.torn`, for
  GCP: when GCS commits a part of a chunk, the rest is not sent again and the
  following data lands in its place (`plugins/gcp/plugin.go:659`;
  `ARCHITECTURE.md:290`).
- The same for Azure: a staging blob that expired is created anew, and if the new
  session is not checkpointed the old offset is resumed over zero pages
  (`plugins/azure/plugin.go:924`).
- `ProviderRegistry`, `SharedAdapterStaysOpen`: after a stale read the handshake
  is repeated and the entry replaced while a call uses the old adapter
  (`plugin/registry.go:120`; the comment at `vmimage/reconciler.go:1806`).
- `ProviderRegistry`, `CapabilitiesRefreshed`, `Misnamed = {}`: a new process
  answers on the old connection, and the adapter keeps the capabilities it read
  (`provider/reconciler.go:379`; `ARCHITECTURE.md:559`, "Provider pod restarts
  replace and close the old adapter").
- `BuildEngine`, `NoTransientStays`: an error before the clean-up is deferred
  (`qemu_iso_backend.go:182`) leaves seeds and generated credentials on the
  workspace (`operator.md:401`).

Further behaviours that the models contain and a reader may not expect:

- Deletion (`reconciler.go:1609`) and timeout (`:492`) give the slot back while
  the Job may still run. `BuildsWithinLimit` counts images entitled to a slot.
- A takeover (`scheduler.go:75`) deletes by what the cache showed. It reaches no
  live Lease of a sound claim (`LiveLeaseKept`): a cached copy that looks expired
  is of a Lease that did expire.
- The PVC is deleted after the terminal status is written (`:899`, `:1762`); a
  fault in between leaves it.
- The upload Job is deleted without waiting for its Pod (`:1634`), so the
  cleanup Job may run beside it.
- The backup of a damaged operations file is one checkpoint old
  (`cmd/uploader/main.go:814`); `ImageRecorded` is claimed for undamaged files.
- A provider that its health probe marks Unhealthy fails every remote build
  that is reconciled before it recovers (`reconciler.go:520`).
- AWS: an existing AMI of the name is taken in any state (`findLocalAMI`); a
  reference `aws:snapshot:...` cannot be parsed by cleanup; cleanup of a
  recorded image that is gone fails; a cleanup over gRPC aborts a multipart
  upload that was completed, and fails until the provider restarts.
- Azure: a failing cleanup after the image was captured loses the image's ID; a
  lost acknowledgement of the first session ends in "already exists without a
  matching resume token" at every retry (`plugins/azure/plugin.go:963`).
- OpenStack: a server whose creation is answered late stays.
- vSphere: a failed library deployment destroys an existing VM of the image's
  name (`remote_client.go:377`); without `MarkAsTemplate` a VM that runs or is
  gone may be reported ready (`:712`); without a reference cleanup looks for
  another name; a library item is created before its content and returned as it
  is on a retry (`plugin.go:667`); a disk deleted because its record could not
  be written is registered unchecked; cleanup of a missing file fails.
- External AWS, Azure, GCP and vSphere providers keep the results of uploads in
  memory (`SDKProvider`); after a restart `DeleteArtifact` answers "deleted"
  without deleting, which is why `CleanedTarget` leaves them out.
- A Deployment left by a predecessor keeps its owner
  (`provider/reconciler.go:183`) and is collected under its successor, which
  then makes a new one.
- Cloud-image builds ignore `spec.provisioners`, and `reconciler.go:430` reports
  them as succeeded (`git-provisioners.md:121`).
- Generated guest credentials are locked before `checkFinalImageHygiene` logs in
  with them (`qemu_iso_backend.go:244`), so in the model such a build does not
  succeed (`security.md:68`).
- A second call of the provisioner runner, for sysprep, starts again at step 0
  and replaces `provisioners-result.json`; of several sysprep steps the first
  is kept.
- A cache entry is copied without a second verification (`engine.go:347`); an
  entry removed meanwhile, or a failing write to the cache, fails the build.
- After a short last part AWS refuses to resume (`plugins/aws/plugin.go:859`): a
  Pod lost between the checkpoint and `CompleteMultipartUpload` makes every
  retry fail until the Job does.
- A raw disk that the conversion for GCE left behind when it failed stays on the
  workspace: its removal is deferred after it.
- The cleanup fallback of the uploader asks `os.IsNotExist` of a wrapped error
  (`cmd/uploader/main.go:504`), so a missing build result fails it.

## Fairness

- The work queue runs a due image again (rate-limited retry, requeue, watch):
  weak fairness of the reconcile's steps; strong for a `Start` of `BuildSlots`
  and the creation of a Job, since other images or a full set of slots disable
  them for a while.
- Jobs end: they carry `activeDeadlineSeconds`.
- Leases nobody renews expire; caches catch up; time passes.
- A cleanup that can succeed is not refused for ever (strong fairness, of steps
  whose guard excludes the cleanups that cannot: `Cleanable`, `CleanupStuck`,
  "deregistered"), and an unhealthy provider recovers. The code cannot guarantee
  this, and without it keeps the finalizer on purpose; the deletion properties
  are conditional on it. Nothing is assumed of a cleanup that cannot succeed.
- `VMImage`: fairness of Jobs and cleanup is that of the token the spec names. A
  finished cleanup Job exists for its TTL of an hour and the controller polls
  every 15 seconds, so it does not miss it each time (strong fairness of
  `FinishDelete` and `FailUpload`).
- An old status is migrated: a starting controller lists and reconciles every
  object.
- `RemoteClients`: the finalizer requeues cleanup, and a platform that can carry
  a deletion out does not refuse it for ever (strong fairness of a cleanup that
  succeeds).
- `PlatformUpload`: sender, receiver and plugin of a stream are goroutines that
  go on when they can (weak fairness); nothing else is assumed.
- `ProviderRegistry`: Reconcile is requeued and the watch goes on (weak
  fairness); `ProviderComesBack` has the rest as its premise.
- `BuildEngine`: the build containers take their steps and time passes; sidecars
  may hang, the guest may never stop, Pods may be lost.

Faults are bounded, so liveness is shown for behaviours in which the controller
is eventually left to work.

## Proofs

`BuildSlotsProofs`: `TypeCorrect`, `BuildHoldsItsSlot`, `LimitHolds` and
`LiveLeasesAreKept`, for any images, limit and number of faults, and caches as
old as they like. `BuildingHoldsSlot` is not inductive alone: the steps before
the status write must already hold what they will record. `SlotInv` adds that
one worker is active and what a reconcile under way is about (`Reconciling`),
that past acquisition it carries a slot whose Lease the image holds
(`CarriesSlot`, `RecreateSlot`), and `SoundLease`: of the Lease of a sound claim
the cache has either nothing yet or that very Lease. So a reader may miss the
Lease, and its create fails with AlreadyExists, but cannot see an older one,
take it for its own or find it expired. `LimitHolds` follows because the map
from such builds to the slots they hold is injective: a Lease has one holder.

`VMImageProofs`: `ImageTypeCorrect`, `ImageMeetsContract` (the refinement of
`ImageContract`), `StatusIsOwn`, `WorkspaceIsKept` and `FailedUploadIsCleaned`,
for any number of generations, tokens and faults, every retain policy, new
objects and old statuses. `CurrentInv` is inductive by itself: a reconcile under
way belongs to the phase it started in, and an attempt that has not ended is
that of the latest spec, since the webhook admits a change only in a terminal
phase. The rest is about names, relative to `Version` and `Token`, those of the
attempt whether or not the status names them yet. Nothing bears a token that no
attempt has had (`Taken`, `Untouched`), and what bears one that only this
attempt has had was made for it (`Provenance`), so adopting an existing Job or
PVC is safe, and garbage collection of older names does not reach the new
workspace (`WorkspaceReady`). `CleanupLast` with `PodKnown` says that no Pod of
the upload runs beside its cleanup Job or after it, unless the image is being
deleted. A token stays outside all this once a second attempt names it, which is
the `tokens` in the properties. What an attempt shows under a version that a
migration adopted is exempt as well (`StatusBegins`, `adopted`).

`UploaderProofs`: `UploaderTypeCorrect`, `SuccessIsComplete`,
`ImagesAreRecorded`, `CompletedNotRepeated` and `RegisteredStays`, for any
targets, lost Pods and damaged files. The core of `UploadInv` is an order on
sessions (`Covers`): the backup is never ahead of the file (`FilesOrdered`), and
a Pod's copy is never behind either (`PodAhead`), because a new Pod reads the
latest readable generation and no step takes a session back. So a session that
says "registered" is right wherever it is read (`RegisteredIsImage`), and a
target passed without a failure is registered (`TargetsDone`).
`ImagesAreRecorded` needs that the operation is on disk from before `Register`
on (`RecordedFirst`).

`RemoteClientsProofs`: `ClientsTypeCorrect`, `OnlyProvisionedCaptured`,
`ReadyBuildsAreComplete` and `CleanupIsThorough`, for all five providers, any
requests and any number of servers. `BuildInv` says that the cloud is at least
where the reference says (`Progress`): the provisioners up to its index have run
on its server, and only that server was captured, after the last of them.
Answers that are lost make the cloud run ahead of the reference, never behind.
What a reference may name differs by provider (`RefShape`, `CloudShape`: only
OpenStack has more than one server). Deletions are treated alike: whatever they
come to, they reduce the cloud (`Reduced`), which keeps `Progress`
(`ReducedSound`).

`PlatformUploadProofs`: `UploadTypeCorrect`, `CommittedOffsetIsStored`,
`RegisteredIsArtifact` and `CleanedTargetIsGone`, for all five plugins, linked
in or over gRPC, and artifacts, chunks, windows and numbers of sessions of any
size. `CommittedIsStored` speaks of the record on the workspace, which a message
under way may still change, and the message of what the Pod has reached.
`StoreInv` orders all of them: record, messages, Pod, backend, each at or behind
the next, and the backend holds the artifact's own units up to the Pod's offset
(`PartsInv`, `BlobInv`, `TransferInv`), in every session that is not torn. So
any of them may be lost and the next Pod begins at an offset the backend has; a
full session is the artifact (`FullIsArtifact`), and objects, snapshots and
images made of intact ones are the artifact, whatever was torn before.
`CleanInv` is about the cleanup Job: "ok" of each plugin means that the recorded
object and image are gone, and no later step brings them back.

`RemoteBuildProofs`: `RemoteTypeCorrect`, `RetriesStayInBudget`,
`RemoteMeetsContract`, `DeletionIsClean` and `FailureIsClean`, for every kind of
provider, every timeout and delay. `RemoteInv` says that a reconcile under way
belongs to the current attempt (`ReconcileCurrent`), so that neither a rebuild
nor a removal comes between its steps, that nothing exists of an attempt before
the status names it (`Untouched`), and that each retry in a row is due later
than the one before (`RetriesApart`), which bounds their number by the timeout.
`NothingLeft` says that what a reconcile has cleaned is still clean when it
writes the status, with the reference that it used. The lemma
`RetryDelayBounds` is the arithmetic of `retryRemoteBuild`.

`ProviderRegistryProofs`: `NoAdapterLeaks` and `EntriesAreUsable`, for any
number of resources, packages, connections and changes. Neither is inductive:
a Reconcile works on what it read, and by the time it registers an adapter the
resource might be another. `RegistryInv` adds why it is not: what was ever to be
installed has the finalizer, so it cannot be gone before a Reconcile that saw it
deleted has removed its entry (`EntryInv`); a cached resource that is not being
deleted and has the finalizer is the one that exists, however old the cache
(`CacheInv`); and a Reconcile under way is about that one and, between the
handshake and the registration, holds a connection of its own (`RecInv`). The
lemma `Deregistered` says what `DeregisterExternal` leaves; `EndsUnregistered`
covers all the ways a Reconcile ends in Unhealthy.

`BuildEngineProofs`: `SourcesAreVerified` and `NoTransientsRemain`, for any
builders, manifests, modes and restarts. `SourceVerified` is about the end of a
copy; `FetchInv` follows a fetch there: a builder that verified an entry, and
has not been shaken by a writer, copies a file that is whole, whether its name
still exists or not, and the entry is "sound" only when its last writer
finished. `IsoInv` says which files exist at which stage and which function that is
deferred by then removes them (`Covered`), that errors before the first of them
come before the guest is started, and that QEMU runs only between its start and
the end of the build. `NoTransientsRemain` follows because the functions that
run at the end take away all there is, though no single one does.

The same module has `EngineTypeCorrect`, and `StepsAreInOrder` for every set of
manifests. The runner puts a sidecar's step into the directory of that sidecar's
number, and any other step into the directory of its place in the run. Where no
step of the builder comes before it, a sidecar's step has the same number by
both counts and a directory of its own; a step of the builder before it writes
its files into the directory of a sidecar. Those steps are the `Displaced`, of
which `StepsInOrder` claims nothing, and everything else is claimed beside them;
`BuildEngine_steps` shows what becomes of them. The inductive invariant is
`TypeInv /\ StepsInv`. No step was carried out before
the one it follows (`Ordered`), which holds because whatever is written for a
sidecar or known to one is due (`HandedOut`); a success that was collected or
written to the result is that of a step carried out (`Truthful`); while the
provisioners before sysprep run, sidecar and directory of a step that is not
displaced hold that step and no other, and an answer of success means that it
was carried out (`Served`, which a restart of a sidecar must not break); the
steps a run has passed have been carried out, and each stage of the build knows
which of its two runs, before sysprep and sysprep, are complete (`Progress`,
`RunShape`). What the selection of steps by kind returns, exactly the steps of
those kinds in their order (`SelectChosen`), is needed for every manifest and
proved by induction over its length: `NatInd`, from the least element of a set
of naturals (`LeastNat`), is stated about sets, since the provers cannot
instantiate an induction rule about operators.

The constants are assumed to be what the code makes them: sizes and the number
of restarts are natural numbers, modes Boolean; the two marks of an unreadable
file are not contents of one (`FileAssumption`); a remote request has a list of provisioners of the four
types, and its provider is one of the five (`RequestsAssumption`).

Model-checked only: liveness (`QueuedImagesProgress`, `AttemptsConclude`,
`RebuildsStart`, `DeletionCompletes`, `UploadSettles`, `OthersConclude`,
`ProviderComesBack`, `BuildsEnd`), which is out of the prover's reach, and the
two violations.

## Not modelled

Pod specifications, validation of single objects, address and signature checks,
the contents of images, the commands sent to guests, the tools that provisioners
run, network policy, metrics and events, and generated code (protobuf messages,
deep copies). They are data or single-step functions to the properties here.
A stale cached VMImage (as opposed to a stale Lease or PlatformProvider) is not
modelled: its status write would conflict, but the calls before it are not
interleaved. The cleanup fallback without any operations file is left out of
`Uploader`. `RemoteClients` follows one attempt; `RemoteBuild`'s provider is its
abstraction by hand, not by a refinement.

## Plan

1. `VMImage` with stale reads of its own status; `Uploader`'s cleanup fallback.
2. A provider abstraction that `RemoteBuild` and the clients share, with the
   refinement for each of the clients.
