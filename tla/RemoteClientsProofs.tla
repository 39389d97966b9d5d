------------------------ MODULE RemoteClientsProofs ------------------------
(***************************************************************************)
(* Proofs about the remote builds of the five cloud providers: an image is *)
(* made only of a provisioned server, a build called ready is complete,    *)
(* and a cleanup that returns no error left nothing.                       *)
(*                                                                         *)
(* The controller drives a build only by the reference it saved, so the    *)
(* argument relates that reference to what the cloud holds. BuildInv says  *)
(* that the cloud is at least where the reference says it is: the          *)
(* provisioners up to its index have run on its server, and nothing was    *)
(* captured before the last of them. It is kept by every call of every     *)
(* provider, by calls whose answer is lost after their work was done, and  *)
(* by what the platform does on its own.                                   *)
(***************************************************************************)
EXTENDS RemoteClients, TLAPS

(* A build that makes an image of its source without a server.             *)
WithoutServer(k, q) ==
  k = "gcp" \/ (k = "aws" /\ q.source = "snapshot") \/ (k = "azure" /\ AzureDirect(q))

(* The references a request can have: an index never passes its            *)
(* provisioners.                                                           *)
References(q) ==
  [vm : Servers \cup {0}, image : Servers \cup {0}, index : 0 .. Len(q.steps),
   command : BOOLEAN, evidence : {"none", "passed", "failed"}, direct : BOOLEAN]

(* The states of the cloud during a build for a request: only the          *)
(* request's own provisioners run.                                         *)
Clouds(q) ==
  [vm : [Servers -> VMStates], ran : [Servers -> SUBSET DOMAIN q.steps],
   command : {"none", "running", "succeeded", "failed"},
   disk : BOOLEAN, captured : SUBSET Servers, image : [Servers -> ImageStates],
   snapshots : SUBSET Servers]

(* What a reference names: only OpenStack makes a second server, and a     *)
(* provisioner or an image comes after a server.                           *)
RefShape(k, q, r) ==
  /\ r \in References(q)
  /\ k # "openstack" => r.vm \in {0, 1}
  /\ r.vm = 0 => /\ r.index = 0 /\ ~r.command /\ r.evidence = "none"
                 /\ r.image # 0 => k = "gcp"
  /\ WithoutServer(k, q) => r.vm = 0
  /\ r.direct => WithoutServer(k, q)

(* Only OpenStack has a server beside the first, and a build without a     *)
(* server has neither server nor scratch disk.                             *)
CloudShape(k, q, c) ==
  /\ c \in Clouds(q)
  /\ k # "openstack" => \A s \in Servers \ {1} : c.vm[s] = "none"
  /\ WithoutServer(k, q) => ~c.disk /\ \A s \in Servers : c.vm[s] = "none"

(* The cloud is at least where the reference says: the provisioners up to  *)
(* its index have run on its server, and an image was made only of that    *)
(* server and after all of them.                                           *)
Progress(k, q, c, r) ==
  /\ r.vm # 0 => 1 .. r.index \subseteq c.ran[r.vm]
  /\ k = "aws" /\ r.command /\ c.command = "succeeded" => r.index + 1 \in c.ran[1]
  /\ k = "aws" /\ c.command = "running" => r.index < Len(q.steps)
  /\ c.captured \subseteq {r.vm}
  /\ c.captured # {} => /\ r.index >= Len(q.steps)
                        /\ k = "azure" /\ q.evidence => r.evidence = "passed"

(* The cloud is well formed, and at least as far as the reference says.    *)
Sound(k, q, c, r) == CloudShape(k, q, c) /\ Progress(k, q, c, r)

(* Two references to the same point of the same build: they may differ in  *)
(* the image only.                                                         *)
SameBuild(r, t) ==
  r.vm = t.vm /\ r.index = t.index /\ r.command = t.command /\ r.evidence = t.evidence

(* What a build must have reached when its provider calls it ready.        *)
Complete(k, q, c, r) ==
  IF k = "vsphere"
    THEN q.settings.template => r.vm # 0 /\ c.vm[r.vm] = "stopped"
    ELSE \/ k = "aws" /\ r.direct
         \/ /\ c.image[IF r.direct THEN 1 ELSE r.image] = "available"
            /\ r.vm # 0 => ~Live(c, r.vm)

(* What a cleanup that reported no error must have removed, given the      *)
(* reference saved with the image.                                         *)
Clean(k, q, c, r) ==
  /\ k \in {"aws", "azure"} => \A s \in Servers : ~Live(c, s)
  /\ k = "aws" /\ q.source # "snapshot" => c.image[1] = "none"
  /\ k = "azure" => ~c.disk
  /\ k = "openstack" /\ r.vm # 0 => ~Live(c, r.vm)
  /\ k = "gcp" /\ r.image # 0 => c.image[1] = "none"

(* The inductive invariant: the caller's reference and the saved one agree *)
(* on the server and the provisioners, the cloud is at least where they    *)
(* say, a ready build is complete and a cleaned one is clean.              *)
BuildInv ==
  /\ kind \in Kinds /\ request \in Requests
  /\ mode \in {"building", "ready", "failing", "cleaning", "cleaned"}
  /\ RefShape(kind, request, ref) /\ RefShape(kind, request, saved)
  /\ SameBuild(ref, saved) /\ (saved.image # 0 => ref.image # 0)
  /\ Sound(kind, request, cloud, ref)
  /\ mode = "ready" => Complete(kind, request, cloud, ref)
  /\ mode = "cleaned" => Clean(kind, request, cloud, saved)

-----------------------------------------------------------------------------

(* Setting a server's state changes nothing else of the cloud.             *)
LEMMA VMSet ==
  ASSUME NEW q, NEW c \in Clouds(q), NEW s \in Servers, NEW x \in VMStates
  PROVE  LET d == [c EXCEPT !.vm[s] = x] IN
         /\ d \in Clouds(q)
         /\ d.vm = [c.vm EXCEPT ![s] = x]
         /\ d.ran = c.ran /\ d.captured = c.captured /\ d.command = c.command
         /\ d.image = c.image /\ d.disk = c.disk
BY DEF Clouds

(* Running a provisioner changes only what ran on its server.              *)
LEMMA StepRan ==
  ASSUME NEW q, NEW c \in Clouds(q), NEW s \in Servers, NEW i \in DOMAIN q.steps
  PROVE  LET d == Ran(c, s, i) IN
         /\ d \in Clouds(q)
         /\ d.ran = [c.ran EXCEPT ![s] = @ \cup {i}]
         /\ d.vm = c.vm /\ d.captured = c.captured /\ d.command = c.command
         /\ d.image = c.image /\ d.disk = c.disk
BY DEF Clouds, Ran

(* Setting an image's state changes nothing else of the cloud.             *)
LEMMA ImageSet ==
  ASSUME NEW q, NEW c \in Clouds(q), NEW s \in Servers, NEW x \in ImageStates
  PROVE  LET d == [c EXCEPT !.image[s] = x] IN
         /\ d \in Clouds(q)
         /\ d.image = [c.image EXCEPT ![s] = x]
         /\ d.vm = c.vm /\ d.ran = c.ran /\ d.captured = c.captured
         /\ d.command = c.command /\ d.disk = c.disk
BY DEF Clouds

(* The fields of the outcome of a call.                                    *)
LEMMA OutcomeFields ==
  ASSUME NEW c, NEW ok
  PROVE  Outcome(c, ok).cloud = c /\ Outcome(c, ok).ok = ok
BY DEF Outcome

-----------------------------------------------------------------------------

(* A cloud that a cleanup may leave of another one: nothing comes to life  *)
(* and no provisioner or capture is forgotten.                             *)
Reduced(q, c, d) ==
  /\ d \in Clouds(q)
  /\ d.ran = c.ran /\ d.captured = c.captured /\ d.command = c.command
  /\ \A s \in Servers : d.vm[s] = c.vm[s] \/ (Live(c, s) /\ d.vm[s] = "gone")
  /\ d.disk => c.disk

(* A cleanup may leave everything.                                         *)
LEMMA ReducedSame ==
  ASSUME NEW q, NEW c \in Clouds(q)
  PROVE  Reduced(q, c, c)
BY DEF Reduced

(* Two cleanups after one another are one cleanup.                         *)
LEMMA ReducedTwice ==
  ASSUME NEW q, NEW c, NEW d, NEW e, Reduced(q, c, d), Reduced(q, d, e)
  PROVE  Reduced(q, c, e)
BY DEF Reduced, Live

(* Whatever a cleanup leaves, the cloud stays at least where the reference *)
(* says.                                                                   *)
LEMMA ReducedSound ==
  ASSUME NEW k, NEW q, NEW c, NEW d, NEW r, Sound(k, q, c, r), Reduced(q, c, d)
  PROVE  Sound(k, q, d, r)
<1>1. CloudShape(k, q, d)
  BY DEF Sound, CloudShape, Reduced, Live
<1>2. Progress(k, q, d, r)
  BY DEF Sound, Progress, Reduced
<1> QED BY <1>1, <1>2 DEF Sound

(* Deleting a server only reduces the cloud; the server is gone when no    *)
(* error is reported.                                                      *)
LEMMA ServerDeleted ==
  ASSUME NEW q, NEW c \in Clouds(q), NEW s \in Servers, NEW o \in DeleteServer(c, s)
  PROVE  /\ Reduced(q, c, o.cloud)
         /\ o.ok => ~Live(o.cloud, s)
         /\ o.cloud.image = c.image /\ o.cloud.disk = c.disk
<1>1. "gone" \in VMStates
  BY DEF VMStates
<1>2. CASE o.cloud = c /\ (o.ok => ~Live(c, s))
  BY <1>2, ReducedSame
<1>3. CASE o.cloud = Deleted(c, s) /\ Live(c, s)
  <2>1. /\ o.cloud \in Clouds(q) /\ o.cloud.vm = [c.vm EXCEPT ![s] = "gone"]
        /\ o.cloud.ran = c.ran /\ o.cloud.captured = c.captured
        /\ o.cloud.command = c.command
        /\ o.cloud.image = c.image /\ o.cloud.disk = c.disk
    BY <1>1, <1>3, VMSet DEF Deleted
  <2>2. c.vm \in [Servers -> VMStates]
    BY DEF Clouds
  <2> QED BY <1>3, <2>1, <2>2 DEF Reduced, Live
<1>4. CASE o = Outcome(c, FALSE)
  <2>1. o.cloud = c /\ o.ok = FALSE
    BY <1>4, OutcomeFields
  <2> QED BY <1>2, <2>1
<1>5. CASE o = Outcome(IF Live(c, s) THEN Deleted(c, s) ELSE c, TRUE)
  <2>1. o.cloud = IF Live(c, s) THEN Deleted(c, s) ELSE c
    BY <1>5, OutcomeFields
  <2> QED BY <1>2, <1>3, <2>1
<1> QED
  BY <1>4, <1>5 DEF DeleteServer

(* A cleanup step that is skipped changes nothing and reports no error.    *)
LEMMA SkipFields ==
  ASSUME NEW c, NEW o \in Skip(c)
  PROVE  o.cloud = c /\ o.ok = TRUE
BY OutcomeFields DEF Skip

-----------------------------------------------------------------------------

(* What the cloud owes a reference depends on the server, the provisioners *)
(* and the evidence, not on the image.                                     *)
LEMMA SameProgress ==
  ASSUME NEW k, NEW q, NEW c, NEW r, NEW t, SameBuild(r, t), Sound(k, q, c, r)
  PROVE  Sound(k, q, c, t)
BY DEF SameBuild, Sound, Progress

(* The parts of the invariant the actions use, and the types they need.    *)
LEMMA InvFacts ==
  ASSUME BuildInv
  PROVE  /\ cloud \in Clouds(request) /\ Sound(kind, request, cloud, ref)
         /\ Sound(kind, request, cloud, saved)
         /\ RefShape(kind, request, ref) /\ RefShape(kind, request, saved)
         /\ ref \in References(request) /\ saved \in References(request)
         /\ ref.vm = saved.vm /\ SameBuild(ref, ref)
         /\ request.steps \in Seq(Provisioners) /\ Len(request.steps) \in Nat
         /\ DOMAIN request.steps = 1 .. Len(request.steps)
<1>1. request.steps \in Seq(Provisioners)
  BY RequestsAssumption DEF BuildInv
<1> QED
  BY <1>1, SameProgress DEF BuildInv, Sound, CloudShape, RefShape, SameBuild

(* An answer keeps the invariant when the cloud is sound for the old       *)
(* reference and for the new one; the new one is lost when the status is   *)
(* not saved.                                                              *)
LEMMA AnswerKeeps ==
  ASSUME BuildInv, mode = "building", NEW c, NEW r, Answer(c, r),
         RefShape(kind, request, r),
         Sound(kind, request, c, ref), Sound(kind, request, c, r)
  PROVE  BuildInv'
<1>1. cloud' = c /\ kind' = kind /\ request' = request /\ mode' = "building"
  BY DEF Answer
<1>2. ref' = saved' /\ saved' \in {r, saved}
  BY DEF Answer
<1>3. Sound(kind, request, c, saved) /\ SameBuild(saved', saved')
  BY SameProgress DEF BuildInv, SameBuild
<1>4. RefShape(kind, request, saved') /\ Sound(kind, request, c, saved')
  BY <1>2, <1>3 DEF BuildInv
<1> QED
  BY <1>1, <1>2, <1>3, <1>4 DEF BuildInv

(* An error keeps the invariant when the cloud it leaves is sound for the  *)
(* reference the caller still has.                                         *)
LEMMA ErrorKeeps ==
  ASSUME BuildInv, mode = "building", NEW c, Error(c) \/ Terminal(c),
         Sound(kind, request, c, ref)
  PROVE  BuildInv'
<1>1. /\ cloud' = c /\ mode' \in {"building", "failing"}
      /\ kind' = kind /\ request' = request /\ ref' = ref /\ saved' = saved
  BY DEF Error, Terminal
<1> QED
  BY <1>1 DEF BuildInv

(* The same for an error after which the provider cleans up itself: its    *)
(* cleanup only reduces the cloud.                                         *)
LEMMA ErrorAfterKeeps ==
  ASSUME BuildInv, mode = "building", NEW c, NEW outcomes, ErrorAfter(outcomes),
         Sound(kind, request, c, ref),
         \A o \in outcomes : Reduced(request, c, o.cloud)
  PROVE  BuildInv'
<1>1. PICK o \in outcomes : Error(o.cloud)
  BY DEF ErrorAfter
<1>2. Sound(kind, request, o.cloud, ref)
  BY ReducedSound
<1> QED
  BY <1>1, <1>2, ErrorKeeps

(* Calling a build ready keeps the invariant when the build is complete.   *)
LEMMA DoneKeeps ==
  ASSUME BuildInv, mode = "building", NEW c, NEW r, Done(c, r),
         RefShape(kind, request, r), SameBuild(r, ref),
         saved.image # 0 => r.image # 0,
         Sound(kind, request, c, ref), Complete(kind, request, c, r)
  PROVE  BuildInv'
<1>1. cloud' = c /\ kind' = kind /\ request' = request
  BY DEF Done
<1>2. Sound(kind, request, c, r) /\ Sound(kind, request, c, saved)
      /\ SameBuild(r, saved) /\ SameBuild(r, r)
  BY SameProgress DEF BuildInv, SameBuild
<1>3. \/ ref' = r /\ saved' = saved /\ mode' = "failing"
      \/ ref' = r /\ saved' = r /\ mode' = "ready"
      \/ ref' = ref /\ saved' = saved /\ mode' = mode
  BY DEF Done
<1> QED
  BY <1>1, <1>2, <1>3 DEF BuildInv

(* The return of a cleanup keeps the invariant when no error means that    *)
(* all is removed.                                                         *)
LEMMA CleanupReturnsKeeps ==
  ASSUME BuildInv, mode \in {"failing", "cleaning"}, NEW c, NEW ok,
         CleanupReturns(c, ok), Sound(kind, request, c, ref),
         ok => Clean(kind, request, c, saved)
  PROVE  BuildInv'
<1>1. /\ cloud' = c /\ kind' = kind /\ request' = request
      /\ ref' = saved /\ saved' = saved
  BY DEF CleanupReturns
<1>2. Sound(kind, request, c, saved) /\ SameBuild(saved, saved)
  BY SameProgress DEF BuildInv, SameBuild
<1>3. mode' \in {"building", "cleaning"} \/ (mode' = "cleaned" /\ ok)
  BY DEF CleanupReturns
<1> QED
  BY <1>1, <1>2, <1>3 DEF BuildInv

-----------------------------------------------------------------------------

(* A server's own changes of state keep the cloud sound.                   *)
LEMMA VMSound ==
  ASSUME NEW k, NEW q, NEW c, NEW r, Sound(k, q, c, r),
         NEW s \in Servers, NEW x \in VMStates,
         \/ c.vm[s] # "none"
         \/ ~WithoutServer(k, q) /\ (k = "openstack" \/ s = 1)
  PROVE  Sound(k, q, [c EXCEPT !.vm[s] = x], r)
<1> DEFINE d == [c EXCEPT !.vm[s] = x]
<1>0. c \in Clouds(q) /\ c.vm \in [Servers -> VMStates]
  BY DEF Sound, CloudShape, Clouds
<1>1. /\ d \in Clouds(q) /\ d.vm = [c.vm EXCEPT ![s] = x]
      /\ d.ran = c.ran /\ d.captured = c.captured /\ d.command = c.command
      /\ d.disk = c.disk
  BY <1>0, VMSet
<1> HIDE DEF d
<1>2. CloudShape(k, q, d)
  BY <1>0, <1>1 DEF Sound, CloudShape
<1>3. Progress(k, q, d, r)
  BY <1>1 DEF Sound, Progress
<1>4. Sound(k, q, d, r)
  BY <1>2, <1>3 DEF Sound
<1> QED BY <1>4 DEF d

(* A new server starts with no provisioner, and no reference names it yet: *)
(* the cloud stays sound.                                                  *)
LEMMA MadeSound ==
  ASSUME NEW k, NEW q, NEW c, NEW r, Sound(k, q, c, r), RefShape(k, q, r), r.vm = 0,
         NEW s \in Servers, NEW x \in VMStates,
         ~WithoutServer(k, q), k = "openstack" \/ s = 1
  PROVE  /\ Sound(k, q, [c EXCEPT !.vm[s] = x, !.ran[s] = {}], r)
         /\ c.captured = {}
<1> DEFINE d == [c EXCEPT !.vm[s] = x, !.ran[s] = {}]
<1>0. c \in Clouds(q) /\ c.vm \in [Servers -> VMStates] /\ c.captured \in SUBSET Servers
  BY DEF Sound, CloudShape, Clouds
<1>1. /\ d \in Clouds(q) /\ d.vm = [c.vm EXCEPT ![s] = x]
      /\ d.captured = c.captured /\ d.command = c.command /\ d.disk = c.disk
  BY <1>0 DEF Clouds
<1> HIDE DEF d
<1>2. CloudShape(k, q, d)
  BY <1>0, <1>1 DEF Sound, CloudShape
<1>3. Progress(k, q, d, r)
  BY <1>1 DEF Sound, Progress, RefShape
<1>4. Sound(k, q, d, r)
  BY <1>2, <1>3 DEF Sound
<1>5. c.captured = {}
  BY <1>0, ServersAssumption DEF Sound, Progress
<1> QED BY <1>4, <1>5 DEF d

(* A provisioner that ran keeps the cloud sound and is recorded on its     *)
(* server.                                                                 *)
LEMMA RanSound ==
  ASSUME NEW k, NEW q, NEW c, NEW r \in References(q), Sound(k, q, c, r),
         NEW s \in Servers, NEW i \in DOMAIN q.steps
  PROVE  Sound(k, q, Ran(c, s, i), r) /\ i \in Ran(c, s, i).ran[s]
<1> DEFINE d == Ran(c, s, i)
<1>0. c \in Clouds(q) /\ c.ran \in [Servers -> SUBSET DOMAIN q.steps]
  BY DEF Sound, CloudShape, Clouds
<1>1. /\ d \in Clouds(q) /\ d.ran = [c.ran EXCEPT ![s] = @ \cup {i}]
      /\ d.vm = c.vm /\ d.captured = c.captured /\ d.command = c.command
      /\ d.disk = c.disk
  BY <1>0, StepRan
<1> HIDE DEF d
<1>2. i \in d.ran[s] /\ \A t \in Servers : c.ran[t] \subseteq d.ran[t]
  BY <1>0, <1>1
<1>3. r.vm # 0 => r.vm \in Servers
  BY DEF References
<1>4. CloudShape(k, q, d)
  BY <1>1 DEF Sound, CloudShape
<1>5. Progress(k, q, d, r)
  BY <1>1, <1>2, <1>3, ServersAssumption DEF Sound, Progress
<1>6. Sound(k, q, d, r)
  BY <1>4, <1>5 DEF Sound
<1> QED BY <1>2, <1>6 DEF d

(* Once the next provisioner has run, the cloud is sound for the reference *)
(* that names it.                                                          *)
LEMMA NextStepSound ==
  ASSUME NEW k, NEW q, NEW c, NEW r, NEW t, Sound(k, q, c, r), RefShape(k, q, r),
         NEW s \in Servers, r.vm = s, r.index < Len(q.steps), Len(q.steps) \in Nat,
         r.index + 1 \in c.ran[s],
         t.vm = s, t.index = r.index + 1, t.command = FALSE,
         k = "aws" => c.command # "running"
  PROVE  Sound(k, q, c, t)
<1>1. r.index \in Nat
  BY DEF RefShape, References
<1>2. 1 .. r.index \subseteq c.ran[s] /\ c.captured = {}
  BY <1>1, ServersAssumption DEF Sound, Progress
<1>3. 1 .. t.index \subseteq c.ran[s]
  BY <1>1, <1>2
<1>4. Progress(k, q, c, t)
  BY <1>1, <1>2, <1>3 DEF Progress
<1> QED BY <1>4 DEF Sound

(* Capturing the server of the reference is sound after its last           *)
(* provisioner, with the evidence passed where Azure asks for it.          *)
LEMMA CapturedSound ==
  ASSUME NEW k, NEW q, NEW c, NEW r, Sound(k, q, c, r),
         NEW s \in Servers, NEW x \in ImageStates, r.vm = s,
         r.index >= Len(q.steps), k = "azure" /\ q.evidence => r.evidence = "passed"
  PROVE  Sound(k, q, Captured(c, s, x), r)
<1> DEFINE d == Captured(c, s, x)
<1>0. c \in Clouds(q)
  BY DEF Sound, CloudShape
<1>1. /\ d \in Clouds(q) /\ d.captured = c.captured \cup {s}
      /\ d.vm = c.vm /\ d.ran = c.ran /\ d.command = c.command /\ d.disk = c.disk
  BY <1>0 DEF Clouds, Captured
<1> HIDE DEF d
<1>2. CloudShape(k, q, d)
  BY <1>1 DEF Sound, CloudShape
<1>3. Progress(k, q, d, r)
  BY <1>1 DEF Sound, Progress
<1>4. Sound(k, q, d, r)
  BY <1>2, <1>3 DEF Sound
<1> QED BY <1>4 DEF d

(* A cloud that differs in its images and its snapshots only is as sound.  *)
LEMMA AlikeSound ==
  ASSUME NEW k, NEW q, NEW c, NEW d \in Clouds(q), NEW r, Sound(k, q, c, r),
         d.vm = c.vm, d.ran = c.ran, d.captured = c.captured,
         d.command = c.command, d.disk => c.disk
  PROVE  Sound(k, q, d, r)
<1>1. CloudShape(k, q, d)
  BY DEF Sound, CloudShape
<1>2. Progress(k, q, d, r)
  BY DEF Sound, Progress
<1> QED BY <1>1, <1>2 DEF Sound

-----------------------------------------------------------------------------
(* AWS                                                                     *)

(* AWS deletes the image and then its snapshots, in that order: no error   *)
(* means that the image is gone.                                           *)
LEMMA ImageCleaned ==
  ASSUME NEW q, NEW c \in Clouds(q), NEW i \in Servers,
         NEW o \in cleanupRemoteImage(c, i)
  PROVE  /\ Reduced(q, c, o.cloud) /\ o.cloud.vm = c.vm
         /\ o.ok => o.cloud.image[i] = "none"
<1> DEFINE d == [c EXCEPT !.image[i] = "none"]
           e == [c EXCEPT !.image[i] = "none", !.snapshots = @ \ {i}]
<1>0. "none" \in ImageStates
  BY DEF ImageStates
<1>1. /\ d \in Clouds(q) /\ d.vm = c.vm /\ d.ran = c.ran /\ d.captured = c.captured
      /\ d.command = c.command /\ d.disk = c.disk
  BY <1>0 DEF Clouds
<1>2. /\ e \in Clouds(q) /\ e.vm = c.vm /\ e.ran = c.ran /\ e.captured = c.captured
      /\ e.command = c.command /\ e.disk = c.disk /\ e.image[i] = "none"
  BY <1>0 DEF Clouds
<1> HIDE DEF d, e
<1>3. Reduced(q, c, c) /\ Reduced(q, c, d) /\ Reduced(q, c, e)
  BY <1>1, <1>2 DEF Reduced
<1>4. CASE o = Outcome(c, FALSE) \/ o = Outcome(d, FALSE)
  <2>1. (o.cloud = c \/ o.cloud = d) /\ o.ok = FALSE
    BY <1>4 DEF Outcome
  <2> QED BY <1>1, <1>3, <2>1
<1>5. CASE o = Outcome(e, TRUE)
  <2>1. o.cloud = e
    BY <1>5, OutcomeFields
  <2> QED BY <1>2, <1>3, <2>1
<1> QED
  BY <1>4, <1>5 DEF cleanupRemoteImage, d, e

(* AWS cleaning by reference only reduces the cloud.                       *)
LEMMA BuildCleaned ==
  ASSUME BuildInv, NEW c \in Clouds(request), NEW o \in cleanupRemoteBuild(c)
  PROVE  Reduced(request, c, o.cloud)
<1>0. ref.vm \in Servers \cup {0} /\ ref.image \in Servers \cup {0}
  BY InvFacts DEF References
<1>1. PICK image \in IF ref.image # 0 THEN cleanupRemoteImage(c, ref.image)
                                      ELSE Skip(c) :
        \E vm \in IF ref.vm # 0 THEN TerminateInstances(image.cloud, ref.vm)
                                ELSE Skip(image.cloud) :
          o = Outcome(vm.cloud, image.ok /\ vm.ok)
  BY DEF cleanupRemoteBuild
<1>2. PICK vm \in IF ref.vm # 0 THEN TerminateInstances(image.cloud, ref.vm)
                                ELSE Skip(image.cloud) :
        o = Outcome(vm.cloud, image.ok /\ vm.ok)
  BY <1>1
<1>3. Reduced(request, c, image.cloud)
  BY <1>0, ImageCleaned, SkipFields, ReducedSame
<1>4. image.cloud \in Clouds(request)
  BY <1>3 DEF Reduced
<1>5. Reduced(request, image.cloud, vm.cloud)
  BY <1>0, <1>4, ServerDeleted, SkipFields, ReducedSame DEF TerminateInstances
<1>6. o.cloud = vm.cloud
  BY <1>2, OutcomeFields
<1> QED
  BY <1>3, <1>5, <1>6, ReducedTwice

(* AWS cleaning by BuildID: no error means that the instance is gone and,  *)
(* unless the source was a snapshot, the image too.                        *)
LEMMA ResourcesCleaned ==
  ASSUME NEW c \in Clouds(request), NEW o \in cleanupRemoteResourcesByBuildID(c)
  PROVE  /\ Reduced(request, c, o.cloud)
         /\ o.ok => /\ ~Live(o.cloud, 1)
                    /\ request.source # "snapshot" => o.cloud.image[1] = "none"
<1>0. 1 \in Servers
  BY ServersAssumption
<1>1. PICK vm \in IF Live(c, 1) THEN TerminateInstances(c, 1) ELSE Skip(c) :
        \E image \in IF findExistingRemoteImage(vm.cloud)
                       THEN cleanupRemoteImage(vm.cloud, 1) ELSE Skip(vm.cloud) :
          o = Outcome(image.cloud, vm.ok /\ image.ok)
  BY DEF cleanupRemoteResourcesByBuildID
<1>2. PICK image \in IF findExistingRemoteImage(vm.cloud)
                       THEN cleanupRemoteImage(vm.cloud, 1) ELSE Skip(vm.cloud) :
        o = Outcome(image.cloud, vm.ok /\ image.ok)
  BY <1>1
<1>3. Reduced(request, c, vm.cloud) /\ (vm.ok => ~Live(vm.cloud, 1))
  BY <1>0, ServerDeleted, SkipFields, ReducedSame DEF TerminateInstances
<1>4. vm.cloud \in Clouds(request)
  BY <1>3 DEF Reduced
<1>5. CASE findExistingRemoteImage(vm.cloud)
  <2>1. /\ Reduced(request, vm.cloud, image.cloud) /\ image.cloud.vm = vm.cloud.vm
        /\ image.ok => image.cloud.image[1] = "none"
    BY <1>0, <1>4, <1>5, ImageCleaned
  <2>2. o.cloud = image.cloud /\ o.ok = (vm.ok /\ image.ok)
    BY <1>2, OutcomeFields
  <2> QED
    BY <1>3, <2>1, <2>2, ReducedTwice DEF Live
<1>6. CASE ~findExistingRemoteImage(vm.cloud)
  <2>1. image.cloud = vm.cloud
    BY <1>6, SkipFields
  <2>2. o.cloud = image.cloud /\ o.ok = (vm.ok /\ image.ok)
    BY <1>2, OutcomeFields
  <2> QED
    BY <1>3, <1>6, <2>1, <2>2 DEF findExistingRemoteImage
<1> QED BY <1>5, <1>6

(* failRemoteBuild cleans and reports the build failed, which keeps the    *)
(* invariant.                                                              *)
LEMMA FailedBuildKeeps ==
  ASSUME BuildInv, mode = "building", NEW c, Sound(kind, request, c, ref),
         failRemoteBuild(c)
  PROVE  BuildInv'
<1>1. PICK o \in cleanupRemoteBuild(c) : Terminal(o.cloud)
  BY DEF failRemoteBuild
<1>2. c \in Clouds(request)
  BY DEF Sound, CloudShape
<1>3. Sound(kind, request, o.cloud, ref)
  BY <1>2, BuildCleaned, ReducedSound
<1> QED
  BY <1>1, <1>3, ErrorKeeps

(* AWS's Cleanup keeps the invariant: what it reports as cleaned is clean. *)
LEMMA AWSCleanupKeeps ==
  ASSUME BuildInv, AWSCleanup
  PROVE  BuildInv'
<1>0. kind = "aws" /\ mode \in {"failing", "cleaning"}
  BY DEF AWSCleanup, Cleans
<1>1. CASE CleanupReturns(cloud, FALSE)
  BY <1>0, <1>1, InvFacts, CleanupReturnsKeeps
<1>2. ASSUME NEW byRef \in cleanupRemoteBuild(cloud),
             NEW byID \in cleanupRemoteResourcesByBuildID(byRef.cloud),
             CleanupReturns(byID.cloud, byRef.ok /\ byID.ok)
      PROVE  BuildInv'
  <2>1. Reduced(request, cloud, byRef.cloud)
    BY InvFacts, BuildCleaned
  <2>2. byRef.cloud \in Clouds(request)
    BY <2>1 DEF Reduced
  <2>3. /\ Reduced(request, byRef.cloud, byID.cloud)
        /\ byID.ok => /\ ~Live(byID.cloud, 1)
                      /\ request.source # "snapshot" => byID.cloud.image[1] = "none"
    BY <2>2, ResourcesCleaned
  <2>4. Sound(kind, request, byID.cloud, ref)
    BY <2>1, <2>3, InvFacts, ReducedSound
  <2>5. \A s \in Servers \ {1} : ~Live(byID.cloud, s)
    BY <1>0, <2>4 DEF Sound, CloudShape, Live
  <2>6. byRef.ok /\ byID.ok => Clean(kind, request, byID.cloud, saved)
    BY <1>0, <2>3, <2>5 DEF Clean
  <2> QED
    BY <1>0, <1>2, <2>4, <2>6, CleanupReturnsKeeps
<1> QED
  BY <1>1, <1>2 DEF AWSCleanup

(* What holds at every AWS call of a build with an instance.               *)
LEMMA AWSFacts ==
  ASSUME BuildInv, AWSCall
  PROVE  /\ kind = "aws" /\ mode = "building" /\ ~WithoutServer(kind, request)
         /\ 1 \in Servers /\ (ref.vm # 0 => ref.vm = 1)
         /\ ref.index \in 0 .. Len(request.steps)
         /\ ref.image \in Servers \cup {0}
         /\ ref.image # 0 => ref.vm # 0
BY InvFacts, ServersAssumption
DEF AWSCall, Calls, WithoutServer, RefShape, References

(* startInstance: the instance may be found or made, and the reference may *)
(* be lost after it was made.                                              *)
LEMMA startInstanceKeeps ==
  ASSUME BuildInv, startInstance
  PROVE  BuildInv'
<1> DEFINE started == IF cloud.vm[1] = "none" THEN Created(1, "pending") ELSE cloud
           r == [NoRef EXCEPT !.vm = 1]
<1>0. AWSCall /\ ref.vm = 0 /\ "pending" \in VMStates
  BY DEF startInstance, AWSValidCall, VMStates
<1>1. Sound(kind, request, started, ref) /\ started.captured = {}
      /\ (kind = "aws" /\ started.command = "running" => 0 < Len(request.steps))
  <2>1. Sound(kind, request, Created(1, "pending"), ref) /\ cloud.captured = {}
    BY <1>0, AWSFacts, InvFacts, MadeSound DEF Created
  <2>2. Created(1, "pending").captured = cloud.captured
    BY InvFacts DEF Created, Clouds
  <2>3. Sound(kind, request, started, ref) /\ started.captured = {}
    BY <2>1, <2>2, InvFacts
  <2>4. ref.index = 0
    BY <1>0, InvFacts DEF RefShape
  <2> QED BY <2>3, <2>4 DEF Sound, Progress
<1>2. RefShape(kind, request, r)
  BY <1>0, AWSFacts, InvFacts DEF RefShape, References, NoRef
<1> HIDE DEF started
<1>3. Sound(kind, request, started, r)
  <2>1. r.vm = 1 /\ r.index = 0 /\ r.command = FALSE
    BY DEF NoRef
  <2>2. Progress(kind, request, started, r)
    BY <1>1, <2>1 DEF Progress
  <2> QED BY <1>1, <2>2 DEF Sound
<1>4. CASE Answer(started, r)
  BY <1>0, <1>1, <1>2, <1>3, <1>4, AWSFacts, AnswerKeeps
<1>5. CASE Error(cloud) \/ Error(started)
  BY <1>0, <1>1, <1>5, AWSFacts, InvFacts, ErrorKeeps
<1> QED
  BY <1>4, <1>5 DEF startInstance, started

(* stopBuildInstance on a running instance.                                *)
LEMMA stopBuildInstanceKeeps ==
  ASSUME BuildInv, AWSCall, ref.vm # 0, cloud.vm[ref.vm] = "running",
         NEW r, stopBuildInstance(r), RefShape(kind, request, r),
         Sound(kind, request, cloud, r)
  PROVE  BuildInv'
<1> DEFINE stopped == [cloud EXCEPT !.vm[ref.vm] = "stopping"]
<1>0. ref.vm \in Servers /\ "stopping" \in VMStates
  BY AWSFacts DEF VMStates
<1>1. Sound(kind, request, stopped, ref) /\ Sound(kind, request, stopped, r)
  BY <1>0, InvFacts, VMSound
<1> HIDE DEF stopped
<1>2. CASE Answer(stopped, r)
  BY <1>1, <1>2, AWSFacts, AnswerKeeps
<1>3. CASE Error(cloud) \/ Error(stopped)
  BY <1>1, <1>3, AWSFacts, InvFacts, ErrorKeeps
<1> QED
  BY <1>2, <1>3 DEF stopBuildInstance, stopped

(* startProvisionerCommand: the command of the next provisioner is sent,   *)
(* and its number may be lost.                                             *)
LEMMA startCommandKeeps ==
  ASSUME BuildInv, startProvisionerCommand
  PROVE  BuildInv'
<1> DEFINE sent == [cloud EXCEPT !.command = "running"]
           r == [ref EXCEPT !.command = TRUE]
<1>0. AWSCall /\ ref.vm # 0 /\ ref.index < Len(request.steps)
  BY AWSFacts, InvFacts DEF startProvisionerCommand, AWSInstanceIs, AWSValidCall,
     Provisioned
<1>1. /\ sent \in Clouds(request) /\ sent.command = "running" /\ sent.vm = cloud.vm
      /\ sent.ran = cloud.ran /\ sent.captured = cloud.captured
      /\ sent.disk = cloud.disk
  BY InvFacts DEF Clouds
<1>2. /\ r \in References(request) /\ r.vm = ref.vm /\ r.index = ref.index
      /\ r.image = ref.image /\ r.direct = ref.direct /\ r.evidence = ref.evidence
  BY InvFacts DEF References
<1> HIDE DEF sent, r
<1>3. Sound(kind, request, sent, ref)
  <2>1. CloudShape(kind, request, sent)
    BY <1>1, InvFacts DEF Sound, CloudShape
  <2>2. Progress(kind, request, sent, ref)
    BY <1>0, <1>1, InvFacts DEF Sound, Progress
  <2> QED BY <2>1, <2>2 DEF Sound
<1>4. Sound(kind, request, sent, r)
  BY <1>1, <1>2, <1>3 DEF Sound, Progress
<1>5. RefShape(kind, request, r)
  BY <1>0, <1>2, InvFacts DEF RefShape
<1>6. CASE Answer(sent, r)
  BY <1>0, <1>3, <1>4, <1>5, <1>6, AWSFacts, AnswerKeeps
<1>7. CASE failRemoteBuild(sent) \/ failRemoteBuild(cloud)
  BY <1>0, <1>3, <1>7, AWSFacts, InvFacts, FailedBuildKeeps
<1> QED
  BY <1>6, <1>7 DEF startProvisionerCommand, sent, r

(* The command ends on the instance, on its own; success means that its    *)
(* provisioner ran.                                                        *)
LEMMA CommandEndsKeeps ==
  ASSUME BuildInv, CommandEnds
  PROVE  BuildInv'
<1>0. /\ kind = "aws" /\ cloud.command = "running" /\ 1 \in Servers
      /\ UNCHANGED <<kind, request, ref, saved, mode>>
      /\ ref.index + 1 \in DOMAIN request.steps
  <2>1. kind = "aws" /\ cloud.command = "running"
        /\ UNCHANGED <<kind, request, ref, saved, mode>>
    BY DEF CommandEnds
  <2>2. ref.index \in Nat /\ ref.index < Len(request.steps)
    BY <2>1, InvFacts DEF Sound, Progress, References
  <2> QED
    BY <2>1, <2>2, InvFacts, ServersAssumption
<1>1. CASE cloud' = [cloud EXCEPT !.command = "failed"]
  <2>1. /\ cloud' \in Clouds(request) /\ cloud'.command = "failed"
        /\ cloud'.vm = cloud.vm /\ cloud'.ran = cloud.ran
        /\ cloud'.captured = cloud.captured /\ cloud'.disk = cloud.disk
        /\ cloud'.image = cloud.image
    BY <1>1, InvFacts DEF Clouds
  <2>2. CloudShape(kind, request, cloud')
    BY <2>1, InvFacts DEF Sound, CloudShape
  <2>3. Progress(kind, request, cloud', ref)
    BY <2>1, InvFacts DEF Sound, Progress
  <2>4. /\ mode = "ready" => Complete(kind, request, cloud', ref)
        /\ mode = "cleaned" => Clean(kind, request, cloud', saved)
    BY <2>1 DEF BuildInv, Complete, Clean, Live
  <2> QED
    BY <1>0, <2>2, <2>3, <2>4 DEF BuildInv, Sound
<1>2. CASE cloud' = [Ran(cloud, 1, ref.index + 1) EXCEPT !.command = "succeeded"]
  <2> DEFINE ran == Ran(cloud, 1, ref.index + 1)
  <2>1. Sound(kind, request, ran, ref) /\ ref.index + 1 \in ran.ran[1]
    BY <1>0, InvFacts, RanSound
  <2>2. ran.vm = cloud.vm /\ ran.image = cloud.image /\ ran.disk = cloud.disk
    BY InvFacts DEF Ran, Clouds
  <2>3. ran \in Clouds(request)
    BY <2>1 DEF Sound, CloudShape
  <2>4. cloud' = [ran EXCEPT !.command = "succeeded"]
    BY <1>2
  <2> HIDE DEF ran
  <2>5. /\ cloud' \in Clouds(request) /\ cloud'.command = "succeeded"
        /\ cloud'.vm = ran.vm /\ cloud'.ran = ran.ran
        /\ cloud'.captured = ran.captured /\ cloud'.disk = ran.disk
        /\ cloud'.image = ran.image
    BY <2>3, <2>4 DEF Clouds
  <2>6. CloudShape(kind, request, cloud')
    BY <2>1, <2>5 DEF Sound, CloudShape
  <2>7. Progress(kind, request, cloud', ref)
    BY <2>1, <2>5 DEF Sound, Progress
  <2>8. /\ mode = "ready" => Complete(kind, request, cloud', ref)
        /\ mode = "cleaned" => Clean(kind, request, cloud', saved)
    BY <2>2, <2>5 DEF BuildInv, Complete, Clean, Live
  <2> QED
    BY <1>0, <2>6, <2>7, <2>8 DEF BuildInv, Sound
<1> QED
  BY <1>1, <1>2 DEF CommandEnds

(* reconcileProvisioning: the index moves on only for a command that       *)
(* succeeded.                                                              *)
LEMMA reconcileProvisioningKeeps ==
  ASSUME BuildInv, reconcileProvisioning
  PROVE  BuildInv'
<1> DEFINE next == [ref EXCEPT !.index = @ + 1, !.command = FALSE]
<1>0. /\ AWSCall /\ ref.vm # 0 /\ cloud.vm[ref.vm] = "running" /\ ref.command
      /\ ~(ref.index >= Len(request.steps))
  BY DEF reconcileProvisioning, AWSInstanceIs, AWSValidCall, Provisioned
<1>1. ref.index \in Nat /\ ref.index < Len(request.steps) /\ ref.vm = 1 /\ 1 \in Servers
  BY <1>0, AWSFacts, InvFacts
<1>2. /\ next \in References(request) /\ next.vm = ref.vm /\ next.index = ref.index + 1
      /\ next.image = ref.image /\ next.direct = ref.direct /\ next.command = FALSE
  <2>1. ref.index + 1 \in 0 .. Len(request.steps) /\ FALSE \in BOOLEAN
    BY <1>1, InvFacts
  <2> QED BY <2>1, InvFacts DEF References
<1>3. RefShape(kind, request, next)
  BY <1>0, <1>2, InvFacts DEF RefShape
<1> HIDE DEF next
<1>4. CASE cloud.command = "running" /\ Answer(cloud, ref)
  BY <1>0, <1>4, AWSFacts, InvFacts, AnswerKeeps
<1>5. CASE failRemoteBuild(cloud)
  BY <1>0, <1>5, AWSFacts, InvFacts, FailedBuildKeeps
<1>6. CASE cloud.command = "succeeded" /\ (stopBuildInstance(next) \/ Answer(cloud, next))
  <2>1. ref.index + 1 \in cloud.ran[1]
    BY <1>0, <1>6, AWSFacts, InvFacts DEF Sound, Progress
  <2>2. Sound(kind, request, cloud, next)
    BY <1>1, <1>2, <1>6, <2>1, InvFacts, NextStepSound
  <2>3. CASE stopBuildInstance(next)
    BY <1>0, <1>3, <2>2, <2>3, stopBuildInstanceKeeps
  <2>4. CASE Answer(cloud, next)
    BY <1>0, <1>3, <2>2, <2>4, AWSFacts, InvFacts, AnswerKeeps
  <2> QED BY <1>6, <2>3, <2>4
<1> QED
  BY <1>4, <1>5, <1>6 DEF reconcileProvisioning, next

(* createImage: an image is found by its name or made of the stopped       *)
(* instance, after the last provisioner.                                   *)
LEMMA createImageKeeps ==
  ASSUME BuildInv, createImage
  PROVE  BuildInv'
<1> DEFINE taken == Captured(cloud, 1, "pending")
           fresh == [taken EXCEPT !.snapshots = {1}]
           made == IF findExistingRemoteImage(cloud) THEN cloud ELSE fresh
           r == [ref EXCEPT !.image = 1]
<1>0. /\ AWSCall /\ ref.vm # 0 /\ ref.index >= Len(request.steps)
      /\ "pending" \in ImageStates
  BY DEF createImage, AWSInstanceIs, AWSValidCall, Provisioned, ImageStates
<1>1. Sound(kind, request, taken, ref)
  BY <1>0, AWSFacts, InvFacts, CapturedSound
<1>2. taken \in Clouds(request) /\ 1 \in Servers
  BY <1>0, <1>1, AWSFacts DEF Sound, CloudShape
<1> HIDE DEF taken
<1>3. Sound(kind, request, fresh, ref)
  <2>1. /\ fresh \in Clouds(request) /\ fresh.vm = taken.vm /\ fresh.ran = taken.ran
        /\ fresh.captured = taken.captured /\ fresh.command = taken.command
        /\ fresh.disk = taken.disk
    BY <1>2 DEF Clouds
  <2> HIDE DEF fresh
  <2> QED BY <1>1, <2>1, AlikeSound
<1>4. Sound(kind, request, made, ref)
  BY <1>3, InvFacts
<1>5. RefShape(kind, request, r) /\ SameBuild(ref, r)
  <2>1. /\ r \in References(request) /\ r.vm = ref.vm /\ r.index = ref.index
        /\ r.command = ref.command /\ r.evidence = ref.evidence
        /\ r.direct = ref.direct
    BY <1>2, InvFacts DEF References
  <2> HIDE DEF r
  <2> QED BY <1>0, <2>1, InvFacts DEF RefShape, SameBuild
<1> HIDE DEF made, r
<1>6. Sound(kind, request, made, r)
  BY <1>4, <1>5, SameProgress
<1>7. CASE Answer(made, r)
  BY <1>0, <1>4, <1>5, <1>6, <1>7, AWSFacts, AnswerKeeps
<1>8. CASE failRemoteBuild(cloud) \/ failRemoteBuild(made)
  BY <1>0, <1>4, <1>8, AWSFacts, InvFacts, FailedBuildKeeps
<1> QED
  BY <1>7, <1>8 DEF createImage, made, r, fresh, taken

(* reconcileImage: the build is ready only when its image is available and *)
(* its instance is terminated.                                             *)
LEMMA reconcileImageKeeps ==
  ASSUME BuildInv, reconcileImage
  PROVE  BuildInv'
<1>0. AWSCall /\ ref.image # 0
  BY DEF reconcileImage, AWSValidCall
<1>1. ref.vm \in Servers /\ ref.vm # 0 /\ mode = "building" /\ kind = "aws"
  BY <1>0, AWSFacts
<1>2. ASSUME NEW o \in TerminateInstances(cloud, ref.vm),
             cloud.image[ref.image] = "available",
             IF o.ok THEN Done(o.cloud, ref) ELSE Error(o.cloud)
      PROVE  BuildInv'
  <2>1. /\ Reduced(request, cloud, o.cloud) /\ o.cloud.image = cloud.image
        /\ o.ok => ~Live(o.cloud, ref.vm)
    BY <1>1, <1>2, InvFacts, ServerDeleted DEF TerminateInstances
  <2>2. Sound(kind, request, o.cloud, ref)
    BY <2>1, InvFacts, ReducedSound
  <2>3. CASE o.ok
    <3>1. Complete(kind, request, o.cloud, ref)
      BY <1>1, <1>2, <2>1, <2>3 DEF Complete
    <3>2. Done(o.cloud, ref)
      BY <1>2, <2>3
    <3> QED
      BY <1>0, <1>1, <2>2, <3>1, <3>2, InvFacts, DoneKeeps
  <2>4. CASE ~o.ok
    BY <1>1, <1>2, <2>2, <2>4, ErrorKeeps
  <2> QED BY <2>3, <2>4
<1>3. CASE Answer(cloud, ref)
  BY <1>1, <1>3, InvFacts, AnswerKeeps
<1>4. CASE failRemoteBuild(cloud) \/ Error(cloud)
  BY <1>1, <1>4, InvFacts, FailedBuildKeeps, ErrorKeeps
<1> QED
  BY <1>2, <1>3, <1>4 DEF reconcileImage

(* A build without a server stays at the same point whatever its reference *)
(* says of the image.                                                      *)
LEMMA DirectRef ==
  ASSUME BuildInv, WithoutServer(kind, request), NEW r, r.vm = 0,
         r.index = 0, r.command = FALSE, r.evidence = "none"
  PROVE  SameBuild(r, ref) /\ (kind # "gcp" => saved.image = 0 /\ ref.image = 0)
BY InvFacts DEF RefShape, References, SameBuild

(* The reference of a build without a server.                              *)
LEMMA DirectShape ==
  ASSUME BuildInv, WithoutServer(kind, request)
  PROVE  LET r == [NoRef EXCEPT !.direct = TRUE] IN
         /\ RefShape(kind, request, r)
         /\ r.vm = 0 /\ r.index = 0 /\ r.command = FALSE /\ r.evidence = "none"
         /\ r.direct = TRUE
BY InvFacts DEF RefShape, References, NoRef

(* reconcileSnapshotImage: an image of a snapshot, without an instance.    *)
LEMMA reconcileSnapshotImageKeeps ==
  ASSUME BuildInv, reconcileSnapshotImage
  PROVE  BuildInv'
<1> DEFINE r == [NoRef EXCEPT !.direct = TRUE]
<1>0. /\ kind = "aws" /\ mode = "building" /\ WithoutServer(kind, request)
      /\ 1 \in Servers
  BY ServersAssumption DEF reconcileSnapshotImage, Calls, WithoutServer
<1>1. /\ RefShape(kind, request, r) /\ r.vm = 0 /\ r.index = 0 /\ r.command = FALSE
      /\ r.evidence = "none" /\ r.direct = TRUE
  BY <1>0, DirectShape
<1> HIDE DEF r
<1>2. SameBuild(r, ref) /\ saved.image = 0
  BY <1>0, <1>1, DirectRef
<1>3. ASSUME NEW x \in ImageStates
      PROVE  Sound(kind, request, [cloud EXCEPT !.image[1] = x], ref)
  <2> DEFINE d == [cloud EXCEPT !.image[1] = x]
  <2>1. /\ d \in Clouds(request) /\ d.vm = cloud.vm /\ d.ran = cloud.ran
        /\ d.captured = cloud.captured /\ d.command = cloud.command
        /\ d.disk = cloud.disk
    BY <1>0, InvFacts, ImageSet
  <2> HIDE DEF d
  <2>2. Sound(kind, request, d, ref)
    BY <2>1, InvFacts, AlikeSound
  <2> QED BY <2>2 DEF d
<1>4. \A c : Complete(kind, request, c, r)
  BY <1>0, <1>1 DEF Complete
<1>5. CASE Terminal(cloud)
  BY <1>0, <1>5, InvFacts, ErrorKeeps
<1>6. CASE Done(cloud, r)
  BY <1>0, <1>1, <1>2, <1>4, <1>6, InvFacts, DoneKeeps
<1>7. CASE Done([cloud EXCEPT !.image[1] = "available"], r)
  <2>1. Sound(kind, request, [cloud EXCEPT !.image[1] = "available"], ref)
    BY <1>3 DEF ImageStates
  <2> QED
    BY <1>0, <1>1, <1>2, <1>4, <1>7, <2>1, DoneKeeps
<1>8. ASSUME NEW x \in ImageStates, Error([cloud EXCEPT !.image[1] = x])
      PROVE  BuildInv'
  BY <1>0, <1>3, <1>8, ErrorKeeps
<1> QED
  BY <1>5, <1>6, <1>7, <1>8 DEF reconcileSnapshotImage, r

(* Every step of the AWS provider keeps the invariant.                     *)
LEMMA AWSKeeps ==
  ASSUME BuildInv, AWSNext
  PROVE  BuildInv'
<1>1. CASE AWSReadFails \/ AWSRefuse
  BY <1>1, AWSFacts, InvFacts, ErrorKeeps DEF AWSReadFails, AWSRefuse
<1>2. CASE AWSWait
  <2>1. AWSCall /\ Answer(cloud, ref)
    BY <1>2 DEF AWSWait, AWSInstanceIs, AWSValidCall
  <2> QED BY <2>1, AWSFacts, InvFacts, AnswerKeeps
<1>3. CASE AWSStop
  <2>1. AWSCall /\ stopBuildInstance(ref) /\ ref.vm # 0 /\ cloud.vm[ref.vm] = "running"
    BY <1>3 DEF AWSStop, AWSInstanceIs, AWSValidCall
  <2> QED BY <2>1, InvFacts, stopBuildInstanceKeeps
<1>4. CASE AWSInstanceLost
  <2>1. AWSCall /\ failRemoteBuild(cloud)
    BY <1>4 DEF AWSInstanceLost, AWSInstanceIs, AWSValidCall
  <2> QED BY <2>1, AWSFacts, InvFacts, FailedBuildKeeps
<1> QED
  BY <1>1, <1>2, <1>3, <1>4, startInstanceKeeps, startCommandKeeps, CommandEndsKeeps,
     reconcileProvisioningKeeps, createImageKeeps, reconcileImageKeeps,
     reconcileSnapshotImageKeeps, AWSCleanupKeeps
  DEF AWSNext

-----------------------------------------------------------------------------
(* Azure                                                                   *)

(* Azure deletes the machine and then its scratch disk: no error means     *)
(* that both are gone.                                                     *)
LEMMA AzureResourcesCleaned ==
  ASSUME NEW q, NEW c \in Clouds(q), NEW o \in cleanupAzureRemoteResources(c)
  PROVE  /\ Reduced(q, c, o.cloud) /\ o.cloud.image = c.image
         /\ o.ok => ~Live(o.cloud, 1) /\ ~o.cloud.disk
<1>0. 1 \in Servers
  BY ServersAssumption
<1>1. CASE o = Outcome(c, FALSE)
  <2>1. o.cloud = c /\ o.ok = FALSE
    BY <1>1, OutcomeFields
  <2> QED BY <2>1, ReducedSame
<1>2. ASSUME NEW vm \in DeleteServer(c, 1), vm.ok,
             \/ o = Outcome(vm.cloud, ~c.disk)
             \/ o = Outcome([vm.cloud EXCEPT !.disk = FALSE], TRUE)
      PROVE  /\ Reduced(q, c, o.cloud) /\ o.cloud.image = c.image
             /\ o.ok => ~Live(o.cloud, 1) /\ ~o.cloud.disk
  <2>1. /\ Reduced(q, c, vm.cloud) /\ ~Live(vm.cloud, 1)
        /\ vm.cloud.image = c.image /\ vm.cloud.disk = c.disk
    BY <1>0, <1>2, ServerDeleted
  <2>2. CASE o = Outcome(vm.cloud, ~c.disk)
    <3>1. o.cloud = vm.cloud /\ o.ok = ~c.disk
      BY <2>2, OutcomeFields
    <3> QED BY <2>1, <3>1
  <2>3. CASE o = Outcome([vm.cloud EXCEPT !.disk = FALSE], TRUE)
    <3>1. vm.cloud \in Clouds(q)
      BY <2>1 DEF Reduced
    <3>2. o.cloud = [vm.cloud EXCEPT !.disk = FALSE]
      BY <2>3, OutcomeFields
    <3>3. /\ o.cloud \in Clouds(q) /\ o.cloud.disk = FALSE
          /\ o.cloud.vm = vm.cloud.vm /\ o.cloud.ran = vm.cloud.ran
          /\ o.cloud.captured = vm.cloud.captured
          /\ o.cloud.command = vm.cloud.command /\ o.cloud.image = vm.cloud.image
      BY <3>1, <3>2 DEF Clouds
    <3> QED BY <2>1, <3>3 DEF Reduced, Live
  <2> QED BY <1>2, <2>2, <2>3
<1>3. \/ o = Outcome(c, FALSE)
      \/ \E vm \in DeleteServer(c, 1) :
           /\ vm.ok
           /\ \/ o = Outcome(vm.cloud, ~c.disk)
              \/ o = Outcome([vm.cloud EXCEPT !.disk = FALSE], TRUE)
  BY DEF cleanupAzureRemoteResources
<1> QED BY <1>1, <1>2, <1>3

(* An Azure error after its own cleanup keeps the invariant.               *)
LEMMA AzureErrorKeeps ==
  ASSUME BuildInv, mode = "building", NEW c, Sound(kind, request, c, ref),
         ErrorAfter(cleanupAzureRemoteResources(c))
  PROVE  BuildInv'
<1>1. c \in Clouds(request)
  BY DEF Sound, CloudShape
<1>2. \A o \in cleanupAzureRemoteResources(c) : Reduced(request, c, o.cloud)
  BY <1>1, AzureResourcesCleaned
<1> QED BY <1>2, ErrorAfterKeeps

(* Azure's Cleanup keeps the invariant: what it reports as cleaned is      *)
(* clean.                                                                  *)
LEMMA AzureCleanupKeeps ==
  ASSUME BuildInv, AzureCleanup
  PROVE  BuildInv'
<1>0. kind = "azure" /\ mode \in {"failing", "cleaning"} /\ 1 \in Servers
      /\ "none" \in ImageStates
  BY ServersAssumption DEF AzureCleanup, Cleans, ImageStates
<1>1. CASE AzureDirect(request)
  <2> DEFINE d == [cloud EXCEPT !.image[1] = "none"]
  <2>1. PICK o \in {Outcome(cloud, FALSE), Outcome(d, TRUE)} :
          CleanupReturns(o.cloud, o.ok)
    BY <1>1 DEF AzureCleanup
  <2>2. /\ d \in Clouds(request) /\ d.vm = cloud.vm /\ d.ran = cloud.ran
        /\ d.captured = cloud.captured /\ d.command = cloud.command
        /\ d.disk = cloud.disk
    BY <1>0, InvFacts DEF Clouds
  <2> HIDE DEF d
  <2>3. Sound(kind, request, d, ref)
    BY <2>2, InvFacts, AlikeSound
  <2>4. Clean(kind, request, d, saved)
    BY <1>0, <1>1, <2>3 DEF Clean, Sound, CloudShape, WithoutServer, Live
  <2>5. CASE o = Outcome(cloud, FALSE)
    <3>1. CleanupReturns(cloud, FALSE)
      BY <2>1, <2>5, OutcomeFields
    <3> QED BY <1>0, <3>1, InvFacts, CleanupReturnsKeeps
  <2>6. CASE o = Outcome(d, TRUE)
    <3>1. CleanupReturns(d, TRUE)
      BY <2>1, <2>6, OutcomeFields
    <3> QED BY <1>0, <2>3, <2>4, <3>1, CleanupReturnsKeeps
  <2> QED BY <2>1, <2>5, <2>6
<1>2. CASE ~AzureDirect(request)
  <2>1. PICK o \in cleanupAzureRemoteResources(cloud) : CleanupReturns(o.cloud, o.ok)
    BY <1>2 DEF AzureCleanup
  <2>2. /\ Reduced(request, cloud, o.cloud)
        /\ o.ok => ~Live(o.cloud, 1) /\ ~o.cloud.disk
    BY InvFacts, AzureResourcesCleaned
  <2>3. Sound(kind, request, o.cloud, ref)
    BY <2>2, InvFacts, ReducedSound
  <2>4. \A s \in Servers \ {1} : ~Live(o.cloud, s)
    BY <1>0, <2>3 DEF Sound, CloudShape, Live
  <2>5. o.ok => Clean(kind, request, o.cloud, saved)
    BY <1>0, <2>2, <2>4 DEF Clean
  <2> QED BY <1>0, <2>1, <2>3, <2>5, CleanupReturnsKeeps
<1> QED BY <1>1, <1>2

(* What holds at every Azure call of a build with a machine.               *)
LEMMA AzureFacts ==
  ASSUME BuildInv, AzureCall
  PROVE  /\ kind = "azure" /\ mode = "building" /\ ~WithoutServer(kind, request)
         /\ 1 \in Servers /\ (ref.vm # 0 => ref.vm = 1)
BY InvFacts, ServersAssumption DEF AzureCall, Calls, WithoutServer, RefShape

(* startRemoteBuildVM: disk and machine may be found or made, and the      *)
(* reference may be lost after that.                                       *)
LEMMA startRemoteBuildVMKeeps ==
  ASSUME BuildInv, startRemoteBuildVM
  PROVE  BuildInv'
<1> DEFINE withDisk == createRemoteOSDisk
           fresh == [withDisk EXCEPT !.vm[1] = "running", !.ran[1] = {}]
           withVM == IF Live(withDisk, 1) THEN withDisk ELSE fresh
           r == AzureRef
<1>0. AzureCall /\ ref.vm = 0 /\ "running" \in VMStates
  BY DEF startRemoteBuildVM, VMStates
<1>1. /\ withDisk \in Clouds(request) /\ withDisk.vm = cloud.vm
      /\ withDisk.ran = cloud.ran /\ withDisk.captured = cloud.captured
      /\ withDisk.command = cloud.command
  BY InvFacts DEF createRemoteOSDisk, Clouds
<1> HIDE DEF withDisk
<1>2. Sound(kind, request, withDisk, ref)
  <2>1. CloudShape(kind, request, withDisk)
    BY <1>0, <1>1, InvFacts, AzureFacts DEF Sound, CloudShape
  <2>2. Progress(kind, request, withDisk, ref)
    BY <1>1, InvFacts DEF Sound, Progress
  <2> QED BY <2>1, <2>2 DEF Sound
<1>3. Sound(kind, request, fresh, ref) /\ withDisk.captured = {}
  BY <1>0, <1>2, InvFacts, AzureFacts, MadeSound
<1>4. Sound(kind, request, withVM, ref) /\ withVM.captured = {}
  <2>1. fresh.captured = withDisk.captured
    BY <1>1 DEF Clouds
  <2> HIDE DEF fresh
  <2> QED BY <1>2, <1>3, <2>1
<1> HIDE DEF withVM
<1>5. RefShape(kind, request, r)
  BY <1>0, AzureFacts, InvFacts DEF RefShape, References, AzureRef, NoRef
<1>6. Sound(kind, request, withVM, r)
  <2>1. r.vm = 1 /\ r.index = 0 /\ r.command = FALSE
    BY DEF AzureRef, NoRef
  <2>2. Progress(kind, request, withVM, r)
    BY <1>0, <1>4, <2>1, AzureFacts DEF Progress
  <2> QED BY <1>4, <2>2 DEF Sound
<1>7. CASE Answer(withVM, r)
  BY <1>0, <1>4, <1>5, <1>6, <1>7, AzureFacts, AnswerKeeps
<1>8. CASE Error(cloud) \/ Error(withDisk)
  BY <1>0, <1>2, <1>8, AzureFacts, InvFacts, ErrorKeeps
<1>9. CASE \/ ErrorAfter(cleanupAzureRemoteResources(withDisk))
           \/ ErrorAfter(cleanupAzureRemoteResources(withVM))
  BY <1>0, <1>2, <1>4, <1>9, AzureFacts, AzureErrorKeeps
<1> QED
  BY <1>7, <1>8, <1>9 DEF startRemoteBuildVM, withVM, withDisk

(* runAzureProvisioner: the provisioner runs within the call, the index    *)
(* and the evidence are told in the answer.                                *)
LEMMA runAzureProvisionerKeeps ==
  ASSUME BuildInv, runAzureProvisioner
  PROVE  BuildInv'
<1> DEFINE ran == Ran(cloud, 1, ref.index + 1)
           next == [ref EXCEPT !.index = @ + 1]
           told(e) == [next EXCEPT !.evidence = e]
<1>0. AzureCall /\ ref.vm # 0 /\ ~(ref.index >= Len(request.steps))
  BY DEF runAzureProvisioner, Provisioned
<1>1. /\ ref.index \in Nat /\ ref.index < Len(request.steps) /\ ref.vm = 1
      /\ ref.index + 1 \in DOMAIN request.steps /\ 1 \in Servers
      /\ ref.index + 1 \in 0 .. Len(request.steps)
  BY <1>0, AzureFacts, InvFacts DEF References
<1>2. Sound(kind, request, ran, ref) /\ ref.index + 1 \in ran.ran[1]
  BY <1>1, InvFacts, RanSound
<1> HIDE DEF ran
<1>3. ASSUME NEW t, t \in References(request), t.vm = ref.vm, t.index = ref.index + 1,
             t.direct = ref.direct, t.image = ref.image, t.command = ref.command,
             Answer(ran, t)
      PROVE  BuildInv'
  <2>1. RefShape(kind, request, t)
    BY <1>0, <1>3, InvFacts DEF RefShape
  <2>2. Sound(kind, request, ran, t)
    <3>1. 1 .. ref.index \subseteq ran.ran[1] /\ ran.captured = {}
      BY <1>1, <1>2, InvFacts DEF Sound, Progress
    <3>2. 1 .. t.index \subseteq ran.ran[1]
      BY <1>1, <1>2, <1>3, <3>1
    <3>3. Progress(kind, request, ran, t)
      BY <1>0, <1>1, <1>3, <3>1, <3>2, AzureFacts DEF Progress
    <3> QED BY <1>2, <3>3 DEF Sound
  <2> QED BY <1>0, <1>2, <1>3, <2>1, <2>2, AzureFacts, AnswerKeeps
<1>4. /\ next \in References(request) /\ next.vm = ref.vm /\ next.index = ref.index + 1
      /\ next.direct = ref.direct /\ next.image = ref.image
      /\ next.command = ref.command
  BY <1>1, InvFacts DEF References
<1> HIDE DEF next
<1>5. ASSUME NEW e \in EvidenceResults
      PROVE  /\ told(e) \in References(request) /\ told(e).vm = next.vm
             /\ told(e).index = next.index /\ told(e).direct = next.direct
             /\ told(e).image = next.image /\ told(e).command = next.command
  BY <1>4 DEF References, EvidenceResults
<1> HIDE DEF told
<1>6. CASE Answer(ran, next)
  BY <1>3, <1>4, <1>6
<1>7. ASSUME NEW e \in EvidenceResults, Answer(ran, told(e)) PROVE BuildInv'
  BY <1>3, <1>4, <1>5, <1>7
<1>8. CASE ErrorAfter(cleanupAzureRemoteResources(cloud))
           \/ ErrorAfter(cleanupAzureRemoteResources(ran))
  BY <1>0, <1>2, <1>8, AzureFacts, InvFacts, AzureErrorKeeps
<1> QED
  BY <1>6, <1>7, <1>8 DEF runAzureProvisioner, ran, next, told

(* finishRemoteBuildVM: the image is registered of the generalised         *)
(* machine, and the machine and its disk are deleted before the build is   *)
(* ready.                                                                  *)
LEMMA finishRemoteBuildVMKeeps ==
  ASSUME BuildInv, finishRemoteBuildVM
  PROVE  BuildInv'
<1> DEFINE stopped == [cloud EXCEPT !.vm[1] = "stopped"]
           registered == Captured(stopped, 1, "available")
           broken == Captured(stopped, 1, "failed")
           r == [ref EXCEPT !.image = 1]
<1>0. /\ AzureCall /\ ref.vm # 0 /\ ref.index >= Len(request.steps)
      /\ "stopped" \in VMStates /\ "available" \in ImageStates /\ "failed" \in ImageStates
  BY DEF finishRemoteBuildVM, Provisioned, VMStates, ImageStates
<1>1. CASE ErrorAfter(cleanupAzureRemoteResources(cloud))
  BY <1>0, <1>1, AzureFacts, InvFacts, AzureErrorKeeps
<1>2. CASE validateAzureEvidence(ref)
  <2>1. Sound(kind, request, stopped, ref)
    BY <1>0, AzureFacts, InvFacts, VMSound
  <2> HIDE DEF stopped
  <2>2. Sound(kind, request, registered, ref) /\ Sound(kind, request, broken, ref)
    BY <1>0, <1>2, <2>1, AzureFacts, CapturedSound DEF validateAzureEvidence
  <2>3. registered \in Clouds(request) /\ registered.image[1] = "available"
    <3>1. stopped \in Clouds(request) /\ 1 \in Servers
      BY <1>0, <2>1, AzureFacts DEF Sound, CloudShape
    <3> QED BY <1>0, <3>1 DEF Captured, Clouds
  <2> HIDE DEF registered, broken
  <2>4. ASSUME NEW c \in {stopped, registered, broken},
               ErrorAfter(cleanupAzureRemoteResources(c))
        PROVE  BuildInv'
    BY <1>0, <2>1, <2>2, <2>4, AzureFacts, AzureErrorKeeps
  <2>5. ASSUME NEW o \in cleanupAzureRemoteResources(registered),
               IF o.ok THEN Done(o.cloud, r) ELSE Error(o.cloud)
        PROVE  BuildInv'
    <3>1. /\ Reduced(request, registered, o.cloud) /\ o.cloud.image = registered.image
          /\ o.ok => ~Live(o.cloud, 1)
      BY <2>3, AzureResourcesCleaned
    <3>2. Sound(kind, request, o.cloud, ref)
      BY <2>2, <3>1, ReducedSound
    <3>3. CASE o.ok
      <4>1. /\ r \in References(request) /\ r.vm = ref.vm /\ r.index = ref.index
            /\ r.command = ref.command /\ r.evidence = ref.evidence
            /\ r.direct = ref.direct /\ r.image = 1
        BY <1>0, AzureFacts, InvFacts DEF References
      <4> HIDE DEF r
      <4>2. RefShape(kind, request, r) /\ SameBuild(r, ref)
        BY <1>0, <4>1, InvFacts DEF RefShape, SameBuild
      <4>3. Complete(kind, request, o.cloud, r)
        BY <1>0, <2>3, <3>1, <3>3, <4>1, AzureFacts DEF Complete
      <4>4. Done(o.cloud, r)
        BY <2>5, <3>3
      <4> QED
        BY <1>0, <3>2, <4>1, <4>2, <4>3, <4>4, AzureFacts, DoneKeeps
    <3>4. CASE ~o.ok
      BY <1>0, <2>5, <3>2, <3>4, AzureFacts, ErrorKeeps
    <3> QED BY <3>3, <3>4
  <2> HIDE DEF r
  <2> QED
    BY <1>1, <1>2, <2>4, <2>5 DEF finishRemoteBuildVM, registered, broken, stopped, r
<1> QED
  BY <1>1, <1>2 DEF finishRemoteBuildVM

(* A direct Azure build registers its source as the image.                 *)
LEMMA AzureRegisterDirectKeeps ==
  ASSUME BuildInv, AzureRegisterDirect
  PROVE  BuildInv'
<1> DEFINE r == [NoRef EXCEPT !.direct = TRUE]
           registered == [cloud EXCEPT !.image[1] = "available"]
<1>0. /\ kind = "azure" /\ mode = "building" /\ WithoutServer(kind, request)
      /\ 1 \in Servers /\ "available" \in ImageStates
  BY ServersAssumption DEF AzureRegisterDirect, Calls, WithoutServer, ImageStates
<1>1. /\ RefShape(kind, request, r) /\ r.vm = 0 /\ r.index = 0 /\ r.command = FALSE
      /\ r.evidence = "none" /\ r.direct = TRUE
  BY <1>0, DirectShape
<1> HIDE DEF r
<1>2. SameBuild(r, ref) /\ saved.image = 0
  BY <1>0, <1>1, DirectRef
<1>3. /\ registered \in Clouds(request) /\ registered.vm = cloud.vm
      /\ registered.ran = cloud.ran /\ registered.captured = cloud.captured
      /\ registered.command = cloud.command /\ registered.disk = cloud.disk
      /\ registered.image[1] = "available"
  BY <1>0, InvFacts DEF Clouds
<1> HIDE DEF registered
<1>4. Sound(kind, request, registered, ref)
  BY <1>3, InvFacts, AlikeSound
<1>5. Complete(kind, request, registered, r)
  BY <1>0, <1>1, <1>3 DEF Complete
<1>6. CASE Error(cloud) \/ Error(registered)
  BY <1>0, <1>4, <1>6, InvFacts, ErrorKeeps
<1>7. CASE Done(registered, r)
  BY <1>0, <1>1, <1>2, <1>4, <1>5, <1>7, DoneKeeps
<1> QED
  BY <1>6, <1>7 DEF AzureRegisterDirect, registered, r

(* Every step of the Azure provider keeps the invariant.                   *)
LEMMA AzureKeeps ==
  ASSUME BuildInv, AzureNext
  PROVE  BuildInv'
<1>1. CASE AzureRefuse
  BY <1>1, InvFacts, ErrorKeeps DEF AzureRefuse, Calls
<1> QED
  BY <1>1, startRemoteBuildVMKeeps, runAzureProvisionerKeeps,
     finishRemoteBuildVMKeeps, AzureRegisterDirectKeeps, AzureCleanupKeeps
  DEF AzureNext

(* The fields of a reference that names only a server, or only an image.   *)
LEMMA RefFields ==
  ASSUME NEW q, 0 \in 0 .. Len(q.steps), NEW x \in Servers
  PROVE  /\ LET r == [NoRef EXCEPT !.vm = x] IN
              /\ r \in References(q) /\ r.vm = x /\ r.index = 0 /\ r.command = FALSE
              /\ r.evidence = "none" /\ r.image = 0 /\ r.direct = FALSE
         /\ LET r == [NoRef EXCEPT !.image = x] IN
              /\ r \in References(q) /\ r.vm = 0 /\ r.index = 0 /\ r.command = FALSE
              /\ r.evidence = "none" /\ r.image = x /\ r.direct = FALSE
BY DEF NoRef, References

-----------------------------------------------------------------------------
(* OpenStack                                                               *)

(* The answer to a provisioner that ran within its call keeps the          *)
(* invariant.                                                              *)
LEMMA StepAnswered ==
  ASSUME BuildInv, mode = "building", kind # "aws", NEW c,
         Sound(kind, request, c, ref), ref.vm # 0,
         ref.index < Len(request.steps), ref.index + 1 \in c.ran[ref.vm],
         Answer(c, [ref EXCEPT !.index = @ + 1])
  PROVE  BuildInv'
<1> DEFINE next == [ref EXCEPT !.index = @ + 1]
<1>0. /\ ref.vm \in Servers /\ ref.index \in Nat
      /\ ref.index + 1 \in 0 .. Len(request.steps)
  BY InvFacts DEF References
<1>1. /\ next \in References(request) /\ next.vm = ref.vm /\ next.index = ref.index + 1
      /\ next.direct = ref.direct /\ next.image = ref.image
      /\ next.command = ref.command
  BY <1>0, InvFacts DEF References
<1>2. Answer(c, next)
  OBVIOUS
<1> HIDE DEF next
<1>3. RefShape(kind, request, next)
  BY <1>1, InvFacts DEF RefShape
<1>4. 1 .. ref.index \subseteq c.ran[ref.vm] /\ c.captured = {}
  BY <1>0, InvFacts DEF Sound, Progress
<1>5. 1 .. next.index \subseteq c.ran[ref.vm]
  BY <1>0, <1>1, <1>4
<1>6. Progress(kind, request, c, next)
  BY <1>1, <1>4, <1>5 DEF Progress
<1>7. Sound(kind, request, c, next)
  BY <1>6 DEF Sound
<1> QED BY <1>2, <1>3, <1>7, AnswerKeeps

(* OpenStack deletes the server it is given: no error means that this one  *)
(* is gone.                                                                *)
LEMMA OpenStackResourcesCleaned ==
  ASSUME NEW q, NEW c \in Clouds(q), NEW s \in Servers \cup {0},
         NEW o \in cleanupOpenStackRemoteResources(c, s)
  PROVE  /\ Reduced(q, c, o.cloud)
         /\ s # 0 => o.cloud.image = c.image
         /\ o.ok /\ s # 0 => ~Live(o.cloud, s)
<1>1. CASE s = 0
  BY <1>1, SkipFields, ReducedSame DEF cleanupOpenStackRemoteResources
<1>2. CASE s # 0
  BY <1>2, ServerDeleted DEF cleanupOpenStackRemoteResources
<1> QED BY <1>1, <1>2

(* An OpenStack error after its own cleanup keeps the invariant.           *)
LEMMA OpenStackErrorKeeps ==
  ASSUME BuildInv, mode = "building", NEW c, Sound(kind, request, c, ref),
         NEW s \in Servers, ErrorAfter(cleanupOpenStackRemoteResources(c, s))
  PROVE  BuildInv'
<1>1. c \in Clouds(request)
  BY DEF Sound, CloudShape
<1>2. \A o \in cleanupOpenStackRemoteResources(c, s) : Reduced(request, c, o.cloud)
  BY <1>1, OpenStackResourcesCleaned
<1> QED BY <1>2, ErrorAfterKeeps

(* OpenStack's Cleanup keeps the invariant: the server of the saved        *)
(* reference is gone when it reports no error.                             *)
LEMMA OpenStackCleanupKeeps ==
  ASSUME BuildInv, OpenStackCleanup
  PROVE  BuildInv'
<1>0. kind = "openstack" /\ mode \in {"failing", "cleaning"}
      /\ ref.vm \in Servers \cup {0} /\ saved.vm = ref.vm
  BY InvFacts DEF OpenStackCleanup, Cleans, References
<1>1. PICK o \in cleanupOpenStackRemoteResources(cloud, ref.vm) :
        CleanupReturns(o.cloud, o.ok)
  BY DEF OpenStackCleanup
<1>2. Reduced(request, cloud, o.cloud) /\ (o.ok /\ ref.vm # 0 => ~Live(o.cloud, ref.vm))
  BY <1>0, InvFacts, OpenStackResourcesCleaned
<1>3. Sound(kind, request, o.cloud, ref)
  BY <1>2, InvFacts, ReducedSound
<1>4. o.ok => Clean(kind, request, o.cloud, saved)
  BY <1>0, <1>2 DEF Clean
<1> QED BY <1>0, <1>1, <1>3, <1>4, CleanupReturnsKeeps

(* What holds at every OpenStack call.                                     *)
LEMMA OpenStackFacts ==
  ASSUME BuildInv, OpenStackCall
  PROVE  /\ kind = "openstack" /\ mode = "building" /\ ~WithoutServer(kind, request)
         /\ ref.vm # 0 => ref.vm \in Servers
         /\ ref.direct = FALSE
BY InvFacts DEF OpenStackCall, Calls, WithoutServer, RefShape, References

(* startOpenStackRemoteServer: every call makes a server of its own, one   *)
(* that the reference did not name.                                        *)
LEMMA startOpenStackKeeps ==
  ASSUME BuildInv, startOpenStackRemoteServer
  PROVE  BuildInv'
<1>0. OpenStackCall /\ ref.vm = 0 /\ "pending" \in VMStates /\ "running" \in VMStates
  BY DEF startOpenStackRemoteServer, VMStates
<1>1. PICK s \in Servers :
        \/ Error(cloud)
        \/ Error(Created(s, "pending"))
        \/ ErrorAfter(cleanupOpenStackRemoteResources(Created(s, "pending"), s))
        \/ Answer(Created(s, "running"), OpenStackRef(s))
  BY DEF startOpenStackRemoteServer
<1>2. /\ Sound(kind, request, Created(s, "pending"), ref)
      /\ Sound(kind, request, Created(s, "running"), ref)
      /\ cloud.captured = {}
  BY <1>0, OpenStackFacts, InvFacts, MadeSound DEF Created
<1>3. Created(s, "running").captured = {}
  BY <1>2, InvFacts DEF Created, Clouds
<1> DEFINE r == OpenStackRef(s)
           c == Created(s, "running")
<1>4. /\ r \in References(request) /\ r.vm = s /\ r.index = 0 /\ r.command = FALSE
      /\ r.evidence = "none" /\ r.image = 0 /\ r.direct = FALSE
  <2>1. 0 \in 0 .. Len(request.steps)
    BY InvFacts
  <2> QED BY <2>1, RefFields DEF OpenStackRef
<1> HIDE DEF r, c
<1>5. RefShape(kind, request, r)
  BY <1>0, <1>4, OpenStackFacts, ServersAssumption DEF RefShape
<1>6. Sound(kind, request, c, r)
  <2>1. Progress(kind, request, c, r)
    BY <1>0, <1>3, <1>4, OpenStackFacts DEF Progress, c
  <2> QED BY <1>2, <2>1 DEF Sound, c
<1>7. CASE Answer(c, r)
  BY <1>0, <1>2, <1>5, <1>6, <1>7, OpenStackFacts, AnswerKeeps DEF c
<1>8. CASE Error(cloud) \/ Error(Created(s, "pending"))
  BY <1>0, <1>2, <1>8, OpenStackFacts, InvFacts, ErrorKeeps
<1>9. CASE ErrorAfter(cleanupOpenStackRemoteResources(Created(s, "pending"), s))
  BY <1>0, <1>2, <1>9, OpenStackFacts, OpenStackErrorKeeps
<1> QED BY <1>1, <1>7, <1>8, <1>9 DEF c, r

(* runOpenStackProvisioner: the provisioner runs within the call.          *)
LEMMA runOpenStackProvisionerKeeps ==
  ASSUME BuildInv, runOpenStackProvisioner
  PROVE  BuildInv'
<1> DEFINE ran == Ran(cloud, ref.vm, ref.index + 1)
<1>0. OpenStackCall /\ ref.vm # 0 /\ ~(ref.index >= Len(request.steps))
  BY DEF runOpenStackProvisioner, Provisioned
<1>1. /\ ref.index < Len(request.steps) /\ ref.vm \in Servers
      /\ ref.index + 1 \in DOMAIN request.steps
  BY <1>0, OpenStackFacts, InvFacts DEF References
<1>2. Sound(kind, request, ran, ref) /\ ref.index + 1 \in ran.ran[ref.vm]
  BY <1>1, InvFacts, RanSound
<1> HIDE DEF ran
<1>3. CASE Answer(ran, [ref EXCEPT !.index = @ + 1])
  BY <1>0, <1>1, <1>2, <1>3, OpenStackFacts, StepAnswered
<1>4. CASE \/ ErrorAfter(cleanupOpenStackRemoteResources(cloud, ref.vm))
           \/ ErrorAfter(cleanupOpenStackRemoteResources(ran, ref.vm))
  BY <1>0, <1>1, <1>2, <1>4, OpenStackFacts, InvFacts, OpenStackErrorKeeps
<1> QED BY <1>3, <1>4 DEF runOpenStackProvisioner, ran

(* The reference of a finished build names an image under the number of    *)
(* its server.                                                             *)
LEMMA FinishedRef ==
  ASSUME BuildInv, ref.vm # 0
  PROVE  LET r == [ref EXCEPT !.image = ref.vm] IN
         /\ RefShape(kind, request, r) /\ SameBuild(r, ref)
         /\ r.image = ref.vm /\ r.vm = ref.vm /\ r.direct = ref.direct
<1> DEFINE r == [ref EXCEPT !.image = ref.vm]
<1>1. /\ r \in References(request) /\ r.vm = ref.vm /\ r.index = ref.index
      /\ r.command = ref.command /\ r.evidence = ref.evidence
      /\ r.direct = ref.direct /\ r.image = ref.vm
  BY InvFacts DEF References
<1> HIDE DEF r
<1>2. RefShape(kind, request, r) /\ SameBuild(r, ref)
  BY <1>1, InvFacts DEF RefShape, SameBuild
<1> QED BY <1>1, <1>2 DEF r

(* finishOpenStackRemoteServer: the image is made of the stopped server    *)
(* after its last provisioner, and the server is deleted before the build  *)
(* is ready.                                                               *)
LEMMA finishOpenStackKeeps ==
  ASSUME BuildInv, finishOpenStackRemoteServer
  PROVE  BuildInv'
<1> DEFINE stopped == [cloud EXCEPT !.vm[ref.vm] = "stopped"]
           made == Captured(stopped, ref.vm, "available")
           broken == Captured(stopped, ref.vm, "failed")
           r == [ref EXCEPT !.image = ref.vm]
<1>0. /\ OpenStackCall /\ ref.vm # 0 /\ ref.index >= Len(request.steps)
      /\ "stopped" \in VMStates /\ "available" \in ImageStates /\ "failed" \in ImageStates
  BY DEF finishOpenStackRemoteServer, Provisioned, VMStates, ImageStates
<1>1. ref.vm \in Servers /\ kind = "openstack" /\ mode = "building"
  BY <1>0, OpenStackFacts
<1>2. Sound(kind, request, stopped, ref)
  BY <1>0, <1>1, OpenStackFacts, InvFacts, VMSound
<1> HIDE DEF stopped
<1>3. Sound(kind, request, made, ref) /\ Sound(kind, request, broken, ref)
  BY <1>0, <1>1, <1>2, CapturedSound
<1>4. made \in Clouds(request) /\ made.image[ref.vm] = "available"
  <2>1. stopped \in Clouds(request)
    BY <1>2 DEF Sound, CloudShape
  <2> QED BY <1>0, <1>1, <2>1 DEF Captured, Clouds
<1> HIDE DEF made, broken
<1>5. ASSUME NEW c \in {cloud, stopped, made, broken},
             ErrorAfter(cleanupOpenStackRemoteResources(c, ref.vm))
      PROVE  BuildInv'
  BY <1>1, <1>2, <1>3, <1>5, InvFacts, OpenStackErrorKeeps
<1>6. ASSUME NEW o \in cleanupOpenStackRemoteResources(made, ref.vm),
             IF o.ok THEN Done(o.cloud, r) ELSE Error(o.cloud)
      PROVE  BuildInv'
  <2>1. /\ Reduced(request, made, o.cloud) /\ o.cloud.image = made.image
        /\ o.ok => ~Live(o.cloud, ref.vm)
    BY <1>0, <1>1, <1>4, OpenStackResourcesCleaned
  <2>2. Sound(kind, request, o.cloud, ref)
    BY <1>3, <2>1, ReducedSound
  <2>3. CASE o.ok
    <3>1. /\ RefShape(kind, request, r) /\ SameBuild(r, ref)
          /\ r.image = ref.vm /\ r.vm = ref.vm /\ r.direct = FALSE
      BY <1>0, FinishedRef, OpenStackFacts
    <3>2. Done(o.cloud, r)
      BY <1>6, <2>3
    <3> HIDE DEF r
    <3>3. Complete(kind, request, o.cloud, r)
      BY <1>0, <1>1, <1>4, <2>1, <2>3, <3>1 DEF Complete
    <3> QED BY <1>0, <1>1, <2>2, <3>1, <3>2, <3>3, DoneKeeps
  <2>4. CASE ~o.ok
    BY <1>1, <1>6, <2>2, <2>4, ErrorKeeps
  <2> QED BY <2>3, <2>4
<1> HIDE DEF r
<1> QED
  BY <1>5, <1>6 DEF finishOpenStackRemoteServer, made, broken, stopped, r

(* Every step of the OpenStack provider keeps the invariant.               *)
LEMMA OpenStackKeeps ==
  ASSUME BuildInv, OpenStackNext
  PROVE  BuildInv'
<1>1. CASE OpenStackRefuse
  BY <1>1, InvFacts, ErrorKeeps DEF OpenStackRefuse, Calls
<1> QED
  BY <1>1, startOpenStackKeeps, runOpenStackProvisionerKeeps, finishOpenStackKeeps,
     OpenStackCleanupKeeps
  DEF OpenStackNext

-----------------------------------------------------------------------------
(* vSphere                                                                 *)

(* vSphere cleaning only reduces the cloud.                                *)
LEMMA VSphereVMCleaned ==
  ASSUME NEW q, NEW c \in Clouds(q), NEW s \in Servers \cup {0},
         NEW o \in cleanupVSphereRemoteVM(c, s)
  PROVE  Reduced(q, c, o.cloud)
BY SkipFields, ReducedSame, ServerDeleted DEF cleanupVSphereRemoteVM

(* A vSphere error after its own cleanup keeps the invariant.              *)
LEMMA VSphereErrorKeeps ==
  ASSUME BuildInv, mode = "building", NEW c, Sound(kind, request, c, ref),
         NEW s \in Servers, ErrorAfter(cleanupVSphereRemoteVM(c, s))
  PROVE  BuildInv'
<1>1. c \in Clouds(request)
  BY DEF Sound, CloudShape
<1>2. \A o \in cleanupVSphereRemoteVM(c, s) : Reduced(request, c, o.cloud)
  BY <1>1, VSphereVMCleaned
<1> QED BY <1>2, ErrorAfterKeeps

(* vSphere's Cleanup keeps the invariant.                                  *)
LEMMA VSphereCleanupKeeps ==
  ASSUME BuildInv, VSphereCleanup
  PROVE  BuildInv'
<1>0. kind = "vsphere" /\ mode \in {"failing", "cleaning"} /\ ref.vm \in Servers \cup {0}
  BY InvFacts DEF VSphereCleanup, Cleans, References
<1>1. PICK o \in cleanupVSphereRemoteVM(cloud, ref.vm) : CleanupReturns(o.cloud, o.ok)
  BY DEF VSphereCleanup
<1>2. Sound(kind, request, o.cloud, ref)
  BY <1>0, InvFacts, VSphereVMCleaned, ReducedSound
<1>3. Clean(kind, request, o.cloud, saved)
  BY <1>0 DEF Clean
<1> QED BY <1>0, <1>1, <1>2, <1>3, CleanupReturnsKeeps

(* What holds at every vSphere call.                                       *)
LEMMA VSphereFacts ==
  ASSUME BuildInv, VSphereCall
  PROVE  /\ kind = "vsphere" /\ mode = "building" /\ ~WithoutServer(kind, request)
         /\ 1 \in Servers /\ (ref.vm # 0 => ref.vm = 1)
BY InvFacts, ServersAssumption DEF VSphereCall, Calls, WithoutServer, RefShape

(* cloneRemoteSource: the machine may be found or cloned, and the          *)
(* reference may be lost after that.                                       *)
LEMMA cloneRemoteSourceKeeps ==
  ASSUME BuildInv, cloneRemoteSource
  PROVE  BuildInv'
<1> DEFINE cloned == Created(1, "stopped")
           r == VSphereRef
<1>0. VSphereCall /\ ref.vm = 0 /\ "stopped" \in VMStates
  BY DEF cloneRemoteSource, VMStates
<1>1. Sound(kind, request, cloned, ref) /\ cloud.captured = {}
  BY <1>0, VSphereFacts, InvFacts, MadeSound DEF Created
<1>2. cloned.captured = {}
  BY <1>1, InvFacts DEF Created, Clouds
<1> HIDE DEF cloned
<1>3. RefShape(kind, request, r)
  BY <1>0, VSphereFacts, InvFacts DEF RefShape, References, VSphereRef, NoRef
<1>4. Sound(kind, request, cloned, r)
  <2>1. r.vm = 1 /\ r.index = 0 /\ r.command = FALSE
    BY DEF VSphereRef, NoRef
  <2>2. Progress(kind, request, cloned, r)
    BY <1>0, <1>2, <2>1, VSphereFacts DEF Progress
  <2> QED BY <1>1, <2>2 DEF Sound
<1>5. CASE Answer(cloned, r)
  BY <1>0, <1>1, <1>3, <1>4, <1>5, VSphereFacts, AnswerKeeps
<1>6. CASE Error(cloud) \/ Terminal(cloud) \/ Error(cloned)
  BY <1>0, <1>1, <1>6, VSphereFacts, InvFacts, ErrorKeeps
<1>7. CASE \/ deployRemoteLibrarySource(cloud) \/ deployRemoteLibrarySource(cloned)
           \/ ensureVSphereRemoteNIC(cloned)
  BY <1>0, <1>1, <1>7, VSphereFacts, InvFacts, VSphereErrorKeeps
  DEF deployRemoteLibrarySource, ensureVSphereRemoteNIC
<1> QED BY <1>5, <1>6, <1>7 DEF cloneRemoteSource, cloned

(* runVSphereProvisioner: the machine is powered on and the provisioner    *)
(* runs within the call.                                                   *)
LEMMA runVSphereProvisionerKeeps ==
  ASSUME BuildInv, runVSphereProvisioner
  PROVE  BuildInv'
<1> DEFINE ready == ensureRemoteVMReady
           ran == Ran(ready, ref.vm, ref.index + 1)
<1>0. /\ VSphereCall /\ ref.vm # 0 /\ ~(ref.index >= Len(request.steps))
      /\ "running" \in VMStates
  BY DEF runVSphereProvisioner, Provisioned, VMStates
<1>1. /\ ref.index < Len(request.steps) /\ ref.vm \in Servers /\ ref.vm = 1
      /\ ref.index + 1 \in DOMAIN request.steps
  BY <1>0, VSphereFacts, InvFacts DEF References
<1>2. Sound(kind, request, ready, ref)
  BY <1>0, <1>1, VSphereFacts, InvFacts, VMSound DEF ensureRemoteVMReady
<1> HIDE DEF ready
<1>3. Sound(kind, request, ran, ref) /\ ref.index + 1 \in ran.ran[ref.vm]
  BY <1>1, <1>2, InvFacts, RanSound
<1> HIDE DEF ran
<1>4. CASE Answer(ran, [ref EXCEPT !.index = @ + 1])
  BY <1>0, <1>1, <1>3, <1>4, VSphereFacts, StepAnswered
<1>5. CASE Error(cloud) \/ Error(ready)
  BY <1>0, <1>2, <1>5, VSphereFacts, InvFacts, ErrorKeeps
<1>6. CASE \/ ErrorAfter(cleanupVSphereRemoteVM(ready, ref.vm))
           \/ ErrorAfter(cleanupVSphereRemoteVM(ran, ref.vm))
  BY <1>0, <1>1, <1>2, <1>3, <1>6, VSphereFacts, VSphereErrorKeeps
<1> QED BY <1>4, <1>5, <1>6 DEF runVSphereProvisioner, ran, ready

(* finishRemoteVM: the machine becomes the image after its last            *)
(* provisioner, and is powered off where a template is asked for.          *)
LEMMA finishRemoteVMKeeps ==
  ASSUME BuildInv, finishRemoteVM
  PROVE  BuildInv'
<1> DEFINE off == [cloud EXCEPT !.vm[ref.vm] = "stopped"]
           done == [ref EXCEPT !.image = ref.vm]
           taken(c) == [c EXCEPT !.captured = @ \cup {ref.vm}]
<1>0. /\ VSphereCall /\ ref.vm # 0 /\ ref.index >= Len(request.steps)
      /\ "stopped" \in VMStates
  BY DEF finishRemoteVM, Provisioned, VMStates
<1>1. ref.vm \in Servers /\ ref.vm = 1 /\ kind = "vsphere" /\ mode = "building"
  BY <1>0, VSphereFacts
<1>2. Sound(kind, request, off, ref) /\ off.vm[ref.vm] = "stopped"
  <2>1. Sound(kind, request, off, ref)
    BY <1>0, <1>1, VSphereFacts, InvFacts, VMSound
  <2>2. off.vm[ref.vm] = "stopped"
    BY <1>1, InvFacts DEF Clouds
  <2> QED BY <2>1, <2>2
<1> HIDE DEF off
<1>3. ASSUME NEW c, Sound(kind, request, c, ref)
      PROVE  Sound(kind, request, taken(c), ref) /\ taken(c).vm = c.vm
  <2> DEFINE d == taken(c)
  <2>1. c \in Clouds(request)
    BY <1>3 DEF Sound, CloudShape
  <2>2. /\ d \in Clouds(request) /\ d.vm = c.vm /\ d.ran = c.ran
        /\ d.captured = c.captured \cup {ref.vm} /\ d.command = c.command
        /\ d.disk = c.disk
    BY <1>1, <2>1 DEF Clouds
  <2> HIDE DEF d
  <2>3. CloudShape(kind, request, d)
    BY <1>3, <2>2 DEF Sound, CloudShape
  <2>4. Progress(kind, request, d, ref)
    BY <1>0, <1>1, <1>3, <2>2 DEF Sound, Progress
  <2>5. Sound(kind, request, d, ref)
    BY <2>3, <2>4 DEF Sound
  <2> QED BY <2>2, <2>5 DEF d
<1> HIDE DEF taken
<1>4. /\ RefShape(kind, request, done) /\ SameBuild(done, ref)
      /\ done.image = ref.vm /\ done.vm = ref.vm
  BY <1>0, FinishedRef
<1> HIDE DEF done
<1>5. CASE Done(taken(off), done)
  <2>1. Complete(kind, request, taken(off), done)
    BY <1>1, <1>2, <1>3, <1>4 DEF Complete
  <2> QED BY <1>0, <1>1, <1>2, <1>3, <1>4, <1>5, <2>1, DoneKeeps
<1>6. CASE ~request.settings.template /\ Done(taken(cloud), done)
  <2>1. Complete(kind, request, taken(cloud), done)
    BY <1>1, <1>6 DEF Complete
  <2>2. Sound(kind, request, taken(cloud), ref)
    BY <1>3, InvFacts
  <2> QED BY <1>0, <1>1, <1>4, <1>6, <2>1, <2>2, DoneKeeps
<1>7. CASE \/ ErrorAfter(cleanupVSphereRemoteVM(cloud, ref.vm))
           \/ ErrorAfter(cleanupVSphereRemoteVM(off, ref.vm))
  BY <1>1, <1>2, <1>7, InvFacts, VSphereErrorKeeps
<1> QED BY <1>5, <1>6, <1>7 DEF finishRemoteVM, off, done, taken

(* Every step of the vSphere provider keeps the invariant.                 *)
LEMMA VSphereKeeps ==
  ASSUME BuildInv, VSphereNext
  PROVE  BuildInv'
<1>1. CASE VSphereRefuse
  BY <1>1, InvFacts, ErrorKeeps DEF VSphereRefuse, Calls
<1> QED
  BY <1>1, cloneRemoteSourceKeeps, runVSphereProvisionerKeeps, finishRemoteVMKeeps,
     VSphereCleanupKeeps
  DEF VSphereNext

-----------------------------------------------------------------------------
(* GCP                                                                     *)

(* GCP changes the state of its image only.                                *)
LEMMA GCPImageSet ==
  ASSUME BuildInv, NEW x \in ImageStates
  PROVE  LET d == [cloud EXCEPT !.image[1] = x] IN
         Sound(kind, request, d, ref) /\ d.image[1] = x
<1> DEFINE d == [cloud EXCEPT !.image[1] = x]
<1>0. 1 \in Servers
  BY ServersAssumption
<1>1. /\ d \in Clouds(request) /\ d.vm = cloud.vm /\ d.ran = cloud.ran
      /\ d.captured = cloud.captured /\ d.command = cloud.command
      /\ d.disk = cloud.disk /\ d.image[1] = x
  BY <1>0, InvFacts DEF Clouds
<1> HIDE DEF d
<1>2. Sound(kind, request, d, ref)
  BY <1>1, InvFacts, AlikeSound
<1> QED BY <1>1, <1>2 DEF d

(* CreateImageFromSource: the build is ready only when its image is        *)
(* available.                                                              *)
LEMMA GCPImageKeeps ==
  ASSUME BuildInv, CreateImageFromSource
  PROVE  BuildInv'
<1> DEFINE r == [NoRef EXCEPT !.image = 1]
           made(x) == [cloud EXCEPT !.image[1] = x]
<1>0. /\ kind = "gcp" /\ mode = "building" /\ WithoutServer(kind, request)
      /\ 1 \in Servers /\ {"pending", "available", "failed"} \subseteq ImageStates
      /\ cloud.image[1] \in ImageStates
  BY InvFacts, ServersAssumption
  DEF CreateImageFromSource, Calls, WithoutServer, ImageStates, Clouds
<1>1. PICK state \in ImageStates :
        \/ state = "available" /\ Done(made(state), r)
        \/ Error(made(state))
        \/ Error(cloud)
  BY <1>0 DEF CreateImageFromSource
<1>2. Sound(kind, request, made(state), ref) /\ made(state).image[1] = state
  BY GCPImageSet
<1> HIDE DEF made
<1>3. /\ r.vm = 0 /\ r.index = 0 /\ r.command = FALSE /\ r.evidence = "none"
      /\ r.image = 1 /\ r.direct = FALSE /\ r \in References(request)
  <2>1. 0 \in 0 .. Len(request.steps)
    BY InvFacts
  <2> QED BY <1>0, <2>1, RefFields
<1> HIDE DEF r
<1>4. RefShape(kind, request, r) /\ SameBuild(r, ref)
  BY <1>0, <1>3, DirectRef DEF RefShape
<1>5. CASE state = "available" /\ Done(made(state), r)
  <2>1. Complete(kind, request, made(state), r)
    BY <1>0, <1>2, <1>3, <1>5 DEF Complete
  <2> QED BY <1>0, <1>2, <1>3, <1>4, <1>5, <2>1, DoneKeeps
<1>6. CASE Error(made(state)) \/ Error(cloud)
  BY <1>0, <1>2, <1>6, InvFacts, ErrorKeeps
<1> QED BY <1>1, <1>5, <1>6

(* GCP's Cleanup keeps the invariant: no error means that the image is     *)
(* gone.                                                                   *)
LEMMA GCPCleanupKeeps ==
  ASSUME BuildInv, GCPCleanup
  PROVE  BuildInv'
<1> DEFINE d == [cloud EXCEPT !.image[1] = "none"]
<1>0. kind = "gcp" /\ mode \in {"failing", "cleaning"} /\ "none" \in ImageStates
  BY DEF GCPCleanup, Cleans, ImageStates
<1>1. Sound(kind, request, d, ref) /\ d.image[1] = "none"
  BY <1>0, GCPImageSet
<1> HIDE DEF d
<1>2. CASE ref.image = 0 /\ CleanupReturns(cloud, TRUE)
  <2>1. saved.image = 0
    BY <1>2 DEF BuildInv
  <2>2. Clean(kind, request, cloud, saved)
    BY <1>0, <2>1 DEF Clean
  <2> QED BY <1>0, <1>2, <2>2, InvFacts, CleanupReturnsKeeps
<1>3. CASE CleanupReturns(cloud, FALSE)
  BY <1>0, <1>3, InvFacts, CleanupReturnsKeeps
<1>4. CASE CleanupReturns(d, TRUE)
  <2>1. Clean(kind, request, d, saved)
    BY <1>0, <1>1 DEF Clean
  <2> QED BY <1>0, <1>1, <1>4, <2>1, CleanupReturnsKeeps
<1> QED BY <1>2, <1>3, <1>4 DEF GCPCleanup, d

(* Every step of the GCP provider keeps the invariant.                     *)
LEMMA GCPKeeps ==
  ASSUME BuildInv, GCPNext
  PROVE  BuildInv'
<1>1. CASE GCPRefuse
  BY <1>1, InvFacts, ErrorKeeps DEF GCPRefuse, Calls
<1> QED
  BY <1>1, GCPImageKeeps, GCPCleanupKeeps DEF GCPNext

-----------------------------------------------------------------------------
(* The platform, the controller and the whole                              *)

(* A server that starts, stops or fails on its own keeps the invariant.    *)
LEMMA ServerMovesKeeps ==
  ASSUME BuildInv, ServerMoves
  PROVE  BuildInv'
<1>0. UNCHANGED <<kind, request, ref, saved, mode>>
  BY DEF ServerMoves
<1>1. PICK s \in Servers, now \in VMStates :
        /\ <<cloud.vm[s], now>> \in {<<"pending", "running">>,
                                     <<"stopping", "stopped">>,
                                     <<"running", "stopped">>}
        /\ cloud' = [cloud EXCEPT !.vm[s] = now]
  BY DEF ServerMoves
<1>2. cloud.vm[s] \notin {"none", "gone", "stopped"} /\ now \notin {"none", "gone"}
  BY <1>1
<1>3. Sound(kind, request, cloud', ref)
  BY <1>1, <1>2, InvFacts, VMSound
<1>4. /\ cloud'.vm = [cloud.vm EXCEPT ![s] = now] /\ cloud'.image = cloud.image
      /\ cloud'.disk = cloud.disk /\ cloud.vm \in [Servers -> VMStates]
  BY <1>1, InvFacts DEF Clouds
<1>5. \A t \in Servers : /\ cloud.vm[t] = "stopped" => cloud'.vm[t] = "stopped"
                         /\ ~Live(cloud, t) => ~Live(cloud', t)
  BY <1>2, <1>4 DEF Live
<1>6. ref.vm \in Servers \cup {0} /\ saved.vm \in Servers \cup {0}
  BY InvFacts DEF References
<1>7. mode = "ready" => Complete(kind, request, cloud', ref)
  <2> SUFFICES ASSUME mode = "ready" PROVE Complete(kind, request, cloud', ref)
    OBVIOUS
  <2>1. Complete(kind, request, cloud, ref)
    BY DEF BuildInv
  <2>2. CASE ref.vm # 0
    BY <1>4, <1>5, <1>6, <2>1, <2>2 DEF Complete
  <2>3. CASE ref.vm = 0
    BY <1>4, <2>1, <2>3 DEF Complete
  <2> QED BY <2>2, <2>3
<1>8. mode = "cleaned" => Clean(kind, request, cloud', saved)
  BY <1>4, <1>5, <1>6 DEF BuildInv, Clean
<1> QED
  BY <1>0, <1>3, <1>7, <1>8 DEF BuildInv

(* An image that becomes available or fails on its own keeps the           *)
(* invariant.                                                              *)
LEMMA ImageSettlesKeeps ==
  ASSUME BuildInv, ImageSettles
  PROVE  BuildInv'
<1>0. UNCHANGED <<kind, request, ref, saved, mode>>
  BY DEF ImageSettles
<1>1. PICK s \in Servers, now \in {"available", "failed"} :
        cloud.image[s] = "pending" /\ cloud' = [cloud EXCEPT !.image[s] = now]
  BY DEF ImageSettles
<1>2. now \in ImageStates
  BY DEF ImageStates
<1>3. /\ cloud' \in Clouds(request) /\ cloud'.image = [cloud.image EXCEPT ![s] = now]
      /\ cloud'.vm = cloud.vm /\ cloud'.ran = cloud.ran
      /\ cloud'.captured = cloud.captured /\ cloud'.command = cloud.command
      /\ cloud'.disk = cloud.disk /\ cloud.image \in [Servers -> ImageStates]
  BY <1>1, <1>2, InvFacts DEF Clouds
<1>4. Sound(kind, request, cloud', ref)
  BY <1>3, InvFacts, AlikeSound
<1>5. \A t : cloud.image[t] # "pending" => cloud'.image[t] = cloud.image[t]
  BY <1>1, <1>3
<1>6. mode = "ready" => Complete(kind, request, cloud', ref)
  BY <1>3, <1>5 DEF BuildInv, Complete, Live
<1>7. mode = "cleaned" => Clean(kind, request, cloud', saved)
  BY <1>3, <1>5 DEF BuildInv, Clean, Live
<1> QED
  BY <1>0, <1>4, <1>6, <1>7 DEF BuildInv

(* A build starts with no reference and an empty cloud.                    *)
LEMMA BuildInvInit ==
  ASSUME Init
  PROVE  BuildInv
<1>0. /\ kind \in Kinds /\ request \in Requests /\ mode = "building"
      /\ ref = NoRef /\ saved = NoRef
      /\ request.steps \in Seq(Provisioners) /\ Len(request.steps) \in Nat
  BY RequestsAssumption DEF Init
<1>1. NoRef = [vm |-> 0, image |-> 0, index |-> 0, command |-> FALSE,
               evidence |-> "none", direct |-> FALSE]
  BY DEF NoRef
<1>2. NoRef \in References(request)
  BY <1>0, <1>1 DEF References
<1>3. RefShape(kind, request, NoRef)
  BY <1>1, <1>2 DEF RefShape
<1>4. /\ cloud \in Clouds(request) /\ cloud.command = "none" /\ cloud.disk = FALSE
      /\ cloud.captured = {} /\ \A s \in Servers : cloud.vm[s] = "none"
  BY DEF Init, Clouds, VMStates, ImageStates
<1>5. CloudShape(kind, request, cloud)
  BY <1>4 DEF CloudShape
<1>6. Progress(kind, request, cloud, NoRef)
  BY <1>1, <1>4 DEF Progress
<1> QED
  BY <1>0, <1>1, <1>3, <1>5, <1>6 DEF BuildInv, Sound, SameBuild

(* Every step of a provider, the platform or the controller keeps the      *)
(* invariant.                                                              *)
LEMMA BuildInvStep ==
  ASSUME BuildInv, [Next]_vars
  PROVE  BuildInv'
<1>1. CASE UNCHANGED vars
  BY <1>1 DEF vars, BuildInv
<1>2. CASE StartCleanup
  BY <1>2 DEF StartCleanup, BuildInv
<1> QED
  BY <1>1, <1>2, AWSKeeps, AzureKeeps, OpenStackKeeps, VSphereKeeps, GCPKeeps,
     ServerMovesKeeps, ImageSettlesKeeps
  DEF Next, CloudMoves

(* The invariant holds throughout every remote build.                      *)
LEMMA BuildInvHolds == Spec => []BuildInv
<1>1. Init => BuildInv
  BY BuildInvInit
<1>2. BuildInv /\ [Next]_vars => BuildInv'
  BY BuildInvStep
<1> QED
  BY <1>1, <1>2, PTL DEF Spec

(* Remote builds are type correct: request, cloud, reference and mode keep *)
(* their types, whichever provider runs the build.                         *)
THEOREM ClientsTypeCorrect == Spec => []TypeOK
<1>1. BuildInv => TypeOK
  BY InvFacts DEF BuildInv, TypeOK, References, Clouds, Steps
<1> QED
  BY <1>1, BuildInvHolds, PTL

(* No provider makes an image of a server on which a provisioner of the    *)
(* request has not run, nor on Azure before the evidence passed, however   *)
(* answers are lost and calls repeated (createImage, finishRemoteBuildVM,  *)
(* finishOpenStackRemoteServer, finishRemoteVM).                           *)
THEOREM OnlyProvisionedCaptured == Spec => []CapturesProvisioned
<1>1. BuildInv => CapturesProvisioned
  <2> SUFFICES ASSUME BuildInv, NEW s \in cloud.captured
               PROVE  /\ Steps \subseteq cloud.ran[s]
                      /\ kind = "azure" /\ request.evidence => ref.evidence = "passed"
    BY DEF CapturesProvisioned
  <2>1. s \in Servers /\ s # 0
    BY InvFacts, ServersAssumption DEF Clouds
  <2>2. /\ s = ref.vm /\ ref.index >= Len(request.steps)
        /\ 1 .. ref.index \subseteq cloud.ran[s]
        /\ kind = "azure" /\ request.evidence => ref.evidence = "passed"
    BY <2>1, InvFacts DEF Sound, Progress
  <2>3. ref.index \in 0 .. Len(request.steps) /\ Steps = 1 .. Len(request.steps)
    BY InvFacts DEF References, Steps
  <2> QED BY <2>2, <2>3, InvFacts
<1> QED
  BY <1>1, BuildInvHolds, PTL

(* A build its provider calls ready has an available image, and the server *)
(* it was made on is gone; on vSphere the template is powered off where    *)
(* one was asked for. An AWS image of a snapshot is taken in any state,    *)
(* and left out.                                                           *)
THEOREM ReadyBuildsAreComplete == Spec => []ReadyIsComplete
<1>1. BuildInv => ReadyIsComplete
  BY DEF BuildInv, ReadyIsComplete, Complete
<1> QED
  BY <1>1, BuildInvHolds, PTL

(* A Cleanup that returned no error removed what it can find: on AWS and   *)
(* Azure every server of the build, the image of an AWS instance and the   *)
(* Azure disk, even where the reference was lost; on OpenStack and GCP the *)
(* server or the image that the saved reference names. vSphere promises    *)
(* nothing.                                                                *)
THEOREM CleanupIsThorough == Spec => []CleanedUp
<1>1. BuildInv => CleanedUp
  BY RequestsAssumption DEF BuildInv, CleanedUp, Clean
<1> QED
  BY <1>1, BuildInvHolds, PTL
=============================================================================
