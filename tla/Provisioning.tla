---------------------------- MODULE Provisioning ----------------------------
(***************************************************************************)
(* The provisioner steps of an ISO build: SequentialProvisionerRunner of   *)
(* pkg/builder/provisioning.go in the build container, and cmd/provisioner *)
(* in the restartable init containers ("sidecars") of the same Pod.  They  *)
(* speak through files on the shared workspace: the runner writes          *)
(* step-N/config.json, the sidecar answers with step-N/status.json.        *)
(*                                                                         *)
(* A step is named by its place in the manifest.  The kinds: "ansible"     *)
(* stands for the types run by a sidecar, "shell" for those run in the     *)
(* builder; cloud-init steps are consumed before boot and sysprep is run   *)
(* by itself, last.                                                        *)
(***************************************************************************)
EXTENDS Naturals, Sequences, SequencesExt

CONSTANTS
  Manifests,    \* spec.provisioners of a build: the kind of each step
  MaxRestarts   \* bound on the restarts of sidecars

Kinds == {"cloud-init", "shell", "ansible", "sysprep"}

ASSUME ManifestAssumption == Manifests \subseteq Seq(Kinds)
ASSUME RestartsAssumption == MaxRestarts \in Nat

VARIABLES
  manifest,  \* provisioners.json, as the controller rendered it
  dirs,      \* the step directories: config.json and status.json
  runner,    \* SequentialProvisionerRunner.Run
  reported,  \* provisioners-result.json
  sidecars,  \* the provisioner containers
  restarts,  \* of sidecars, so far
  ran        \* history: the steps carried out on the guest, in order

provVars == <<manifest, dirs, runner, reported, sidecars, restarts, ran>>

Steps == DOMAIN manifest
StepDirs == 0 .. (Len(manifest) - 1)
InitContainerKinds == {"ansible"}
isInitContainer(kind) == kind \in InitContainerKinds

(* The steps of some kinds, as a loop over the manifest m collects them.   *)
Select(m, kinds) ==
  LET upTo[n \in 0 .. Len(m)] ==
        IF n = 0 THEN <<>>
        ELSE IF m[n] \in kinds THEN Append(upTo[n - 1], n) ELSE upTo[n - 1]
  IN upTo[Len(m)]
StepsOf(kinds) == Select(manifest, kinds)

(* buildInitContainers: one sidecar per init-container step, counted from 0 *)
Sidecars == 0 .. (Len(StepsOf(InitContainerKinds)) - 1)

(* The sidecars' steps with a step run in the builder before them: their   *)
(* directories are not those of their places in the run (see StepDir).     *)
Displaced == {i \in Steps : /\ isInitContainer(manifest[i])
                            /\ \E j \in Steps : j < i /\ manifest[j] = "shell"}

Answers == {"success", "failure"}

ProvTypeOK ==
  /\ manifest \in Manifests
  /\ dirs \in [StepDirs -> [config : Steps \cup {0},
                            status : {"none", "partial"} \cup Answers]]
  /\ runner \in [pc : {"idle", "step", "running", "waiting", "failed"},
                 specs : Seq(Steps), step : Nat, external : Nat,
                 statuses : Seq([id : Steps, ok : BOOLEAN])]
  /\ reported \in Seq([id : Steps, ok : BOOLEAN])
  /\ sidecars \in [Sidecars -> [pc : {"waiting", "running", "answer",
                                      "writing", "idle", "backoff"},
                                id : Steps \cup {0},
                                answer : Answers]]
  /\ restarts \in 0 .. MaxRestarts
  /\ ran \in Seq(Steps)

NoRun == [pc |-> "idle", specs |-> <<>>, step |-> 0, external |-> 0,
          statuses |-> <<>>]

ProvInit ==
  /\ manifest \in Manifests
  /\ dirs = [d \in StepDirs |-> [config |-> 0, status |-> "none"]]
  /\ runner = NoRun
  /\ reported = <<>>
  /\ sidecars = [i \in Sidecars |->
                   [pc |-> "waiting", id |-> 0, answer |-> "failure"]]
  /\ restarts = 0
  /\ ran = <<>>

(* ---- SequentialProvisionerRunner.Run ---------------------------------- *)

(* Run of some steps: both counters start at 0 again.                      *)
BeginRun(specs) == runner' = [NoRun EXCEPT !.pc = "step", !.specs = specs]

HasStep == runner.pc = "step" /\ runner.step < Len(runner.specs)
RunDone == runner.pc = "step" /\ runner.step = Len(runner.specs)
Current == runner.specs[runner.step + 1]

(* A sidecar's step goes to the directory of the sidecar, which has its    *)
(* own count; any other step to the directory of its place in the run.     *)
StepDir == IF isInitContainer(manifest[Current]) THEN runner.external
                                                 ELSE runner.step

(* A plausible fault: a failed step is reported and the run goes on.       *)
MutConclude(ok) ==
  /\ reported' = Append(runner.statuses, [id |-> Current, ok |-> ok])
  /\ runner' = [runner EXCEPT
        !.pc = "step", !.step = @ + 1,
        !.external = IF isInitContainer(manifest[Current]) THEN @ + 1 ELSE @,
        !.statuses = Append(@, [id |-> Current, ok |-> ok])]

(* The status of the step is appended, provisioners-result.json written,   *)
(* and the run goes on or ends with an error.                              *)
Conclude(ok) ==
  LET statuses == Append(runner.statuses, [id |-> Current, ok |-> ok])
      external == isInitContainer(manifest[Current])
  IN /\ reported' = statuses
     /\ runner' = [runner EXCEPT
                     !.pc = IF ok THEN "step" ELSE "failed",
                     !.step = @ + 1,
                     !.external = IF external THEN @ + 1 ELSE @,
                     !.statuses = statuses]

(* writeProvisionerInput; the file is replaced at once.  If that fails the *)
(* step does.                                                              *)
StartStep ==
  /\ HasStep
  /\ \/ /\ dirs' = [dirs EXCEPT ![StepDir].config = Current]
        /\ runner' = [runner EXCEPT !.pc =
                         IF isInitContainer(manifest[Current])
                           THEN "waiting" ELSE "running"]
        /\ UNCHANGED reported
     \/ /\ dirs' = [dirs EXCEPT ![StepDir].status = "failure"]
        /\ Conclude(FALSE)
  /\ UNCHANGED <<manifest, sidecars, restarts, ran>>

(* An in-process step: validated and run through the guest's ssh or WinRM. *)
RunInProcess(reachable) ==
  /\ runner.pc = "running"
  /\ \E ok \in BOOLEAN :
       /\ ok => reachable
       /\ ran' = IF ok THEN Append(ran, Current) ELSE ran
       /\ dirs' = [dirs EXCEPT ![StepDir].status =
                                 IF ok THEN "success" ELSE "failure"]
       /\ Conclude(ok)
  /\ UNCHANGED <<manifest, sidecars, restarts>>

(* readProvisionerOutput: a file that is missing, empty or cut short is no *)
(* answer yet.                                                             *)
readProvisionerOutput(d) == dirs[d].status \in Answers

waitForInitContainerOutput ==
  /\ runner.pc = "waiting"
  /\ readProvisionerOutput(StepDir)
  /\ Conclude(dirs[StepDir].status = "success")
  /\ UNCHANGED <<manifest, dirs, sidecars, restarts, ran>>

(* A plausible fault: the wait looks at the context only after an answer.  *)
MutWaitExpires ==
  /\ runner.pc = "waiting"
  /\ readProvisionerOutput(StepDir)
  /\ dirs' = [dirs EXCEPT ![StepDir].status = "failure"]
  /\ Conclude(FALSE)
  /\ UNCHANGED <<manifest, sidecars, restarts, ran>>

(* The context of the build ends the wait.                                 *)
WaitExpires ==
  /\ runner.pc = "waiting"
  /\ dirs' = [dirs EXCEPT ![StepDir].status = "failure"]
  /\ Conclude(FALSE)
  /\ UNCHANGED <<manifest, sidecars, restarts, ran>>

(* ---- cmd/provisioner --------------------------------------------------- *)

waitForInput(i) ==
  /\ sidecars[i].pc = "waiting"
  /\ dirs[i].config # 0
  /\ sidecars' = [sidecars EXCEPT ![i].pc = "running",
                                  ![i].id = dirs[i].config]
  /\ UNCHANGED <<manifest, dirs, runner, reported, restarts, ran>>

(* The tool runs against the guest; the image has only the sidecar types.  *)
SidecarRuns(i, reachable) ==
  /\ sidecars[i].pc = "running"
  /\ \E ok \in BOOLEAN :
       /\ ok => reachable /\ isInitContainer(manifest[sidecars[i].id])
       /\ ran' = IF ok THEN Append(ran, sidecars[i].id) ELSE ran
       /\ sidecars' = [sidecars EXCEPT
                         ![i].pc = "answer",
                         ![i].answer = IF ok THEN "success" ELSE "failure"]
  /\ UNCHANGED <<manifest, dirs, runner, reported, restarts>>

(* writeStatus truncates the file, then fills it.  A sidecar that failed   *)
(* exits and is started again by the kubelet.                              *)
writeStatus(i) ==
  \/ /\ sidecars[i].pc = "answer"
     /\ dirs' = [dirs EXCEPT ![i].status = "partial"]
     /\ sidecars' = [sidecars EXCEPT ![i].pc = "writing"]
     /\ UNCHANGED <<manifest, runner, reported, restarts, ran>>
  \/ /\ sidecars[i].pc = "writing"
     /\ dirs' = [dirs EXCEPT ![i].status = sidecars[i].answer]
     /\ sidecars' = [sidecars EXCEPT
          ![i].pc = IF sidecars[i].answer = "success" THEN "idle"
                                                      ELSE "backoff"]
     /\ UNCHANGED <<manifest, runner, reported, restarts, ran>>

(* The container starts again, after an exit or when it is lost at any     *)
(* point, and looks for its config as if for the first time.               *)
Restart(i) ==
  /\ restarts < MaxRestarts
  /\ sidecars[i].pc # "waiting"
  /\ restarts' = restarts + 1
  /\ sidecars' = [sidecars EXCEPT ![i].pc = "waiting", ![i].id = 0]
  /\ UNCHANGED <<manifest, dirs, runner, reported, ran>>

RunnerStep(reachable) ==
  StartStep \/ RunInProcess(reachable) \/ waitForInitContainerOutput

SidecarStep(reachable) ==
  \E i \in Sidecars :
    waitForInput(i) \/ SidecarRuns(i, reachable) \/ writeStatus(i) \/ Restart(i)
=============================================================================
