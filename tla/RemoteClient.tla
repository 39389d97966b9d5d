---------------------------- MODULE RemoteClient ----------------------------
(***************************************************************************)
(* One remote build as a provider's client sees it (remote_client.go of    *)
(* each plugin).  The controller calls ReconcileRemoteBuild again and      *)
(* again with the operation reference it has saved, and CleanupRemoteBuild *)
(* when the build fails, times out or is deleted.  A call changes the      *)
(* cloud and then answers; an API call of it may fail after its effect,    *)
(* and the answer may be lost before the reference is saved.               *)
(*                                                                         *)
(* RemoteAWS, RemoteAzure, RemoteOpenStack, RemoteVSphere and RemoteGCP    *)
(* are the clients.  What they have in common is here.                     *)
(***************************************************************************)
EXTENDS Integers, Sequences, FiniteSets

CONSTANTS
  Kinds,     \* the providers of this instance
  Requests,  \* the remote build requests of this instance
  Servers    \* bound: the servers that one build may make

ASSUME ServersAssumption == Servers \subseteq Nat \ {0} /\ 1 \in Servers

Provisioners == [type : {"shell", "powershell", "file", "evidence"},
                 inline : BOOLEAN, dest : BOOLEAN]

(* What the properties need of a request: its provisioners are a list, and *)
(* whether evidence is required is settled.                                *)
ASSUME RequestsAssumption ==
  /\ Kinds \subseteq {"aws", "azure", "openstack", "vsphere", "gcp"}
  /\ \A q \in Requests : q.steps \in Seq(Provisioners) /\ q.evidence \in BOOLEAN

VARIABLES
  kind,     \* the provider
  request,  \* platform.RemoteBuildRequest, with the provider's settings
  cloud,    \* what the provider's platform holds for the build
  ref,      \* the operation reference of the running reconcile
  saved,    \* the operation reference in the status of the VMImage
  mode      \* what the controller does

vars == <<kind, request, cloud, ref, saved, mode>>

VMStates == {"none", "pending", "running", "stopping", "stopped", "gone"}
ImageStates == {"none", "pending", "available", "failed"}

Steps == DOMAIN request.steps

(* "none" and "gone": no server (yet, any more).                           *)
Live(c, s) == c.vm[s] \notin {"none", "gone"}

(* The reference of a new build.  direct: it names the source of an image  *)
(* that was registered without a build server.                             *)
NoRef == [vm |-> 0, image |-> 0, index |-> 0, command |-> FALSE,
          evidence |-> "none", direct |-> FALSE]

TypeOK ==
  /\ kind \in Kinds /\ request \in Requests
  /\ cloud \in [vm : [Servers -> VMStates], ran : [Servers -> SUBSET Steps],
                command : {"none", "running", "succeeded", "failed"},
                disk : BOOLEAN, captured : SUBSET Servers, image : [Servers -> ImageStates],
                snapshots : SUBSET Servers]
  /\ {ref, saved} \subseteq
       [vm : Servers \cup {0}, image : Servers \cup {0},
        index : 0 .. Len(request.steps), command : BOOLEAN,
        evidence : {"none", "passed", "failed"}, direct : BOOLEAN]
  /\ mode \in {"building", "ready", "failing", "cleaning", "cleaned"}

Init ==
  /\ kind \in Kinds /\ request \in Requests
  /\ cloud = [vm |-> [s \in Servers |-> "none"], ran |-> [s \in Servers |-> {}],
              command |-> "none", disk |-> FALSE, captured |-> {},
              image |-> [s \in Servers |-> "none"], snapshots |-> {}]
  /\ ref = NoRef /\ saved = NoRef
  /\ mode = "building"

-----------------------------------------------------------------------------
(* The cloud                                                               *)

Created(s, state) == [cloud EXCEPT !.vm[s] = state, !.ran[s] = {}]
Deleted(c, s) == [c EXCEPT !.vm[s] = "gone"]
Ran(c, s, i) == [c EXCEPT !.ran[s] = @ \cup {i}]

(* captured: the servers whose disk has become an image.                   *)
Captured(c, s, state) ==
  [c EXCEPT !.image[s] = state, !.captured = @ \cup {s}]

(* What a deletion may come to: the cloud it leaves and the answer.        *)
Outcome(c, ok) == [cloud |-> c, ok |-> ok]
Skip(c) == {Outcome(c, TRUE)}
DeleteServer(c, s) ==
  {Outcome(c, FALSE), Outcome(IF Live(c, s) THEN Deleted(c, s) ELSE c, TRUE)}

(* The platform's own steps.                                               *)
ServerMoves ==
  /\ \E s \in Servers, now \in VMStates :
       /\ <<cloud.vm[s], now>> \in {<<"pending", "running">>,
                                    <<"stopping", "stopped">>,
                                    <<"running", "stopped">>}
       /\ cloud' = [cloud EXCEPT !.vm[s] = now]
  /\ UNCHANGED <<kind, request, ref, saved, mode>>

ImageSettles ==
  /\ \E s \in Servers, now \in {"available", "failed"} :
       /\ cloud.image[s] = "pending"
       /\ cloud' = [cloud EXCEPT !.image[s] = now]
  /\ UNCHANGED <<kind, request, ref, saved, mode>>

-----------------------------------------------------------------------------
(* The controller (reconcileRemoteBuild, cleanupRemoteBuild)               *)

Calls(k) == kind = k /\ mode = "building"
Cleans(k) == kind = k /\ mode \in {"failing", "cleaning"}

(* An answer with the reference r; the update of the status may fail.      *)
Answer(c, r) ==
  /\ cloud' = c
  /\ saved' \in {r, saved} /\ ref' = saved'
  /\ UNCHANGED <<kind, request, mode>>

(* Hygiene that failed (AWS says so of a build with an SSH key or open     *)
(* groups), or required evidence that did not pass.                        *)
Rejected(r) ==
  \/ kind = "aws" /\ ~r.direct
     /\ (request.settings.allowKey \/ request.settings.allowPublic)
  \/ request.evidence /\ r.evidence # "passed"

(* The build is reported as done.  What the controller rejects it cleans   *)
(* up with the new reference, which it has not saved.                      *)
Done(c, r) ==
  /\ cloud' = c
  /\ IF Rejected(r)
       THEN ref' = r /\ mode' = "failing" /\ UNCHANGED saved
       ELSE \/ ref' = r /\ saved' = r /\ mode' = "ready"
            \/ UNCHANGED <<ref, saved, mode>>
  /\ UNCHANGED <<kind, request>>

(* A terminal error makes the controller clean up.                         *)
Terminal(c) ==
  /\ cloud' = c
  /\ mode' = "failing"
  /\ UNCHANGED <<kind, request, ref, saved>>

(* Classify: time-outs, throttling and server errors are transient and are *)
(* tried again with the same reference; any other error is terminal.       *)
Error(c) ==
  \/ Terminal(c)
  \/ cloud' = c /\ UNCHANGED <<kind, request, ref, saved, mode>>

(* A failed cleanup is repeated for a build that has timed out or is being *)
(* deleted; after a terminal error the next reconcile calls the provider   *)
(* again, with the saved reference.                                        *)
CleanupReturns(c, ok) ==
  /\ cloud' = c
  /\ mode' = IF ok THEN "cleaned" ELSE IF mode = "failing" THEN "building" ELSE mode
  /\ ref' = saved
  /\ UNCHANGED <<kind, request, saved>>

(* The build times out, or the VMImage is deleted: in any phase.           *)
StartCleanup ==
  /\ mode \in {"building", "ready", "cleaned"}
  /\ mode' = "cleaning"
  /\ UNCHANGED <<kind, request, cloud, ref, saved>>

-----------------------------------------------------------------------------
(* Requests                                                                *)

(* The command of a provisioner can be built: a script has content, and a  *)
(* file a destination too, for an operating system that runs it.           *)
Buildable(q, p) ==
  /\ p.inline
  /\ p.type = "shell" => q.family = "linux"
  /\ p.type = "powershell" => q.family = "windows"
  /\ p.type = "file" => p.dest /\ q.family \in {"linux", "windows"}

(* The types a client admits before it starts anything; the content is     *)
(* looked at only when the command is built.                               *)
AdmittedTypes(q, types) ==
  \A i \in DOMAIN q.steps :
    /\ q.steps[i].type \in types
    /\ q.steps[i].type = "shell" => q.family # "windows"
    /\ q.steps[i].type = "powershell" => q.family # "linux"

(* An error after which the client tries to delete what it has made; the   *)
(* result of that is not looked at.                                        *)
ErrorAfter(outcomes) == \E o \in outcomes : Error(o.cloud)

(* The next provisioner of the reference.                                  *)
NextStep == request.steps[ref.index + 1]
Provisioned == ref.index >= Len(request.steps)
=============================================================================
