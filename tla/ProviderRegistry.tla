-------------------------- MODULE ProviderRegistry --------------------------
(***************************************************************************)
(* External providers: the PlatformProvider controller                     *)
(* (pkg/controller/provider), the registry of adapters that it shares with *)
(* the VMImage controller (pkg/plugin/registry.go), and the connections of *)
(* the adapters (pkg/plugin/grpc).                                         *)
(*                                                                         *)
(* One installation name is enough: entries of different names have        *)
(* nothing in common.  Resources of that name follow one another, each     *)
(* with its UID.  The controller runs one Reconcile at a time; it reads    *)
(* the cache, which lags, and its updates fail when the object has changed *)
(* since.  A provider's package is a number, which also stands for the     *)
(* capabilities that its process advertises.                               *)
(***************************************************************************)
EXTENDS Integers, FiniteSets

CONSTANTS
  MaxUID,       \* bound: resources of the name, one after the other
  MaxPackage,   \* packages 1 .. MaxPackage
  Misnamed,     \* packages whose process advertises another provider name
  MaxAdapters,  \* connections that may be open at a time
  MaxChanges    \* bound: edits, policy changes, failures and restarts

ASSUME RegistryAssumption ==
  /\ MaxUID \in Nat \ {0} /\ MaxPackage \in Nat \ {0} /\ Misnamed \subseteq 1 .. MaxPackage
  /\ MaxAdapters \in Nat \ {0} /\ MaxChanges \in Nat

VARIABLES
  pp,        \* the PlatformProvider in the API server
  lastUID,   \* UIDs given out
  cache,     \* the controllers' copy of pp
  dep,       \* the Deployment of the provider
  proc,      \* the process that answers on the Service
  policy,    \* what policies and the signature verifier say of the resource
  registry,  \* the external entry of the name
  adapters,  \* for each connection, the capabilities that it read, 0: closed
  rec,       \* the running Reconcile
  call,      \* a call of the VMImage controller that uses an adapter
  changes    \* what has happened so far of the bounded kind

vars == <<pp, lastUID, cache, dep, proc, policy, registry, adapters, rec, call, changes>>
env == <<lastUID, policy, changes>>

Packages == 1 .. MaxPackage
Adapters == 1 .. MaxAdapters

NoProvider == [uid |-> 0, deleting |-> FALSE, finalizer |-> FALSE, package |-> 0,
               phase |-> "", caps |-> 0]
NoDeployment == [owner |-> 0, package |-> 0, ready |-> FALSE]
NoEntry == [uid |-> 0, adapter |-> 0]
Idle == [pc |-> "idle", pp |-> NoProvider, adapter |-> 0]
NoCall == [adapter |-> 0, cut |-> "no"]

Providers == [uid : 0 .. MaxUID, deleting : BOOLEAN, finalizer : BOOLEAN,
              package : 0 .. MaxPackage, caps : 0 .. MaxPackage,
              phase : {"", "Installing", "Healthy", "Unhealthy"}]

TypeOK ==
  /\ pp \in Providers /\ cache \in Providers /\ lastUID \in 0 .. MaxUID
  /\ dep \in [owner : 0 .. MaxUID, package : 0 .. MaxPackage, ready : BOOLEAN]
  /\ proc \in [package : 0 .. MaxPackage, healthy : BOOLEAN]
  /\ policy \in {"allowed", "rejected", "unsigned"}
  /\ registry \in [uid : 0 .. MaxUID, adapter : 0 .. MaxAdapters]
  /\ adapters \in [Adapters -> 0 .. MaxPackage]
  /\ rec \in [pc : {"idle", "health", "connect", "register", "check"},
              pp : Providers, adapter : 0 .. MaxAdapters]
  /\ call \in [adapter : 0 .. MaxAdapters, cut : {"no", "replaced", "removed"}]
  /\ changes \in 0 .. MaxChanges

Init ==
  /\ pp = NoProvider /\ lastUID = 0 /\ cache = NoProvider
  /\ dep = NoDeployment /\ proc = [package |-> 0, healthy |-> FALSE]
  /\ policy = "allowed"
  /\ registry = NoEntry /\ adapters = [a \in Adapters |-> 0]
  /\ rec = Idle /\ call = NoCall /\ changes = 0

-----------------------------------------------------------------------------
(* The registry                                                            *)

Closed(a) == [adapters EXCEPT ![a] = 0]
Cut(a, why) == IF call.adapter = a /\ a # 0 THEN [call EXCEPT !.cut = why] ELSE call

MutRegisterExternal(uid, a) ==
  /\ registry' = [uid |-> uid, adapter |-> a]
  /\ UNCHANGED <<adapters, call>>

(* A previous entry, of whatever resource, is replaced and closed.         *)
RegisterExternal(uid, a) ==
  /\ registry' = [uid |-> uid, adapter |-> a]
  /\ IF registry = NoEntry THEN UNCHANGED <<adapters, call>>
     ELSE /\ adapters' = Closed(registry.adapter)
          /\ call' = Cut(registry.adapter, "replaced")

(* Only the entry of the given resource is removed and closed.             *)
DeregisterExternal(uid) ==
  IF registry = NoEntry \/ registry.uid # uid
    THEN UNCHANGED <<registry, adapters, call>>
    ELSE /\ registry' = NoEntry
         /\ adapters' = Closed(registry.adapter)
         /\ call' = Cut(registry.adapter, "removed")

-----------------------------------------------------------------------------
(* The controller                                                          *)

(* The resource as this Reconcile has read it.                             *)
Read == IF rec.pc = "idle" THEN cache ELSE rec.pp

(* An update of what was read: a conflict if it has changed since.  The    *)
(* Reconcile ends; an error only has it run again.                         *)
Update(new) ==
  /\ pp' = IF pp = Read THEN new ELSE pp
  /\ rec' = Idle

setUnhealthy(caps) ==
  /\ DeregisterExternal(Read.uid)
  /\ Update([Read EXCEPT !.phase = "Unhealthy", !.caps = caps])

MutReconcileDelete ==
  /\ rec.pc = "idle" /\ cache.deleting
  /\ Update(NoProvider)
  /\ UNCHANGED <<registry, adapters, call>>
  /\ UNCHANGED <<cache, dep, proc>> /\ UNCHANGED env

(* The finalizer goes, and with it the object.                             *)
reconcileDelete ==
  /\ rec.pc = "idle" /\ cache.deleting
  /\ DeregisterExternal(cache.uid)
  /\ Update(NoProvider)
  /\ UNCHANGED <<cache, dep, proc>> /\ UNCHANGED env

AddFinalizer ==
  /\ rec.pc = "idle" /\ cache # NoProvider /\ ~cache.deleting /\ ~cache.finalizer
  /\ Update([cache EXCEPT !.finalizer = TRUE])
  /\ UNCHANGED <<cache, dep, proc, registry, adapters, call>> /\ UNCHANGED env

(* Reconcile has a resource to install.                                    *)
Reconcile == rec.pc = "idle" /\ cache.finalizer /\ ~cache.deleting

validateProviderPolicy ==
  /\ Reconcile /\ policy = "rejected"
  /\ setUnhealthy(cache.caps)
  /\ UNCHANGED <<cache, dep, proc>> /\ UNCHANGED env

(* A package that is not verified does not go on running.  When its        *)
(* Deployment cannot be deleted, or the answer is lost, Reconcile ends      *)
(* with an error and leaves the entry for the next one.                    *)
failSignatureVerification ==
  /\ Reconcile /\ policy = "unsigned"
  /\ \/ dep' = NoDeployment /\ setUnhealthy(cache.caps)
     \/ /\ dep' \in {dep, NoDeployment}
        /\ UNCHANGED <<pp, registry, adapters, rec, call>>
  /\ UNCHANGED <<cache, proc>> /\ UNCHANGED env

(* A Deployment that exists is updated and keeps its owner.                *)
reconcileDeployment ==
  /\ Reconcile /\ policy = "allowed"
  /\ dep' = IF dep = NoDeployment
              THEN [owner |-> cache.uid, package |-> cache.package, ready |-> FALSE]
              ELSE [dep EXCEPT !.package = cache.package]
  /\ rec' = [Idle EXCEPT !.pc = "health", !.pp = cache]
  /\ UNCHANGED <<pp, cache, proc, registry, adapters, call>> /\ UNCHANGED env

(* The Deployment is gone when it is read again.                           *)
DeploymentGone ==
  /\ rec.pc = "health" /\ dep = NoDeployment
  /\ setUnhealthy(rec.pp.caps)
  /\ UNCHANGED <<cache, dep, proc>> /\ UNCHANGED env

NotReady ==
  /\ rec.pc = "health" /\ dep # NoDeployment /\ ~dep.ready
  /\ DeregisterExternal(rec.pp.uid)
  /\ Update([rec.pp EXCEPT !.phase = IF @ \in {"", "Installing"} THEN "Installing"
                                     ELSE "Unhealthy"])
  /\ UNCHANGED <<cache, dep, proc>> /\ UNCHANGED env

Advertised(package) == IF package \in Misnamed THEN "another" ELSE "own"

MutReady ==
  /\ rec.pc = "health" /\ dep.ready
  /\ rec' = [rec EXCEPT !.pc = IF rec.pp.phase = "Healthy" THEN "check" ELSE "connect"]
  /\ UNCHANGED <<pp, cache, dep, proc, registry, adapters, call>> /\ UNCHANGED env

(* With a Healthy resource the registered adapter is asked; without one,   *)
(* after a restart, the provider is connected again.                       *)
Ready ==
  /\ rec.pc = "health" /\ dep.ready
  /\ rec' = [rec EXCEPT !.pc = IF rec.pp.phase = "Healthy" /\ registry.uid = rec.pp.uid
                                 THEN "check" ELSE "connect"]
  /\ UNCHANGED <<pp, cache, dep, proc, registry, adapters, call>> /\ UNCHANGED env

(* Connect dials and reads the capabilities.                               *)
connectProvider ==
  /\ rec.pc = "connect" /\ proc.package # 0
  /\ \E a \in Adapters :
       /\ adapters[a] = 0 /\ \A b \in 1 .. a - 1 : adapters[b] # 0
       /\ adapters' = [adapters EXCEPT ![a] = proc.package]
       /\ rec' = [rec EXCEPT !.pc = "register", !.adapter = a]
  /\ UNCHANGED <<pp, cache, dep, proc, registry, call>> /\ UNCHANGED env

ConnectFails ==
  /\ rec.pc = "connect" /\ proc.package = 0
  /\ setUnhealthy(rec.pp.caps)
  /\ UNCHANGED <<cache, dep, proc>> /\ UNCHANGED env

(* A provider of another name is refused.                                  *)
RefuseName ==
  LET caps == adapters[rec.adapter]
  IN  /\ rec.pc = "register" /\ Advertised(caps) # "own"
      /\ IF registry.uid = rec.pp.uid
           THEN /\ registry' = NoEntry
                /\ adapters' = [adapters EXCEPT ![rec.adapter] = 0, ![registry.adapter] = 0]
                /\ call' = Cut(registry.adapter, "removed")
           ELSE /\ adapters' = Closed(rec.adapter)
                /\ UNCHANGED <<registry, call>>
      /\ Update([rec.pp EXCEPT !.phase = "Unhealthy",
                               !.caps = IF rec.pp.phase = "Healthy" THEN @ ELSE caps])
      /\ UNCHANGED <<cache, dep, proc>> /\ UNCHANGED env

(* A resource that was not Healthy is marked so, with the capabilities.    *)
(* One that was is checked.                                                *)
Register ==
  LET caps == adapters[rec.adapter]
  IN  /\ rec.pc = "register" /\ Advertised(caps) = "own"
      /\ RegisterExternal(rec.pp.uid, rec.adapter)
      /\ IF rec.pp.phase = "Healthy"
           THEN rec' = [rec EXCEPT !.pc = "check", !.adapter = 0] /\ UNCHANGED pp
           ELSE Update([rec.pp EXCEPT !.phase = "Healthy", !.caps = caps])
      /\ UNCHANGED <<cache, dep, proc>> /\ UNCHANGED env

(* HealthCheck of the registered adapter, which reconnects by itself.      *)
healthCheckRegisteredProvider ==
  /\ rec.pc = "check"
  /\ IF proc.healthy THEN rec' = Idle /\ UNCHANGED <<pp, registry, adapters, call>>
     ELSE setUnhealthy(rec.pp.caps)
  /\ UNCHANGED <<cache, dep, proc>> /\ UNCHANGED env

Controller ==
  \/ reconcileDelete \/ AddFinalizer
  \/ validateProviderPolicy \/ failSignatureVerification
  \/ reconcileDeployment \/ DeploymentGone \/ NotReady \/ Ready
  \/ connectProvider \/ ConnectFails \/ RefuseName \/ Register
  \/ healthCheckRegisteredProvider

-----------------------------------------------------------------------------
(* The VMImage controller                                                  *)

(* providerPlugin: the entry must be that of the cached resource.          *)
External ==
  /\ call = NoCall
  /\ cache.phase = "Healthy" /\ Advertised(cache.caps) = "own"
  /\ registry # NoEntry /\ registry.uid = cache.uid
  /\ call' = [NoCall EXCEPT !.adapter = registry.adapter]
  /\ UNCHANGED <<pp, cache, dep, proc, registry, adapters, rec>> /\ UNCHANGED env

CallReturns ==
  /\ call # NoCall
  /\ call' = NoCall
  /\ UNCHANGED <<pp, cache, dep, proc, registry, adapters, rec>> /\ UNCHANGED env

-----------------------------------------------------------------------------
(* Users and the cluster                                                   *)

Create ==
  /\ pp = NoProvider /\ lastUID < MaxUID
  /\ \E p \in Packages :
       pp' = [NoProvider EXCEPT !.uid = lastUID + 1, !.package = p]
  /\ lastUID' = lastUID + 1
  /\ UNCHANGED <<cache, dep, proc, policy, registry, adapters, rec, call, changes>>

Delete ==
  /\ pp # NoProvider /\ ~pp.deleting
  /\ pp' = IF pp.finalizer THEN [pp EXCEPT !.deleting = TRUE] ELSE NoProvider
  /\ UNCHANGED <<cache, dep, proc, registry, adapters, rec, call>> /\ UNCHANGED env

(* What the instance bounds.                                               *)
Change == changes < MaxChanges /\ changes' = changes + 1

ChangePackage ==
  /\ Change /\ pp # NoProvider /\ ~pp.deleting
  /\ \E p \in Packages \ {pp.package} : pp' = [pp EXCEPT !.package = p]
  /\ UNCHANGED <<lastUID, cache, dep, proc, policy, registry, adapters, rec, call>>

ChangePolicy ==
  /\ Change
  /\ policy' \in {"allowed", "rejected", "unsigned"} \ {policy}
  /\ UNCHANGED <<pp, lastUID, cache, dep, proc, registry, adapters, rec, call>>

CacheSync ==
  /\ cache # pp
  /\ cache' = pp
  /\ UNCHANGED <<pp, dep, proc, registry, adapters, rec, call>> /\ UNCHANGED env

CollectGarbage ==
  /\ dep # NoDeployment /\ dep.owner # pp.uid
  /\ dep' = NoDeployment
  /\ UNCHANGED <<pp, cache, proc, registry, adapters, rec, call>> /\ UNCHANGED env

(* A new Pod answers before the old one stops: dep.ready need not change.  *)
Rollout ==
  /\ proc.package # dep.package
  /\ proc' = [package |-> dep.package, healthy |-> dep.package # 0]
  /\ UNCHANGED <<pp, cache, dep, registry, adapters, rec, call>> /\ UNCHANGED env

(* The Deployment or the Service cannot be written.                        *)
DeploymentFails ==
  /\ Change /\ Reconcile /\ policy = "allowed"
  /\ setUnhealthy(cache.caps)
  /\ UNCHANGED <<lastUID, cache, dep, proc, policy>>

ProviderFails ==
  /\ Change /\ proc.package # 0
  /\ proc' \in {[package |-> 0, healthy |-> FALSE], [proc EXCEPT !.healthy = ~@]}
  /\ UNCHANGED <<pp, lastUID, cache, dep, policy, registry, adapters, rec, call>>

ReadySync ==
  /\ dep # NoDeployment /\ dep.ready # (proc.package # 0)
  /\ dep' = [dep EXCEPT !.ready = ~@]
  /\ UNCHANGED <<pp, cache, proc, registry, adapters, rec, call>> /\ UNCHANGED env

(* The operator's memory is lost, and its connections.                     *)
Restart ==
  /\ Change
  /\ registry' = NoEntry /\ adapters' = [a \in Adapters |-> 0]
  /\ rec' = Idle /\ call' = NoCall
  /\ UNCHANGED <<pp, lastUID, cache, dep, proc, policy>>

Cluster == CacheSync \/ CollectGarbage \/ Rollout \/ ReadySync

Next ==
  \/ Controller \/ DeploymentFails \/ External \/ CallReturns
  \/ Create \/ Delete \/ ChangePackage \/ ChangePolicy
  \/ Cluster \/ ProviderFails \/ Restart

Spec == Init /\ [][Next]_vars

(* Reconcile is requeued, at the latest after requeueAfter, and the watch  *)
(* goes on.                                                                *)
FairSpec == Spec /\ WF_vars(Controller) /\ WF_vars(CacheSync)

-----------------------------------------------------------------------------
(* No connection is lost sight of: one that is open is registered or in    *)
(* the hands of the running Reconcile, although status updates fail and    *)
(* the handshake is repeated (RegisterExternal, closeProviderPlugin).      *)
NoLeakedAdapter ==
  \A a \in Adapters : adapters[a] # 0 => a \in {registry.adapter, rec.adapter}

(* The entry is that of the resource that exists, its connection is open,  *)
(* and its process advertised the resource's name: nobody is handed a      *)
(* closed adapter, or one of a deleted installation (External,             *)
(* DeregisterExternal in reconcileDelete).                                 *)
EntryIsUsable ==
  registry # NoEntry =>
    /\ registry.uid = pp.uid
    /\ adapters[registry.adapter] # 0
    /\ Advertised(adapters[registry.adapter]) = "own"

Serving ==
  /\ pp # NoProvider /\ ~pp.deleting /\ policy = "allowed"
  /\ dep.ready /\ proc.healthy /\ Advertised(proc.package) = "own"

Available == pp.phase = "Healthy" /\ registry # NoEntry

(* A provider that serves for good becomes available for good, also after  *)
(* restarts of the operator, whose registry starts empty while the status  *)
(* says Healthy (reconcileHealth, healthCheckRegisteredProvider).          *)
ProviderComesBack == <>[]Serving => <>[]Available

(* "External PlatformProvider adapters are shared registry clients and     *)
(* must remain open across reconciles" (providerPlugin): a call of the     *)
(* VMImage controller is not cut off by a repeated handshake.  The code does *)
(* not keep this (README): after a stale read the entry is replaced.       *)
SharedAdapterStaysOpen == call.cut # "replaced"

(* "Provider pod restarts replace and close the old adapter"               *)
(* (ARCHITECTURE.md): an adapter has the capabilities of the process that  *)
(* it calls, in the end.  The code does not keep this (README): an adapter *)
(* reconnects and is not replaced.                                         *)
CapabilitiesRefreshed ==
  <>[]Serving => <>[](Available => adapters[registry.adapter] = proc.package)
=============================================================================
