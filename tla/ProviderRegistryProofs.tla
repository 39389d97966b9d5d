----------------------- MODULE ProviderRegistryProofs -----------------------
(***************************************************************************)
(* What holds of the registry of external providers for any number of      *)
(* resources, packages, connections and changes.                           *)
(*                                                                         *)
(* The entry stays that of the live resource because of the finalizer: a   *)
(* resource that was ever registered cannot disappear before a Reconcile   *)
(* that saw it deleted has removed its entry, and the cache, however old,  *)
(* cannot show a resource to install that is gone.                         *)
(***************************************************************************)
EXTENDS ProviderRegistry, TLAPS

(* The entry is that of the resource, which has the finalizer.             *)
EntryInv ==
  /\ registry = NoEntry \/ registry.adapter # 0
  /\ registry.adapter # 0 =>
       /\ registry.uid = pp.uid /\ pp.finalizer
       /\ adapters[registry.adapter] # 0
       /\ Advertised(adapters[registry.adapter]) = "own"

(* A cached resource that may be installed is the one that exists.         *)
CacheInv == cache.finalizer /\ ~cache.deleting => cache.uid = pp.uid /\ pp.finalizer

(* A Reconcile is about the resource that exists, and holds a connection   *)
(* of its own from Connect to RegisterExternal.                            *)
RecInv ==
  /\ rec.pc # "idle" => rec.pp.uid = pp.uid /\ rec.pp.finalizer /\ pp.finalizer
  /\ IF rec.pc = "register"
       THEN rec.adapter # 0 /\ adapters[rec.adapter] # 0 /\ rec.adapter # registry.adapter
       ELSE rec.adapter = 0

RegistryInv == TypeOK /\ NoLeakedAdapter /\ EntryInv /\ CacheInv /\ RecInv

Entries == [uid : 0 .. MaxUID, adapter : 0 .. MaxAdapters]
Calls == [adapter : 0 .. MaxAdapters, cut : {"no", "replaced", "removed"}]
Reconciles == [pc : {"idle", "health", "connect", "register", "check"},
               pp : Providers, adapter : 0 .. MaxAdapters]
Deployments == [owner : 0 .. MaxUID, package : 0 .. MaxPackage, ready : BOOLEAN]
Processes == [package : 0 .. MaxPackage, healthy : BOOLEAN]

(* The type invariant, one variable at a time.                             *)
LEMMA TypeParts ==
  TypeOK <=> /\ pp \in Providers /\ cache \in Providers /\ lastUID \in 0 .. MaxUID
             /\ dep \in Deployments /\ proc \in Processes
             /\ policy \in {"allowed", "rejected", "unsigned"}
             /\ registry \in Entries /\ adapters \in [Adapters -> 0 .. MaxPackage]
             /\ rec \in Reconciles /\ call \in Calls /\ changes \in 0 .. MaxChanges
  BY DEF TypeOK, Entries, Calls, Reconciles, Deployments, Processes

(* What the sets of numbers have to do with one another.                   *)
LEMMA Bounds ==
  /\ MaxUID \in Nat /\ MaxPackage \in Nat /\ MaxAdapters \in Nat /\ MaxChanges \in Nat
  /\ 0 \in 0 .. MaxUID /\ 0 \in 0 .. MaxPackage /\ 0 \in 0 .. MaxAdapters
  /\ Packages \subseteq 0 .. MaxPackage /\ 0 \notin Packages
  /\ Adapters \subseteq 0 .. MaxAdapters /\ 0 \notin Adapters
  /\ \A a \in 0 .. MaxAdapters : a # 0 => a \in Adapters
  BY RegistryAssumption DEF Packages, Adapters

(* The records of nothing.                                                 *)
LEMMA Records ==
  /\ NoProvider \in Providers /\ NoProvider.uid = 0
  /\ ~NoProvider.finalizer /\ ~NoProvider.deleting
  /\ NoEntry \in Entries /\ NoEntry.adapter = 0
  /\ Idle \in Reconciles /\ Idle.pc = "idle" /\ Idle.adapter = 0
  /\ NoDeployment \in Deployments /\ NoCall \in Calls
  <1>1. NoProvider \in Providers /\ NoProvider.uid = 0
        /\ ~NoProvider.finalizer /\ ~NoProvider.deleting
    BY Bounds DEF NoProvider, Providers
  <1>2. NoEntry \in Entries /\ NoEntry.adapter = 0 /\ NoCall \in Calls
    BY Bounds DEF NoEntry, Entries, NoCall, Calls
  <1>3. Idle \in Reconciles /\ Idle.pc = "idle" /\ Idle.adapter = 0
    BY Bounds, <1>1 DEF Idle, Reconciles
  <1>4. NoDeployment \in Deployments
    BY Bounds DEF NoDeployment, Deployments
  <1>5. QED
    BY <1>1, <1>2, <1>3, <1>4

(* Updates of the status keep the identity of the resource.                *)
LEMMA Updates ==
  ASSUME NEW p \in Providers, NEW c \in 0 .. MaxPackage,
         NEW ph \in {"", "Installing", "Healthy", "Unhealthy"}
  PROVE  /\ [p EXCEPT !.phase = ph] \in Providers
         /\ [p EXCEPT !.phase = ph, !.caps = c] \in Providers
         /\ [p EXCEPT !.phase = ph].uid = p.uid
         /\ [p EXCEPT !.phase = ph, !.caps = c].uid = p.uid
         /\ [p EXCEPT !.phase = ph].finalizer = p.finalizer
         /\ [p EXCEPT !.phase = ph, !.caps = c].finalizer = p.finalizer
         /\ p.caps \in 0 .. MaxPackage
         /\ p.uid \in 0 .. MaxUID
  BY DEF Providers

(* Closing a connection.                                                   *)
LEMMA Closing ==
  ASSUME TypeOK, NEW a \in 0 .. MaxAdapters
  PROVE  /\ Closed(a) \in [Adapters -> 0 .. MaxPackage]
         /\ \A b \in Adapters : Closed(a)[b] = IF b = a THEN 0 ELSE adapters[b]
  <1>1. adapters \in [Adapters -> 0 .. MaxPackage]
    BY DEF TypeOK
  <1>2. QED
    BY <1>1, Bounds DEF Closed

(* Cutting a call off.                                                     *)
LEMMA Cutting ==
  ASSUME TypeOK, NEW a, NEW why \in {"replaced", "removed"}
  PROVE  Cut(a, why) \in Calls
  <1>1. call \in Calls
    BY TypeParts
  <1>2. QED
    BY <1>1 DEF Cut, Calls

(* What DeregisterExternal leaves: the entry of another resource or none.  *)
LEMMA Deregistered ==
  ASSUME RegistryInv, NEW uid, DeregisterExternal(uid)
  PROVE  /\ registry' \in Entries /\ adapters' \in [Adapters -> 0 .. MaxPackage]
         /\ call' \in Calls
         /\ registry'.adapter # 0 => registry' = registry /\ adapters' = adapters
         /\ registry.uid = uid => registry' = NoEntry
         /\ registry' = NoEntry \/ registry'.adapter # 0
         /\ \A a \in Adapters : adapters'[a] # 0 => a \in {registry'.adapter, rec.adapter}
  <1>1. TypeOK /\ NoLeakedAdapter /\ EntryInv
    BY DEF RegistryInv
  <1>t. registry \in Entries /\ adapters \in [Adapters -> 0 .. MaxPackage] /\ call \in Calls
    BY <1>1, TypeParts
  <1>2. CASE registry = NoEntry \/ registry.uid # uid
    BY <1>1, <1>t, <1>2 DEF DeregisterExternal, NoLeakedAdapter, EntryInv
  <1>3. CASE ~(registry = NoEntry \/ registry.uid # uid)
    <2>1. /\ registry' = NoEntry /\ adapters' = Closed(registry.adapter)
          /\ call' = Cut(registry.adapter, "removed")
      BY <1>3 DEF DeregisterExternal
    <2>2. registry.adapter \in 0 .. MaxAdapters
      BY <1>t DEF Entries
    <2>3. call' \in Calls
      BY <1>1, <2>1, Cutting
    <2>4. adapters' \in [Adapters -> 0 .. MaxPackage]
          /\ \A a \in Adapters : adapters'[a] = IF a = registry.adapter THEN 0 ELSE adapters[a]
      BY <1>1, <2>1, <2>2, Closing
    <2>5. \A a \in Adapters : adapters'[a] # 0 => a \in {registry'.adapter, rec.adapter}
      BY <1>1, <2>4 DEF NoLeakedAdapter
    <2>6. QED
      BY <2>1, <2>3, <2>4, <2>5, Records
  <1>4. QED
    BY <1>2, <1>3

(* A Reconcile that deregisters its resource and ends with an update that  *)
(* keeps the identity of the resource.                                     *)
LEMMA EndsUnregistered ==
  ASSUME RegistryInv, NEW new \in Providers,
         rec.pc = "idle" => Reconcile,
         rec.pc # "register",
         DeregisterExternal(Read.uid), Update(new),
         new.uid = Read.uid, new.finalizer = Read.finalizer,
         cache' = cache, proc' = proc, lastUID' = lastUID, policy' = policy,
         dep' \in {dep, NoDeployment}, changes' \in 0 .. MaxChanges
  PROVE  RegistryInv'
  <1>1. TypeOK /\ NoLeakedAdapter /\ EntryInv /\ CacheInv /\ RecInv
    BY DEF RegistryInv
  <1>2. Read.uid = pp.uid /\ Read.finalizer /\ pp.finalizer
    BY <1>1 DEF Read, Reconcile, CacheInv, RecInv
  <1>3. rec' = Idle /\ pp' \in Providers /\ pp'.uid = pp.uid /\ pp'.finalizer
    BY <1>1, <1>2, TypeParts DEF Update
  <1>4. rec.adapter = 0
    BY <1>1 DEF RecInv
  <1>d. /\ registry' \in Entries /\ adapters' \in [Adapters -> 0 .. MaxPackage]
        /\ call' \in Calls
        /\ registry'.adapter # 0 => registry' = registry /\ adapters' = adapters
        /\ registry' = NoEntry \/ registry'.adapter # 0
        /\ \A a \in Adapters : adapters'[a] # 0 => a \in {registry'.adapter, rec.adapter}
    BY Deregistered
  <1>5. TypeOK'
    <2>1. rec' \in Reconciles /\ dep' \in Deployments
      BY <1>1, <1>3, TypeParts, Records
    <2>2. QED
      BY <1>1, <1>3, <1>d, <2>1, TypeParts
      DEF TypeOK, Entries, Calls, Reconciles, Deployments, Processes
  <1>6. NoLeakedAdapter'
    BY <1>3, <1>4, <1>d, Records DEF NoLeakedAdapter
  <1>7. EntryInv'
    BY <1>1, <1>3, <1>d DEF EntryInv
  <1>8. CacheInv' /\ RecInv'
    BY <1>1, <1>3, Records DEF CacheInv, RecInv
  <1>9. QED
    BY <1>5, <1>6, <1>7, <1>8 DEF RegistryInv

(* The invariant holds initially.                                          *)
LEMMA RegistryInit == Init => RegistryInv
  <1> SUFFICES ASSUME Init PROVE RegistryInv
    OBVIOUS
  <1>1. /\ pp = NoProvider /\ cache = NoProvider /\ lastUID = 0 /\ dep = NoDeployment
        /\ policy = "allowed" /\ registry = NoEntry /\ rec = Idle /\ call = NoCall /\ changes = 0
    BY DEF Init
  <1>2. adapters \in [Adapters -> 0 .. MaxPackage] /\ \A a \in Adapters : adapters[a] = 0
    BY Bounds DEF Init
  <1>3. proc \in Processes
    BY Bounds DEF Init, Processes
  <1>4. changes \in 0 .. MaxChanges
    BY <1>1, Bounds
  <1>5. TypeOK
    BY <1>1, <1>2, <1>3, <1>4, TypeParts, Records, Bounds
  <1>6. NoLeakedAdapter /\ EntryInv /\ CacheInv /\ RecInv
    BY <1>1, <1>2, Records DEF NoLeakedAdapter, EntryInv, CacheInv, RecInv
  <1>7. QED
    BY <1>5, <1>6 DEF RegistryInv

(* A step that leaves the connections and the resource's identity alone.   *)
LEMMA Apart ==
  ASSUME RegistryInv, TypeOK', UNCHANGED <<registry, adapters>>,
         rec'.pc = "register" <=> rec.pc = "register", rec'.adapter = rec.adapter,
         pp'.uid = pp.uid, pp.finalizer => pp'.finalizer,
         cache'.finalizer /\ ~cache'.deleting => cache'.uid = pp'.uid /\ pp'.finalizer,
         rec'.pc # "idle" => rec'.pp.uid = pp.uid /\ rec'.pp.finalizer /\ pp'.finalizer
  PROVE  RegistryInv'
  <1>1. NoLeakedAdapter /\ EntryInv /\ RecInv
    BY DEF RegistryInv
  <1>2. NoLeakedAdapter'
    BY <1>1 DEF NoLeakedAdapter
  <1>3. EntryInv'
    BY <1>1 DEF EntryInv
  <1>4. CacheInv' /\ RecInv'
    BY <1>1 DEF CacheInv, RecInv
  <1>5. QED
    BY <1>2, <1>3, <1>4 DEF RegistryInv

(* The steps of the PlatformProvider controller.                           *)
LEMMA ControllerStep == RegistryInv /\ Controller => RegistryInv'
  <1> SUFFICES ASSUME RegistryInv PROVE Controller => RegistryInv'
    OBVIOUS
  <1>0. TypeOK /\ NoLeakedAdapter /\ EntryInv /\ CacheInv /\ RecInv
    BY DEF RegistryInv
  <1>t. /\ pp \in Providers /\ cache \in Providers /\ lastUID \in 0 .. MaxUID
        /\ dep \in Deployments /\ proc \in Processes
        /\ policy \in {"allowed", "rejected", "unsigned"}
        /\ registry \in Entries /\ adapters \in [Adapters -> 0 .. MaxPackage]
        /\ rec \in Reconciles /\ call \in Calls /\ changes \in 0 .. MaxChanges
    BY <1>0, TypeParts
  <1>p. rec.pp \in Providers /\ rec.adapter \in 0 .. MaxAdapters
    BY <1>t DEF Reconciles
  <1>r. Read \in Providers
    BY <1>t, <1>p DEF Read
  <1>i. registry.adapter \in 0 .. MaxAdapters
    BY <1>t DEF Entries
  <1>u. ASSUME NEW c \in 0 .. MaxPackage, setUnhealthy(c), rec.pc = "idle" => Reconcile,
               rec.pc # "register", UNCHANGED <<cache, proc>>, UNCHANGED env,
               dep' \in {dep, NoDeployment}
        PROVE  RegistryInv'
    <2> DEFINE new == [Read EXCEPT !.phase = "Unhealthy", !.caps = c]
    <2>1. new \in Providers /\ new.uid = Read.uid /\ new.finalizer = Read.finalizer
      BY <1>r, <1>u, Updates
    <2>2. DeregisterExternal(Read.uid) /\ Update(new)
      BY <1>u DEF setUnhealthy
    <2>3. /\ cache' = cache /\ proc' = proc /\ lastUID' = lastUID /\ policy' = policy
          /\ changes' \in 0 .. MaxChanges
      BY <1>t, <1>u DEF env
    <2> HIDE DEF new
    <2>4. QED
      BY <1>u, <2>1, <2>2, <2>3, EndsUnregistered
  <1>c. cache.caps \in 0 .. MaxPackage /\ rec.pp.caps \in 0 .. MaxPackage
    BY <1>t, <1>p DEF Providers
  <1>1. ASSUME reconcileDelete PROVE RegistryInv'
    <2>1. /\ DeregisterExternal(cache.uid) /\ rec.pc = "idle" /\ rec' = Idle /\ rec.adapter = 0
          /\ cache' = cache /\ cache.deleting /\ UNCHANGED <<dep, proc, lastUID, policy, changes>>
          /\ pp' = IF pp = cache THEN NoProvider ELSE pp
      BY <1>0, <1>1 DEF reconcileDelete, Update, RecInv, Read, env
    <2>d. /\ registry' \in Entries /\ adapters' \in [Adapters -> 0 .. MaxPackage]
          /\ call' \in Calls
          /\ registry'.adapter # 0 => registry' = registry /\ adapters' = adapters
          /\ registry.uid = cache.uid => registry' = NoEntry
          /\ registry' = NoEntry \/ registry'.adapter # 0
          /\ \A a \in Adapters : adapters'[a] # 0 => a \in {registry'.adapter, rec.adapter}
      BY <2>1, Deregistered
    <2>2. pp' \in Providers /\ rec' \in Reconciles
      BY <1>t, <2>1, Records
    <2>3. TypeOK'
      BY <1>t, <2>1, <2>2, <2>d
      DEF TypeOK, Entries, Calls, Reconciles, Deployments, Processes
    <2>4. NoLeakedAdapter'
      BY <2>1, <2>d, Records DEF NoLeakedAdapter
    <2>5. registry'.adapter # 0 => pp' = pp
      BY <1>0, <2>1, <2>d, Records DEF EntryInv
    <2>6. EntryInv'
      BY <1>0, <2>1, <2>5, <2>d DEF EntryInv
    <2>7. CacheInv' /\ RecInv'
      BY <2>1, Records DEF CacheInv, RecInv
    <2>8. QED
      BY <2>3, <2>4, <2>6, <2>7 DEF RegistryInv
  <1>2. ASSUME AddFinalizer PROVE RegistryInv'
    <2>1. /\ rec.pc = "idle" /\ ~cache.finalizer /\ rec' = Idle
          /\ UNCHANGED <<cache, dep, proc, registry, adapters, call, lastUID, policy, changes>>
          /\ pp' = IF pp = cache THEN [cache EXCEPT !.finalizer = TRUE] ELSE pp
      BY <1>2 DEF AddFinalizer, Update, Read, env
    <2>2. pp' \in Providers /\ pp'.uid = pp.uid /\ (pp.finalizer => pp'.finalizer)
      BY <1>t, <2>1 DEF Providers
    <2>3. rec' \in Reconciles /\ rec'.pc = "idle" /\ rec'.adapter = 0 /\ rec.adapter = 0
      BY <1>0, <2>1, Records DEF RecInv
    <2>4. TypeOK'
      BY <1>t, <2>1, <2>2, <2>3
      DEF TypeOK, Entries, Calls, Reconciles, Deployments, Processes
    <2>5. QED
      BY <2>1, <2>2, <2>3, <2>4, Apart
  <1>3. ASSUME validateProviderPolicy PROVE RegistryInv'
    BY <1>3, <1>c, <1>u DEF validateProviderPolicy, Reconcile
  <1>4. ASSUME failSignatureVerification PROVE RegistryInv'
    <2>1. CASE dep' = NoDeployment /\ setUnhealthy(cache.caps)
      BY <1>4, <1>c, <1>u, <2>1 DEF failSignatureVerification, Reconcile
    <2>2. CASE dep' \in {dep, NoDeployment} /\ UNCHANGED <<pp, registry, adapters, rec, call>>
      <3>1. dep' \in Deployments /\ UNCHANGED <<cache, proc, lastUID, policy, changes>>
        BY <1>4, <1>t, <2>2, Records DEF failSignatureVerification, env
      <3>2. TypeOK'
        BY <1>t, <2>2, <3>1
        DEF TypeOK, Entries, Calls, Reconciles, Deployments, Processes
      <3>3. QED
        BY <1>0, <2>2, <3>1, <3>2, Apart DEF CacheInv, RecInv
    <2>3. QED
      BY <1>4, <2>1, <2>2 DEF failSignatureVerification
  <1>5. ASSUME reconcileDeployment PROVE RegistryInv'
    <2>1. /\ rec.pc = "idle" /\ cache.finalizer /\ ~cache.deleting
          /\ rec' = [pc |-> "health", pp |-> cache, adapter |-> 0]
          /\ UNCHANGED <<pp, cache, proc, registry, adapters, call, lastUID, policy, changes>>
      BY <1>5 DEF reconcileDeployment, Reconcile, Idle, env
    <2>2. dep' \in Deployments
      <3>1. cache.uid \in 0 .. MaxUID /\ cache.package \in 0 .. MaxPackage
        BY <1>t DEF Providers
      <3>2. QED
        BY <1>5, <1>t, <3>1 DEF reconcileDeployment, Deployments
    <2>3. /\ rec' \in Reconciles /\ rec'.pc = "health" /\ rec'.adapter = 0 /\ rec.adapter = 0
          /\ rec'.pp = cache
      BY <1>0, <1>t, <2>1, Bounds DEF Reconciles, RecInv
    <2>4. TypeOK'
      BY <1>t, <2>1, <2>2, <2>3
      DEF TypeOK, Entries, Calls, Reconciles, Deployments, Processes
    <2>5. QED
      BY <1>0, <2>1, <2>3, <2>4, Apart DEF CacheInv
  <1>6. ASSUME DeploymentGone PROVE RegistryInv'
    BY <1>6, <1>c, <1>u DEF DeploymentGone
  <1>7. ASSUME NotReady PROVE RegistryInv'
    <2> DEFINE new == [rec.pp EXCEPT !.phase = IF @ \in {"", "Installing"} THEN "Installing"
                                               ELSE "Unhealthy"]
    <2>1. rec.pc = "health" /\ Read = rec.pp
      BY <1>7 DEF NotReady, Read
    <2>2. new \in Providers /\ new.uid = Read.uid /\ new.finalizer = Read.finalizer
      BY <1>p, <2>1 DEF Providers
    <2>3. DeregisterExternal(Read.uid) /\ Update(new)
      BY <1>7, <2>1 DEF NotReady
    <2>4. /\ cache' = cache /\ proc' = proc /\ dep' = dep /\ lastUID' = lastUID
          /\ policy' = policy /\ changes' \in 0 .. MaxChanges
      BY <1>7, <1>t DEF NotReady, env
    <2> HIDE DEF new
    <2>5. QED
      BY <2>1, <2>2, <2>3, <2>4, EndsUnregistered
  <1>8. ASSUME Ready PROVE RegistryInv'
    <2>1. /\ rec.pc = "health"
          /\ rec' \in {[rec EXCEPT !.pc = "check"], [rec EXCEPT !.pc = "connect"]}
          /\ UNCHANGED <<pp, cache, dep, proc, registry, adapters, call, lastUID, policy, changes>>
      BY <1>8 DEF Ready, env
    <2>2. /\ rec' \in Reconciles /\ rec'.pc \in {"check", "connect"}
          /\ rec'.adapter = rec.adapter /\ rec'.pp = rec.pp
      BY <1>t, <2>1 DEF Reconciles
    <2>3. TypeOK'
      BY <1>t, <2>1, <2>2
      DEF TypeOK, Entries, Calls, Reconciles, Deployments, Processes
    <2>4. QED
      BY <1>0, <2>1, <2>2, <2>3, Apart DEF CacheInv, RecInv
  <1>9. ASSUME connectProvider PROVE RegistryInv'
    <2>1. PICK a \in Adapters :
            /\ adapters[a] = 0
            /\ adapters' = [adapters EXCEPT ![a] = proc.package]
            /\ rec' = [rec EXCEPT !.pc = "register", !.adapter = a]
      BY <1>9 DEF connectProvider
    <2>2. /\ rec.pc = "connect" /\ proc.package # 0
          /\ UNCHANGED <<pp, cache, dep, proc, registry, call, lastUID, policy, changes>>
      BY <1>9 DEF connectProvider, env
    <2>p. proc.package \in 0 .. MaxPackage
      BY <1>t DEF Processes
    <2>3. a # registry.adapter /\ a # 0
      BY <1>0, <2>1, Bounds DEF EntryInv
    <2>4. /\ adapters' \in [Adapters -> 0 .. MaxPackage]
          /\ \A b \in Adapters : adapters'[b] = IF b = a THEN proc.package ELSE adapters[b]
      BY <1>t, <2>1, <2>p
    <2>5. /\ rec' \in Reconciles /\ rec'.pc = "register" /\ rec'.adapter = a /\ rec'.pp = rec.pp
      BY <1>t, <2>1, Bounds DEF Reconciles
    <2>6. TypeOK'
      BY <1>t, <2>2, <2>4, <2>5
      DEF TypeOK, Entries, Calls, Reconciles, Deployments, Processes
    <2>7. rec.adapter = 0
      BY <1>0, <2>2 DEF RecInv
    <2>8. NoLeakedAdapter'
      BY <1>0, <2>2, <2>4, <2>5, <2>7, Bounds DEF NoLeakedAdapter
    <2>9. RecInv'
      BY <1>0, <2>2, <2>3, <2>4, <2>5, <2>1 DEF RecInv
    <2>10. EntryInv'
      BY <1>0, <1>i, <2>2, <2>3, <2>4, Bounds DEF EntryInv
    <2>11. CacheInv'
      BY <1>0, <2>2 DEF CacheInv
    <2>12. QED
      BY <2>6, <2>8, <2>9, <2>10, <2>11 DEF RegistryInv
  <1>10. ASSUME ConnectFails PROVE RegistryInv'
    BY <1>10, <1>c, <1>u DEF ConnectFails
  <1>11. ASSUME RefuseName PROVE RegistryInv'
    <2>1. /\ rec.pc = "register" /\ rec.adapter \in Adapters /\ rec' = Idle
          /\ UNCHANGED <<cache, dep, proc, lastUID, policy, changes>>
      BY <1>0, <1>p, <1>11, Bounds DEF RefuseName, Update, RecInv, env
    <2>2. pp' \in Providers /\ pp'.uid = pp.uid /\ pp'.finalizer = pp.finalizer
      <3> DEFINE caps == IF rec.pp.phase = "Healthy" THEN rec.pp.caps ELSE adapters[rec.adapter]
                 new == [rec.pp EXCEPT !.phase = "Unhealthy", !.caps = caps]
      <3>1. caps \in 0 .. MaxPackage
        BY <1>t, <1>c, <2>1
      <3>2. new \in Providers /\ new.uid = rec.pp.uid /\ new.finalizer = rec.pp.finalizer
        BY <1>p, <3>1, Updates
      <3>3. Read = rec.pp /\ Update(new)
        BY <1>11, <2>1 DEF RefuseName, Read
      <3> HIDE DEF new, caps
      <3>4. QED
        BY <1>t, <3>2, <3>3 DEF Update
    <2>3. /\ registry' = NoEntry
          /\ adapters' \in [Adapters -> 0 .. MaxPackage]
          /\ \A a \in Adapters : adapters'[a] # 0 => a \notin {registry.adapter, rec.adapter}
                                                     /\ adapters[a] # 0
          /\ call' \in Calls
      <3>1. CASE registry.uid = rec.pp.uid
        <4>1. /\ registry' = NoEntry
              /\ adapters' = [adapters EXCEPT ![rec.adapter] = 0, ![registry.adapter] = 0]
              /\ call' = Cut(registry.adapter, "removed")
          BY <1>11, <3>1 DEF RefuseName
        <4>2. /\ adapters' \in [Adapters -> 0 .. MaxPackage]
              /\ \A a \in Adapters :
                   adapters'[a] = IF a \in {registry.adapter, rec.adapter} THEN 0 ELSE adapters[a]
          BY <1>t, <2>1, <4>1, Bounds
        <4>3. call' \in Calls
          BY <1>0, <4>1, Cutting
        <4>4. QED
          BY <4>1, <4>2, <4>3
      <3>2. CASE registry.uid # rec.pp.uid
        <4>1. registry = NoEntry /\ registry.adapter = 0
          BY <1>0, <2>1, <3>2, Records DEF EntryInv, RecInv
        <4>2. adapters' = Closed(rec.adapter) /\ registry' = registry /\ call' = call
          BY <1>11, <3>2 DEF RefuseName
        <4>3. /\ adapters' \in [Adapters -> 0 .. MaxPackage]
              /\ \A a \in Adapters : adapters'[a] = IF a = rec.adapter THEN 0 ELSE adapters[a]
          BY <1>0, <1>p, <4>2, Closing
        <4>4. QED
          BY <1>t, <4>1, <4>2, <4>3, Bounds
      <3>3. QED
        BY <3>1, <3>2
    <2>4. TypeOK'
      BY <1>t, <2>1, <2>2, <2>3, Records
      DEF TypeOK, Entries, Calls, Reconciles, Deployments, Processes
    <2>5. NoLeakedAdapter'
      BY <1>0, <2>3 DEF NoLeakedAdapter
    <2>6. EntryInv' /\ RecInv'
      BY <2>1, <2>3, Records DEF EntryInv, RecInv
    <2>7. CacheInv'
      BY <1>0, <2>1, <2>2 DEF CacheInv
    <2>8. QED
      BY <2>4, <2>5, <2>6, <2>7 DEF RegistryInv
  <1>12. ASSUME Register PROVE RegistryInv'
    <2>1. /\ rec.pc = "register" /\ rec.adapter \in Adapters
          /\ UNCHANGED <<cache, dep, proc, lastUID, policy, changes>>
          /\ registry' = [uid |-> rec.pp.uid, adapter |-> rec.adapter]
      BY <1>0, <1>p, <1>12, Bounds DEF Register, RegisterExternal, RecInv, env
    <2>2. /\ adapters[rec.adapter] # 0 /\ rec.adapter # 0 /\ rec.adapter # registry.adapter
          /\ rec.pp.uid = pp.uid /\ rec.pp.finalizer /\ pp.finalizer
      BY <1>0, <2>1 DEF RecInv
    <2>3. registry' \in Entries /\ registry'.uid = rec.pp.uid /\ registry'.adapter = rec.adapter
      BY <1>p, <2>1 DEF Entries, Providers
    <2>4. Advertised(adapters[rec.adapter]) = "own" /\ adapters[rec.adapter] \in 0 .. MaxPackage
      BY <1>t, <1>12, <2>1 DEF Register
    <2>5. /\ pp' \in Providers /\ pp'.uid = pp.uid /\ pp'.finalizer
          /\ rec' \in {Idle, [rec EXCEPT !.pc = "check", !.adapter = 0]}
      <3> DEFINE new == [rec.pp EXCEPT !.phase = "Healthy", !.caps = adapters[rec.adapter]]
      <3>1. new \in Providers /\ new.uid = rec.pp.uid /\ new.finalizer = rec.pp.finalizer
        BY <1>p, <2>4, Updates
      <3>2. \/ rec' = [rec EXCEPT !.pc = "check", !.adapter = 0] /\ pp' = pp
            \/ Update(new)
        BY <1>12 DEF Register
      <3> HIDE DEF new
      <3>3. QED
        BY <1>t, <2>2, <3>1, <3>2 DEF Update
    <2>6. rec' \in Reconciles /\ rec'.pc # "register" /\ rec'.adapter = 0
          /\ (rec'.pc # "idle" => rec'.pp = rec.pp)
      <3>1. CASE rec' = Idle
        BY <3>1, Records
      <3>2. CASE rec' = [rec EXCEPT !.pc = "check", !.adapter = 0]
        BY <1>t, <3>2, Bounds DEF Reconciles
      <3>3. QED
        BY <2>5, <3>1, <3>2
    <2>7. /\ adapters' \in [Adapters -> 0 .. MaxPackage] /\ call' \in Calls
          /\ \A a \in Adapters : adapters'[a] = IF a = registry.adapter THEN 0 ELSE adapters[a]
      <3>1. CASE registry = NoEntry
        BY <1>t, <1>12, <3>1, Records, Bounds DEF Register, RegisterExternal
      <3>2. CASE registry # NoEntry
        <4>1. adapters' = Closed(registry.adapter) /\ call' = Cut(registry.adapter, "replaced")
          BY <1>12, <3>2 DEF Register, RegisterExternal
        <4>2. QED
          BY <1>0, <1>i, <4>1, Closing, Cutting
      <3>3. QED
        BY <3>1, <3>2
    <2>8. TypeOK'
      BY <1>t, <2>1, <2>3, <2>5, <2>6, <2>7
      DEF TypeOK, Entries, Calls, Reconciles, Deployments, Processes
    <2>9. NoLeakedAdapter'
      BY <1>0, <2>3, <2>7 DEF NoLeakedAdapter
    <2>10. EntryInv'
      BY <2>1, <2>2, <2>3, <2>4, <2>5, <2>7 DEF EntryInv
    <2>11. CacheInv' /\ RecInv'
      BY <1>0, <2>1, <2>2, <2>5, <2>6 DEF CacheInv, RecInv
    <2>12. QED
      BY <2>8, <2>9, <2>10, <2>11 DEF RegistryInv
  <1>13. ASSUME healthCheckRegisteredProvider PROVE RegistryInv'
    <2>1. CASE proc.healthy
      <3>1. /\ rec.pc = "check" /\ rec' = Idle
            /\ UNCHANGED <<pp, cache, dep, proc, registry, adapters, call, lastUID, policy, changes>>
        BY <1>13, <2>1 DEF healthCheckRegisteredProvider, env
      <3>2. rec' \in Reconciles /\ rec'.pc = "idle" /\ rec'.adapter = 0 /\ rec.adapter = 0
        BY <1>0, <3>1, Records DEF RecInv
      <3>3. TypeOK'
        BY <1>t, <3>1, <3>2
        DEF TypeOK, Entries, Calls, Reconciles, Deployments, Processes
      <3>4. QED
        BY <1>0, <3>1, <3>2, <3>3, Apart DEF CacheInv
    <2>2. CASE ~proc.healthy
      BY <1>13, <1>c, <1>u, <2>2 DEF healthCheckRegisteredProvider
    <2>3. QED
      BY <2>1, <2>2
  <1>14. QED
    BY <1>1, <1>2, <1>3, <1>4, <1>5, <1>6, <1>7, <1>8, <1>9, <1>10, <1>11, <1>12, <1>13
    DEF Controller

(* The steps of users, of the cluster and of the VMImage controller.       *)
LEMMA OtherStep ==
  ASSUME RegistryInv, Next, ~Controller PROVE RegistryInv'
  <1>0. TypeOK /\ NoLeakedAdapter /\ EntryInv /\ CacheInv /\ RecInv
    BY DEF RegistryInv
  <1>t. /\ pp \in Providers /\ cache \in Providers /\ lastUID \in 0 .. MaxUID
        /\ dep \in Deployments /\ proc \in Processes
        /\ policy \in {"allowed", "rejected", "unsigned"}
        /\ registry \in Entries /\ adapters \in [Adapters -> 0 .. MaxPackage]
        /\ rec \in Reconciles /\ call \in Calls /\ changes \in 0 .. MaxChanges
    BY <1>0, TypeParts
  <1>c. Change => changes' \in 0 .. MaxChanges
    BY <1>t, Bounds DEF Change
  <1>1. ASSUME DeploymentFails PROVE RegistryInv'
    <2> DEFINE new == [Read EXCEPT !.phase = "Unhealthy", !.caps = cache.caps]
    <2>1. /\ Reconcile /\ Read = cache /\ rec.pc = "idle" /\ changes' \in 0 .. MaxChanges
          /\ UNCHANGED <<lastUID, cache, dep, proc, policy>>
      BY <1>1, <1>c DEF DeploymentFails, Reconcile, Read
    <2>2. new \in Providers /\ new.uid = Read.uid /\ new.finalizer = Read.finalizer
      <3>1. cache.caps \in 0 .. MaxPackage
        BY <1>t DEF Providers
      <3>2. Read \in Providers
        BY <1>t, <2>1
      <3>3. QED
        BY <3>1, <3>2, Updates
    <2>3. DeregisterExternal(Read.uid) /\ Update(new)
      BY <1>1 DEF DeploymentFails, setUnhealthy
    <2> HIDE DEF new
    <2>4. QED
      BY <2>1, <2>2, <2>3, EndsUnregistered
  <1>2. ASSUME External \/ CallReturns PROVE RegistryInv'
    <2>1. UNCHANGED <<pp, cache, dep, proc, registry, adapters, rec, lastUID, policy, changes>>
      BY <1>2 DEF External, CallReturns, env
    <2>2. call' \in Calls
      <3>1. registry.adapter \in 0 .. MaxAdapters
        BY <1>t DEF Entries
      <3>2. QED
        BY <1>2, <3>1, Records DEF External, CallReturns, Calls
    <2>3. TypeOK'
      BY <1>t, <2>1, <2>2 DEF TypeOK, Entries, Calls, Reconciles, Deployments, Processes
    <2>4. QED
      BY <1>0, <2>1, <2>3, Apart DEF CacheInv, RecInv
  <1>3. ASSUME Create PROVE RegistryInv'
    <2>1. PICK p \in Packages : pp' = [NoProvider EXCEPT !.uid = lastUID + 1, !.package = p]
      BY <1>3 DEF Create
    <2>2. /\ pp = NoProvider /\ ~pp.finalizer /\ lastUID < MaxUID /\ lastUID' = lastUID + 1
          /\ UNCHANGED <<cache, dep, proc, policy, registry, adapters, rec, call, changes>>
      BY <1>3, Records DEF Create
    <2>3. lastUID' \in 0 .. MaxUID
      BY <1>t, <2>2, Bounds
    <2>4. pp' \in Providers
      BY <2>1, <2>2, <2>3, Bounds, Records DEF Providers
    <2>5. TypeOK'
      BY <1>t, <2>2, <2>3, <2>4 DEF TypeOK, Entries, Calls, Reconciles, Deployments, Processes
    <2>6. registry.adapter = 0 /\ rec.pc = "idle" /\ ~(cache.finalizer /\ ~cache.deleting)
      BY <1>0, <2>2 DEF EntryInv, CacheInv, RecInv
    <2>7. NoLeakedAdapter' /\ EntryInv' /\ CacheInv' /\ RecInv'
      BY <1>0, <2>2, <2>6 DEF NoLeakedAdapter, EntryInv, CacheInv, RecInv
    <2>8. QED
      BY <2>5, <2>7 DEF RegistryInv
  <1>4. ASSUME Delete PROVE RegistryInv'
    <2>1. /\ pp' = IF pp.finalizer THEN [pp EXCEPT !.deleting = TRUE] ELSE NoProvider
          /\ UNCHANGED <<cache, dep, proc, registry, adapters, rec, call, lastUID, policy, changes>>
      BY <1>4 DEF Delete, env
    <2>2. pp' \in Providers /\ (pp.finalizer => pp'.uid = pp.uid /\ pp'.finalizer)
      BY <1>t, <2>1, Records DEF Providers
    <2>3. TypeOK'
      BY <1>t, <2>1, <2>2 DEF TypeOK, Entries, Calls, Reconciles, Deployments, Processes
    <2>4. NoLeakedAdapter' /\ EntryInv' /\ CacheInv' /\ RecInv'
      BY <1>0, <2>1, <2>2 DEF NoLeakedAdapter, EntryInv, CacheInv, RecInv
    <2>5. QED
      BY <2>3, <2>4 DEF RegistryInv
  <1>5. ASSUME ChangePackage PROVE RegistryInv'
    <2>1. PICK p \in Packages : pp' = [pp EXCEPT !.package = p]
      BY <1>5 DEF ChangePackage
    <2>2. /\ UNCHANGED <<lastUID, cache, dep, proc, policy, registry, adapters, rec, call>>
          /\ changes' \in 0 .. MaxChanges
      BY <1>5, <1>c DEF ChangePackage
    <2>3. pp' \in Providers /\ pp'.uid = pp.uid /\ pp'.finalizer = pp.finalizer
      BY <1>t, <2>1, Bounds DEF Providers
    <2>4. TypeOK'
      BY <1>t, <2>2, <2>3 DEF TypeOK, Entries, Calls, Reconciles, Deployments, Processes
    <2>5. QED
      BY <1>0, <2>2, <2>3, <2>4, Apart DEF CacheInv, RecInv
  <1>6. ASSUME ChangePolicy \/ ProviderFails PROVE RegistryInv'
    <2>1. /\ UNCHANGED <<lastUID, pp, cache, dep, registry, adapters, rec, call>>
          /\ changes' \in 0 .. MaxChanges
      BY <1>6, <1>c DEF ChangePolicy, ProviderFails
    <2>2. policy' \in {"allowed", "rejected", "unsigned"}
      BY <1>6, <1>t DEF ChangePolicy, ProviderFails
    <2>p. proc' \in Processes
      <3>1. proc' \in {proc, [package |-> 0, healthy |-> FALSE], [proc EXCEPT !.healthy = ~@]}
        BY <1>6 DEF ChangePolicy, ProviderFails
      <3>2. [package |-> 0, healthy |-> FALSE] \in Processes
        BY Bounds DEF Processes
      <3>3. [proc EXCEPT !.healthy = ~@] \in Processes
        BY <1>t DEF Processes
      <3>4. QED
        BY <1>t, <3>1, <3>2, <3>3
    <2>3. TypeOK'
      BY <1>t, <2>1, <2>2, <2>p DEF TypeOK, Entries, Calls, Reconciles, Deployments, Processes
    <2>4. QED
      BY <1>0, <2>1, <2>3, Apart DEF CacheInv, RecInv
  <1>7. ASSUME CacheSync PROVE RegistryInv'
    <2>1. /\ cache' = pp
          /\ UNCHANGED <<pp, dep, proc, registry, adapters, rec, call, lastUID, policy, changes>>
      BY <1>7 DEF CacheSync, env
    <2>2. TypeOK'
      BY <1>t, <2>1 DEF TypeOK, Entries, Calls, Reconciles, Deployments, Processes
    <2>3. QED
      BY <1>0, <2>1, <2>2, Apart DEF RecInv
  <1>8. ASSUME CollectGarbage \/ Rollout \/ ReadySync PROVE RegistryInv'
    <2>1. UNCHANGED <<pp, cache, registry, adapters, rec, call, lastUID, policy, changes>>
      BY <1>8 DEF CollectGarbage, Rollout, ReadySync, env
    <2>2. dep' \in Deployments
      BY <1>8, <1>t, Records DEF CollectGarbage, Rollout, ReadySync, Deployments
    <2>3. proc' \in Processes
      <3>1. proc' \in {proc, [package |-> dep.package, healthy |-> dep.package # 0]}
        BY <1>8 DEF CollectGarbage, Rollout, ReadySync
      <3>2. dep.package \in 0 .. MaxPackage
        BY <1>t DEF Deployments
      <3>3. [package |-> dep.package, healthy |-> dep.package # 0] \in Processes
        <4>1. CASE dep.package = 0
          BY <3>2, <4>1 DEF Processes
        <4>2. CASE dep.package # 0
          BY <3>2, <4>2 DEF Processes
        <4>3. QED
          BY <4>1, <4>2
      <3>4. QED
        BY <1>t, <3>1, <3>3
    <2>4. TypeOK'
      BY <1>t, <2>1, <2>2, <2>3 DEF TypeOK, Entries, Calls, Reconciles, Deployments, Processes
    <2>5. QED
      BY <1>0, <2>1, <2>4, Apart DEF CacheInv, RecInv
  <1>9. ASSUME Restart PROVE RegistryInv'
    <2>1. /\ registry' = NoEntry /\ rec' = Idle /\ call' = NoCall
          /\ UNCHANGED <<pp, lastUID, cache, dep, proc, policy>> /\ changes' \in 0 .. MaxChanges
      BY <1>9, <1>c DEF Restart
    <2>2. adapters' \in [Adapters -> 0 .. MaxPackage] /\ \A a \in Adapters : adapters'[a] = 0
      BY <1>9, Bounds DEF Restart
    <2>3. TypeOK'
      BY <1>t, <2>1, <2>2, Records
      DEF TypeOK, Entries, Calls, Reconciles, Deployments, Processes
    <2>4. NoLeakedAdapter' /\ EntryInv' /\ CacheInv' /\ RecInv'
      BY <1>0, <2>1, <2>2, Records DEF NoLeakedAdapter, EntryInv, CacheInv, RecInv
    <2>5. QED
      BY <2>3, <2>4 DEF RegistryInv
  <1>10. QED
    BY <1>1, <1>2, <1>3, <1>4, <1>5, <1>6, <1>7, <1>8, <1>9 DEF Next, Cluster

(* The inductive invariant of the registry, the caches and the finalizer.  *)
THEOREM RegistryInvariant == Spec => []RegistryInv
  <1>1. RegistryInv /\ UNCHANGED vars => RegistryInv'
    BY DEF vars, RegistryInv, TypeOK, NoLeakedAdapter, EntryInv, CacheInv, RecInv
  <1>2. RegistryInv /\ [Next]_vars => RegistryInv'
    BY <1>1, ControllerStep, OtherStep
  <1>3. QED
    BY RegistryInit, <1>2, PTL DEF Spec

(* No connection is lost sight of (RegisterExternal, closeProviderPlugin), *)
(* for any number of resources, packages, connections and changes.         *)
THEOREM NoAdapterLeaks == Spec => []NoLeakedAdapter
  <1>1. RegistryInv => NoLeakedAdapter
    BY DEF RegistryInv
  <1>2. QED
    BY RegistryInvariant, <1>1, PTL

(* Nobody is handed a closed adapter or that of a deleted installation     *)
(* (External, DeregisterExternal in reconcileDelete), although the         *)
(* controllers read a cache that lags.                                     *)
THEOREM EntriesAreUsable == Spec => []EntryIsUsable
  <1>1. RegistryInv => EntryIsUsable
    BY Records DEF RegistryInv, EntryInv, EntryIsUsable
  <1>2. QED
    BY RegistryInvariant, <1>1, PTL
=============================================================================
