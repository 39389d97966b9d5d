--------------------------- MODULE RemoteOpenStack ---------------------------
(***************************************************************************)
(* The OpenStack client (plugins/openstack/remote_client.go and            *)
(* gophercloud_client.go): a Nova server that is known by the identifier   *)
(* in the reference only, SSH provisioners, and a Glance image made of the *)
(* stopped server.                                                         *)
(***************************************************************************)
EXTENDS RemoteClient

resolveMarketplaceImage(q) == q.source = "marketplace" => q.sourceFits

(* Unlike the other clients it looks at the content of every step first.   *)
validateOpenStackRemoteProvisioners(q) ==
  \A i \in DOMAIN q.steps :
    /\ q.steps[i].type \in {"shell", "file"}
    /\ q.family = "linux" /\ q.steps[i].inline
    /\ q.steps[i].type = "file" => q.steps[i].dest

OpenStackSettings(q) == q.steps # <<>> => q.settings.key

OpenStackAccepts(q) ==
  /\ q.source \in {"image", "marketplace", "snapshot"}
  /\ resolveMarketplaceImage(q)
  /\ validateOpenStackRemoteProvisioners(q) /\ OpenStackSettings(q)

OpenStackCall == Calls("openstack") /\ OpenStackAccepts(request)

OpenStackRefuse ==
  /\ Calls("openstack") /\ ~OpenStackAccepts(request)
  /\ Terminal(cloud)

-----------------------------------------------------------------------------
(* Without a server identifier there is nothing that it deletes.           *)
cleanupOpenStackRemoteResources(c, s) ==
  IF s = 0 THEN Skip(c) ELSE DeleteServer(c, s)

OpenStackCleanup ==
  /\ Cleans("openstack")
  /\ \E o \in cleanupOpenStackRemoteResources(cloud, ref.vm) :
       CleanupReturns(o.cloud, o.ok)

-----------------------------------------------------------------------------
OpenStackRef(s) == [NoRef EXCEPT !.vm = s]

(* Every start makes a server of its own, under the same name.             *)
startOpenStackRemoteServer ==
  /\ OpenStackCall /\ ref.vm = 0 /\ ref.image = 0
  /\ \E s \in Servers :
       /\ cloud.vm[s] = "none" /\ \A t \in Servers : t < s => cloud.vm[t] # "none"
       /\ \/ Error(cloud)
          \/ Error(Created(s, "pending"))
          \/ ErrorAfter(cleanupOpenStackRemoteResources(Created(s, "pending"), s))
          \/ Answer(Created(s, "running"), OpenStackRef(s))

runOpenStackProvisioner ==
  /\ OpenStackCall /\ ref.vm # 0 /\ ref.image = 0 /\ ~Provisioned
  /\ LET ran == Ran(cloud, ref.vm, ref.index + 1)
     IN  \/ ErrorAfter(cleanupOpenStackRemoteResources(cloud, ref.vm))
         \/ /\ cloud.vm[ref.vm] = "running"
            /\ \/ ErrorAfter(cleanupOpenStackRemoteResources(ran, ref.vm))
               \/ Answer(ran, [ref EXCEPT !.index = @ + 1])

(* The image of an earlier call whose answer was lost is not looked for.   *)
finishOpenStackRemoteServer ==
  /\ OpenStackCall /\ ref.vm # 0 /\ ref.image = 0 /\ Provisioned
  /\ LET stopped == [cloud EXCEPT !.vm[ref.vm] = "stopped"]
         made == Captured(stopped, ref.vm, "available")
     IN  \/ ErrorAfter(cleanupOpenStackRemoteResources(cloud, ref.vm))
         \/ /\ Live(cloud, ref.vm)
            /\ \/ \E c \in {stopped, made, Captured(stopped, ref.vm, "failed")} :
                    ErrorAfter(cleanupOpenStackRemoteResources(c, ref.vm))
               \/ \E o \in cleanupOpenStackRemoteResources(made, ref.vm) :
                    IF o.ok THEN Done(o.cloud, [ref EXCEPT !.image = ref.vm])
                            ELSE Error(o.cloud)

OpenStackNext ==
  \/ OpenStackRefuse \/ startOpenStackRemoteServer \/ runOpenStackProvisioner
  \/ finishOpenStackRemoteServer \/ OpenStackCleanup
=============================================================================
