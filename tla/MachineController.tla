------------------------- MODULE MachineController --------------------------
(***************************************************************************)
(* The WXOneMachine reconciler (internal/controller/                       *)
(* wxonemachine_controller.go) with what it talks to: the API server,      *)
(* which holds the WXOneMachine and the Cluster API Machine that owns it,  *)
(* their informer caches, the Machine controller of Cluster API, and the   *)
(* WX-ONE cloud with its instances and the floating group that spreads the *)
(* control plane's traffic.                                                *)
(*                                                                         *)
(* One Machine is modelled: passes for different machines run one after    *)
(* the other (one worker) and share no state.                              *)
(***************************************************************************)
EXTENDS Naturals, FiniteSets

CONSTANTS
    ControlPlanes,  \* may the machine be one of the control plane, or not?
    Deletions,      \* who asks for a deletion, a subset of AllDeletions
    Disturbances,   \* what may go wrong, a subset of AllDisturbances
    MaxDisturb,     \* how many times, all kinds together
    MissingIsError  \* does WX-ONE answer the deletion of what is not there
                    \* with an error?

AllDisturbances ==
    {"crash",   \* the manager process dies and starts again
     "stale",   \* an object is read that the informer has not caught up with
     "read",    \* an object of the API server cannot be read
     "auth",    \* NewWXOneClients returns an error
     "me",      \* NewWXOneClients returns no error and no client
     "call",    \* a cloud call fails before it has an effect
     "lost",    \* a cloud call has its effect and the answer is lost
     "inband",  \* a deletion answers with an error inside the payload
     "patch"}   \* the API server does not accept a patch or an update

AllDeletions ==
    {"machine",  \* the Machine is deleted: scale down, upgrade, remediation
     "cluster",  \* the Cluster is deleted, and all its Machines with it
     "direct"}   \* somebody deletes the WXOneMachine itself

ASSUME ConstantsAssumption ==
    /\ ControlPlanes \in SUBSET BOOLEAN
    /\ Deletions \subseteq AllDeletions
    /\ Disturbances \subseteq AllDisturbances
    /\ MaxDisturb \in Nat
    /\ MissingIsError \in BOOLEAN

-----------------------------------------------------------------------------
(* The WXOneMachine; flavor and image are only looked up, so that they are *)
(* known or not, and so is the id of the entry in the floating group.      *)

None == 0       \* the empty string

Objects == [exists : BOOLEAN, owned : BOOLEAN, deleting : BOOLEAN,
            fin : BOOLEAN, providerID : Nat, flavor : BOOLEAN,
            image : BOOLEAN, instance : Nat, attached : BOOLEAN,
            ready : BOOLEAN]

NewObject == [exists |-> TRUE, owned |-> FALSE, deleting |-> FALSE,
              fin |-> FALSE, providerID |-> None, flavor |-> FALSE,
              image |-> FALSE, instance |-> None, attached |-> FALSE,
              ready |-> FALSE]

Gone == [NewObject EXCEPT !.exists = FALSE]

(* The Machine: hook is the annotation PreDrainHook, bootstrap that the    *)
(* name of the bootstrap secret is set, node that its Node is known.       *)
Machines == [exists : BOOLEAN, deleting : BOOLEAN, hook : BOOLEAN,
             bootstrap : BOOLEAN, node : BOOLEAN, drained : BOOLEAN]

NewMachine == [exists |-> TRUE, deleting |-> FALSE, hook |-> FALSE,
               bootstrap |-> FALSE, node |-> FALSE, drained |-> FALSE]

GoneMachine == [NewMachine EXCEPT !.exists = FALSE]

Budgets == [left : Nat, misread : BOOLEAN]

VARIABLES
    controlPlane,  \* util.IsControlPlaneMachine, which never changes
    infra,         \* Cluster.Status.InfrastructureReady
    leaving,       \* the Cluster is being deleted
    api, cached,   \* the WXOneMachine at the API server and in the cache
    machine,       \* the Machine at the API server ...
    mcached,       \* ... and in the cache
    queued,        \* the WXOneMachine is in the work queue
    pc,            \* the section of the pass that is running, or "idle"
    step,          \* in a section: "work", or the call of Patch that is due
    obj, before,   \* the pass's copy, and what patch.NewHelper remembered
    mcopy,         \* the pass's copy of the Machine
    seen,          \* infra as the pass has read it
    client,        \* NewWXOneClients returned a client that can be used
    failed,        \* the first of the two calls of Patch has failed
    vms, running,  \* the instances in WX-ONE, those in status RUNNING
    routes,        \* the instances in the cluster's floating group
    next,          \* the next resource id WX-ONE hands out
    budget         \* the disturbances left, and whether something was read
                   \* that was behind

env == <<controlPlane, infra, leaving>>
pass == <<pc, step, obj, before, mcopy, seen, client, failed>>
cloud == <<vms, running, routes, next>>

vars == <<env, api, cached, machine, mcached, queued, pass, cloud, budget>>

Phases == {"idle", "hook", "finalizer", "client", "gate", "flavor", "image",
           "instance", "route", "running", "owner", "withdraw", "unhook",
           "destroy", "finish"}

(* mutant: there is no section after the last one of reconcileNormal *)
AfterUnknownSection ==
    [finalizer |-> "client", flavor |-> "image", image |-> "instance",
     instance |-> "route", route |-> "running", running |-> "done",
     owner |-> "withdraw", destroy |-> "finish", finish |-> "idle"]

(* mutant: the instance is deleted before the route is looked at *)
AfterDestroyFirst ==
    [finalizer |-> "client", flavor |-> "image", image |-> "instance",
     instance |-> "route", route |-> "running", running |-> "idle",
     owner |-> "destroy", destroy |-> "finish", finish |-> "idle"]

After == [finalizer |-> "client", flavor |-> "image", image |-> "instance",
          instance |-> "route", route |-> "running", running |-> "idle",
          owner |-> "withdraw", destroy |-> "finish", finish |-> "idle"]

Init ==
    /\ controlPlane \in ControlPlanes
    /\ infra = FALSE /\ leaving = FALSE
    /\ api = NewObject /\ cached = NewObject
    /\ machine = NewMachine /\ mcached = NewMachine
    /\ queued = TRUE
    /\ pc = "idle" /\ step = "work" /\ obj = Gone /\ before = Gone
    /\ mcopy = GoneMachine /\ seen = FALSE /\ client = FALSE /\ failed = FALSE
    /\ vms = {} /\ running = {} /\ routes = {} /\ next = 1
    /\ budget = [left |-> MaxDisturb, misread |-> FALSE]

Spend(kind) ==
    /\ kind \in Disturbances
    /\ budget.left > 0
    /\ budget' = [left |-> budget.left - 1,
                  misread |-> budget.misread \/ kind = "stale"]

(* The pass returns; nothing of its working copies survives it. *)
EndPass ==
    /\ pc' = "idle" /\ step' = "work"
    /\ obj' = Gone /\ before' = Gone /\ mcopy' = GoneMachine
    /\ seen' = FALSE /\ client' = FALSE /\ failed' = FALSE

(* An error, a panic, or a result with RequeueAfter: the object goes back  *)
(* to the queue.                                                           *)
Abort == EndPass /\ queued' = TRUE

-----------------------------------------------------------------------------
(* The API server, Cluster API and the user *)

(* A deletion only marks an object that has a finalizer. *)
Marked(o) == IF o.fin THEN [o EXCEPT !.deleting = TRUE] ELSE Gone

SetOwner ==
    /\ api.exists /\ ~api.owned
    /\ api' = [api EXCEPT !.owned = TRUE]
    /\ UNCHANGED <<env, cached, machine, mcached, queued, pass, cloud, budget>>

(* The watch of Clusters enqueues when the infrastructure gets ready. *)
InfraReady ==
    /\ ~infra /\ ~leaving
    /\ infra' = TRUE
    /\ queued' = TRUE
    /\ UNCHANGED <<controlPlane, leaving, api, cached, machine, mcached, pass,
                   cloud, budget>>

ChangeMachine(m) ==
    /\ machine.exists
    /\ machine' = m
    /\ UNCHANGED <<controlPlane, infra, cached, mcached, queued, pass, cloud,
                   budget>>

SetBootstrap ==
    /\ infra /\ ~machine.bootstrap
    /\ ChangeMachine([machine EXCEPT !.bootstrap = TRUE])
    /\ UNCHANGED <<leaving, api>>

(* Cluster API finds the Node by the provider id of a ready machine. *)
NodeJoins ==
    /\ ~machine.node /\ api.ready /\ api.providerID \in running
    /\ ChangeMachine([machine EXCEPT !.node = TRUE])
    /\ UNCHANGED <<leaving, api>>

DeleteMachine ==
    /\ ~machine.deleting
    /\ \/ "machine" \in Deletions /\ UNCHANGED leaving
       \/ "cluster" \in Deletions /\ leaving' = TRUE
    /\ ChangeMachine([machine EXCEPT !.deleting = TRUE])
    /\ UNCHANGED api

(* A Machine with a Node is drained, after the pre-drain hooks are gone. *)
Drain ==
    /\ machine.deleting /\ machine.node /\ ~leaving
    /\ ~machine.hook /\ ~machine.drained
    /\ ChangeMachine([machine EXCEPT !.drained = TRUE])
    /\ UNCHANGED <<leaving, api>>

(* Cluster API deletes the WXOneMachine once the Machine is drained.  It   *)
(* neither waits for hooks nor drains if the Cluster goes or there is no   *)
(* Node.                                                                   *)
DeleteInfra ==
    /\ machine.deleting /\ (leaving \/ ~machine.node \/ machine.drained)
    /\ api.exists /\ ~api.deleting
    /\ api' = Marked(api)
    /\ UNCHANGED <<env, cached, machine, mcached, queued, pass, cloud, budget>>

DeleteDirect ==
    /\ "direct" \in Deletions
    /\ api.exists /\ ~api.deleting
    /\ api' = Marked(api)
    /\ UNCHANGED <<env, cached, machine, mcached, queued, pass, cloud, budget>>

RemoveMachine ==
    /\ machine.deleting /\ ~api.exists
    /\ ChangeMachine(GoneMachine)
    /\ UNCHANGED <<leaving, api>>

(* Watch events of the WXOneMachine and of the Machine *)
Deliver ==
    /\ \/ cached # api /\ cached' = api /\ UNCHANGED mcached
       \/ mcached # machine /\ mcached' = machine /\ UNCHANGED cached
    /\ queued' = TRUE
    /\ UNCHANGED <<env, api, machine, pass, cloud, budget>>

(* An event of the Cluster or the WXOneCluster, or the periodic resync *)
Resync ==
    /\ pc = "idle" /\ ~queued
    /\ queued' = TRUE
    /\ UNCHANGED <<env, api, cached, machine, mcached, pass, cloud, budget>>

Crash ==
    /\ Spend("crash")
    /\ Abort
    /\ cached' = api /\ mcached' = machine
    /\ UNCHANGED <<env, api, machine, cloud>>

(* An instance of WX-ONE has come up. *)
Boot ==
    /\ \E v \in vms \ running : running' = running \cup {v}
    /\ UNCHANGED <<env, api, cached, machine, mcached, queued, pass, vms,
                   routes, next, budget>>

-----------------------------------------------------------------------------
(* A pass: Reconcile, then reconcileNormal or reconcileDelete *)

Fresh == cached = api /\ mcached = machine

FirstSection(o) == IF o.deleting THEN "client" ELSE "hook"

Start ==
    /\ pc = "idle" /\ queued
    /\ IF Fresh THEN UNCHANGED budget ELSE Spend("stale")
    /\ queued' = FALSE
    /\ IF ~cached.exists \/ ~cached.owned
         THEN UNCHANGED pass
         ELSE /\ obj' = cached /\ before' = cached /\ mcopy' = mcached
              /\ seen' = infra
              /\ pc' = FirstSection(cached)
              /\ UNCHANGED <<step, client, failed>>
    /\ UNCHANGED <<env, api, cached, machine, mcached, cloud>>

(* The owners or the Cluster cannot be read: an error.  The WXOneCluster   *)
(* cannot be read: the pass just ends, and nothing retries it.             *)
StartFails ==
    /\ pc = "idle" /\ queued /\ cached.exists
    /\ Spend("read")
    /\ \/ UNCHANGED queued
       \/ cached.owned /\ queued' = FALSE
    /\ UNCHANGED <<env, api, cached, machine, mcached, pass, cloud>>

(* mutant: the annotation is set in the copy and not written *)
UpdateHookInMemory(present) == machine = mcopy /\ UNCHANGED machine

(* An Update of the Machine carries the resource version that was read: it *)
(* is refused if the Machine changed since.                                *)
UpdateHook(present) ==
    /\ machine = mcopy
    /\ machine' = [machine EXCEPT !.hook = present]

UpdateFails ==
    /\ \/ pc = "hook" /\ ~mcopy.hook
       \/ pc = "unhook"
    /\ \/ machine # mcopy /\ UNCHANGED budget
       \/ machine = mcopy /\ Spend("patch")
    /\ Abort
    /\ UNCHANGED <<env, api, cached, machine, mcached, cloud>>

(* mutant: the finalizer is forgotten *)
AddHookOnly ==
    /\ pc = "hook"
    /\ IF mcopy.hook THEN UNCHANGED machine ELSE UpdateHook(TRUE)
    /\ pc' = "finalizer" /\ step' = "main"
    /\ mcopy' = [mcopy EXCEPT !.hook = TRUE]
    /\ UNCHANGED <<env, api, cached, mcached, queued, obj, before, seen,
                   client, failed, cloud, budget>>

(* reconcileNormal: the hook, then the finalizer and the first patch *)
AddHook ==
    /\ pc = "hook"
    /\ IF mcopy.hook THEN UNCHANGED machine ELSE UpdateHook(TRUE)
    /\ pc' = "finalizer" /\ step' = "main"
    /\ obj' = [obj EXCEPT !.fin = TRUE]
    /\ mcopy' = [mcopy EXCEPT !.hook = TRUE]
    /\ UNCHANGED <<env, api, cached, mcached, queued, before, seen, client,
                   failed, cloud, budget>>

GetClient ==
    /\ pc = "client"
    /\ pc' = IF obj.deleting THEN "owner" ELSE "gate"
    /\ \/ client' = TRUE /\ UNCHANGED budget
       \/ client' = FALSE /\ Spend("me")
    /\ UNCHANGED <<env, api, cached, machine, mcached, queued, step, obj,
                   before, mcopy, seen, failed, cloud>>

GetClientFails ==
    /\ pc = "client"
    /\ Spend("read") \/ Spend("auth")
    /\ Abort
    /\ UNCHANGED <<env, api, cached, machine, mcached, cloud>>

(* Is the infrastructure ready, and is there bootstrap data? *)
PassGate ==
    /\ pc = "gate" /\ seen /\ mcopy.bootstrap
    /\ pc' = "flavor"
    /\ UNCHANGED <<env, api, cached, machine, mcached, queued, step, obj,
                   before, mcopy, seen, client, failed, cloud, budget>>

StopAtGate ==
    /\ pc = "gate"
    /\ EndPass
    /\ \/ ~seen /\ UNCHANGED queued
       \/ seen /\ ~mcopy.bootstrap /\ queued' = TRUE
    /\ UNCHANGED <<env, api, cached, machine, mcached, cloud, budget>>

(* The section the pass is in has a cloud call to make.  The last one of   *)
(* reconcileNormal is only reached with an instance, and with an entry in  *)
(* the floating group if the machine is to have one.                       *)
CallDue ==
    /\ step = "work"
    /\ \/ pc = "flavor" /\ ~obj.flavor
       \/ pc = "image" /\ ~obj.image
       \/ pc \in {"instance", "destroy"}
            /\ obj.deleting # (obj.instance = None)
       \/ pc = "route" /\ controlPlane /\ obj.instance # None /\ ~obj.attached
       \/ pc = "withdraw" /\ controlPlane /\ obj.attached
       \/ pc = "running"

(* The section that follows: an early exit once the hook is removed keeps  *)
(* a pass of reconcileDelete from going on to the instance.                *)
Following ==
    IF pc = "withdraw" THEN IF mcopy.hook THEN "unhook" ELSE "destroy"
                       ELSE After[pc]

SkipSection ==
    /\ step = "work" /\ ~CallDue
    /\ pc \in {"flavor", "image", "instance", "route", "withdraw", "destroy"}
    /\ pc' = Following
    /\ UNCHANGED <<env, api, cached, machine, mcached, queued, step, obj,
                   before, mcopy, seen, client, failed, cloud, budget>>

(* A call has been answered: the result is in the copy, Patch comes next. *)
Answered(o) ==
    /\ obj' = o
    /\ step' = "main"
    /\ UNCHANGED <<env, api, cached, machine, mcached, queued, pc, before,
                   mcopy, seen, client, failed>>

(* A call has had its effect, the pass has not seen its answer. *)
AnswerLost ==
    /\ Spend("lost")
    /\ Abort
    /\ UNCHANGED <<env, api, cached, machine, mcached>>

(* getFlavorByName, getImageList *)
LookUp ==
    /\ CallDue /\ client
    /\ \/ pc = "flavor" /\ Answered([obj EXCEPT !.flavor = TRUE])
       \/ pc = "image" /\ Answered([obj EXCEPT !.image = TRUE])
    /\ UNCHANGED <<cloud, budget>>

(* mutant: the provider id is forgotten *)
LaunchedAnonymous(o, id) == [o EXCEPT !.instance = id]

(* mutant: the instance id is forgotten *)
LaunchedUnrecorded(o, id) == [o EXCEPT !.providerID = id]

(* createInstance; provider id and instance id are the same id. *)
Launched(o, id) == [o EXCEPT !.providerID = id, !.instance = id]

CreateInstance ==
    /\ CallDue /\ client /\ pc = "instance"
    /\ vms' = vms \cup {next}
    /\ next' = next + 1
    /\ \/ Answered(Launched(obj, next)) /\ UNCHANGED budget
       \/ AnswerLost
    /\ UNCHANGED <<running, routes>>

(* mutant: the entry is not patched until the machine is ready *)
AttachUnpatched ==
    /\ CallDue /\ client /\ pc = "route"
    /\ routes' = routes \cup {obj.instance}
    /\ obj' = [obj EXCEPT !.attached = TRUE]
    /\ pc' = After[pc]
    /\ UNCHANGED <<env, api, cached, machine, mcached, queued, step, before,
                   mcopy, seen, client, failed, vms, running, next, budget>>

(* createFloatingGroup *)
Attach ==
    /\ CallDue /\ client /\ pc = "route"
    /\ routes' = routes \cup {obj.instance}
    /\ \/ Answered([obj EXCEPT !.attached = TRUE]) /\ UNCHANGED budget
       \/ AnswerLost
    /\ UNCHANGED <<vms, running, next>>

(* mutant: the announcement is not patched *)
CheckRunningUnpatched ==
    /\ CallDue /\ client /\ pc = "running" /\ obj.instance \in vms
    /\ IF obj.instance \in running
         THEN EndPass /\ UNCHANGED queued
         ELSE Abort
    /\ UNCHANGED <<env, api, cached, machine, mcached, cloud, budget>>

(* mutant: an instance that is not running is not looked at again *)
CheckRunningOnce ==
    /\ CallDue /\ client /\ pc = "running" /\ obj.instance \in vms
    /\ IF obj.instance \in running
         THEN Answered([obj EXCEPT !.ready = TRUE])
         ELSE /\ EndPass
              /\ UNCHANGED <<env, api, cached, machine, mcached, queued>>
    /\ UNCHANGED <<cloud, budget>>

(* getInstance: the machine is ready, or looked at again later. *)
CheckRunning ==
    /\ CallDue /\ client /\ pc = "running" /\ obj.instance \in vms
    /\ IF obj.instance \in running
         THEN Answered([obj EXCEPT !.ready = TRUE])
         ELSE Abort /\ UNCHANGED <<env, api, cached, machine, mcached>>
    /\ UNCHANGED <<cloud, budget>>

(* reconcileDelete reads the owner Machine again. *)
GetOwnerMachine ==
    /\ pc = "owner" /\ mcached.exists
    /\ IF mcached = machine THEN UNCHANGED budget ELSE Spend("stale")
    /\ mcopy' = mcached
    /\ pc' = After[pc]
    /\ UNCHANGED <<env, api, cached, machine, mcached, queued, step, obj,
                   before, seen, client, failed, cloud>>

GetOwnerMachineFails ==
    /\ pc = "owner"
    /\ \/ ~mcached.exists /\ UNCHANGED budget
       \/ mcached.exists /\ Spend("read")
    /\ Abort
    /\ UNCHANGED <<env, api, cached, machine, mcached, cloud>>

(* deleteFloatingGroupByFloatingIpIdAndInstanceId.  An error inside the    *)
(* answer is not looked at; without the hook no error is.                  *)
Missing(r, rs) == MissingIsError /\ r \notin rs

Withdraw ==
    /\ CallDue /\ client /\ pc = "withdraw"
    /\ \/ /\ ~Missing(obj.instance, routes)
          /\ routes' = routes \ {obj.instance}
          /\ \/ Answered([obj EXCEPT !.attached = FALSE]) /\ UNCHANGED budget
             \/ mcopy.hook /\ AnswerLost
       \/ /\ \/ Spend("inband")
             \/ ~mcopy.hook /\ Spend("call")
             \/ ~mcopy.hook /\ Missing(obj.instance, routes)
                  /\ UNCHANGED budget
          /\ Answered([obj EXCEPT !.attached = FALSE])
          /\ UNCHANGED routes
    /\ UNCHANGED <<vms, running, next>>

(* The hook is removed and the pass ends: the instance stays for now. *)
RemoveHook ==
    /\ pc = "unhook"
    /\ UpdateHook(FALSE)
    /\ EndPass
    /\ UNCHANGED <<env, api, cached, mcached, queued, cloud, budget>>

(* deleteInstance *)
Destroy ==
    /\ CallDue /\ client /\ pc = "destroy"
    /\ \/ /\ ~Missing(obj.instance, vms)
          /\ vms' = vms \ {obj.instance}
          /\ running' = running \ {obj.instance}
          /\ \/ Answered([obj EXCEPT !.instance = None]) /\ UNCHANGED budget
             \/ AnswerLost
       \/ /\ Spend("inband")
          /\ Answered([obj EXCEPT !.instance = None])
          /\ UNCHANGED <<vms, running>>
    /\ UNCHANGED <<routes, next>>

(* A call that fails without an effect, or the use of a nil client *)
CallFails ==
    /\ CallDue
    /\ \/ ~client /\ UNCHANGED budget
       \/ /\ client /\ UNCHANGED budget
          /\ \/ pc = "withdraw" /\ mcopy.hook /\ Missing(obj.instance, routes)
             \/ pc = "destroy" /\ Missing(obj.instance, vms)
             \/ pc = "running" /\ obj.instance \notin vms
       \/ /\ client /\ Spend("call")
          /\ pc = "withdraw" => mcopy.hook
    /\ Abort
    /\ UNCHANGED <<env, api, cached, machine, mcached, cloud>>

(* mutant: the removal of the finalizer is not patched *)
FinishUnpatched ==
    /\ pc = "finish" /\ step = "work" /\ obj.instance = None
    /\ EndPass
    /\ UNCHANGED <<env, api, cached, machine, mcached, queued, cloud, budget>>

(* The finalizer goes when the instance has gone. *)
Finish ==
    /\ pc = "finish" /\ step = "work" /\ obj.instance = None
    /\ Answered([obj EXCEPT !.fin = FALSE])
    /\ UNCHANGED <<cloud, budget>>

-----------------------------------------------------------------------------
(* patch.Helper.Patch, as in ClusterController *)

Merged(b, o, a) == IF o # b THEN o ELSE a

MergeMain(a) ==
    LET m == [a EXCEPT !.fin = Merged(before.fin, obj.fin, @),
                       !.providerID = Merged(before.providerID,
                                             obj.providerID, @)]
    IN  IF m.deleting /\ ~m.fin THEN Gone ELSE m

MergeStatus(a) ==
    [a EXCEPT !.flavor = Merged(before.flavor, obj.flavor, @),
              !.image = Merged(before.image, obj.image, @),
              !.instance = Merged(before.instance, obj.instance, @),
              !.attached = Merged(before.attached, obj.attached, @),
              !.ready = Merged(before.ready, obj.ready, @)]

MainDiffers == MergeMain(before) # before

StatusDiffers == MergeStatus(before) # before

PatchMain ==
    /\ step = "main"
    /\ step' = "status"
    /\ \/ /\ MainDiffers => api.exists
          /\ api' = IF MainDiffers THEN MergeMain(api) ELSE api
          /\ UNCHANGED <<failed, budget>>
       \/ /\ MainDiffers
          /\ \/ ~api.exists /\ UNCHANGED budget
             \/ api.exists /\ Spend("patch")
          /\ failed' = TRUE
          /\ UNCHANGED api
    /\ UNCHANGED <<env, cached, machine, mcached, queued, pc, obj, before,
                   mcopy, seen, client, cloud>>

PatchStatus ==
    /\ step = "status" /\ ~failed
    /\ StatusDiffers => api.exists \/ (obj.deleting /\ ~obj.fin)
    /\ api' = IF StatusDiffers /\ api.exists THEN MergeStatus(api) ELSE api
    /\ IF Following = "idle"
         THEN EndPass
         ELSE /\ pc' = Following
              /\ step' = "work"
              /\ UNCHANGED <<obj, before, mcopy, seen, client, failed>>
    /\ UNCHANGED <<env, cached, machine, mcached, queued, cloud, budget>>

PatchStatusFails ==
    /\ step = "status"
    /\ \/ failed /\ UNCHANGED budget
       \/ /\ StatusDiffers /\ ~api.exists /\ ~(obj.deleting /\ ~obj.fin)
          /\ UNCHANGED budget
       \/ StatusDiffers /\ api.exists /\ Spend("patch")
    /\ \/ UNCHANGED api
       \/ failed /\ StatusDiffers /\ api.exists /\ api' = MergeStatus(api)
    /\ Abort
    /\ UNCHANGED <<env, cached, machine, mcached, cloud>>

-----------------------------------------------------------------------------
PassStep ==
    \/ AddHook \/ RemoveHook \/ UpdateFails
    \/ GetClient \/ GetClientFails \/ PassGate \/ StopAtGate
    \/ GetOwnerMachine \/ GetOwnerMachineFails
    \/ SkipSection \/ LookUp \/ CallFails
    \/ CreateInstance \/ Attach \/ CheckRunning \/ Withdraw \/ Destroy
    \/ Finish \/ PatchMain \/ PatchStatus \/ PatchStatusFails

ClusterAPI == SetOwner \/ InfraReady \/ SetBootstrap \/ NodeJoins \/ Drain
                \/ DeleteInfra \/ RemoveMachine

Environment == ClusterAPI \/ DeleteMachine \/ DeleteDirect
                 \/ Deliver \/ Resync \/ Crash \/ Boot

Next == Environment \/ Start \/ StartFails \/ PassStep

Spec == Init /\ [][Next]_vars

(* Cluster API does its part and instances come up; the watches deliver,   *)
(* the queue is worked off, passes go on; and every object is resynced     *)
(* (SyncPeriod is left at ten hours), which is all that revives a pass     *)
(* that ended without a retry.                                             *)
Fairness ==
    /\ WF_vars(SetOwner) /\ WF_vars(InfraReady) /\ WF_vars(SetBootstrap)
    /\ WF_vars(Drain) /\ WF_vars(DeleteInfra) /\ WF_vars(Boot)
    /\ WF_vars(Deliver) /\ WF_vars(Resync)
    /\ WF_vars(Start) /\ WF_vars(PassStep)

FairSpec == Spec /\ Fairness

-----------------------------------------------------------------------------
(* Properties *)

(* The objects, the pass and the cloud keep their shape: a pass is in a    *)
(* section that exists, and only instances that exist are running.         *)
TypeOK ==
    /\ controlPlane \in BOOLEAN /\ infra \in BOOLEAN /\ leaving \in BOOLEAN
    /\ api \in Objects /\ cached \in Objects
    /\ obj \in Objects /\ before \in Objects
    /\ machine \in Machines /\ mcached \in Machines /\ mcopy \in Machines
    /\ queued \in BOOLEAN /\ seen \in BOOLEAN
    /\ client \in BOOLEAN /\ failed \in BOOLEAN
    /\ pc \in Phases /\ step \in {"work", "main", "status"}
    /\ vms \in SUBSET Nat /\ running \in SUBSET vms /\ routes \in SUBSET Nat
    /\ next \in Nat /\ budget \in Budgets

(* Whatever goes wrong, an instance is only created and only put into the  *)
(* floating group while the API server holds the WXOneMachine with its     *)
(* finalizer.                                                              *)
CreateUnderFinalizer ==
    CallDue /\ pc \in {"instance", "route"} => api.exists /\ api.fin

(* What is left behind: instances nobody knows about, and entries of the   *)
(* floating group whose instance is gone.                                  *)
LeftBehind == (vms \ {api.instance, obj.instance}) \cup (routes \ vms)

(* Failing reads, logins and cloud calls leave nothing behind: traffic of  *)
(* the control plane is never sent to an instance that was deleted.        *)
NothingLeftBehind == LeftBehind = {}

(* As long as objects read are fresh, one crash, lost answer, failed patch *)
(* or ignored error leaves one thing behind at most.                       *)
LeakBounded ==
    ~budget.misread => Cardinality(LeftBehind) <= MaxDisturb - budget.left

(* As long as the object records that its instance is in the floating      *)
(* group, the hook that makes Cluster API wait is on the Machine, unless a *)
(* pass has read a copy that was behind.                                   *)
HookGuardsRoute == api.attached /\ ~budget.misread => machine.hook

(* The code's own order (wxonemachine_controller.go:563): the instance of  *)
(* a control plane machine is not deleted while traffic is routed to it.   *)
RouteWithdrawnFirst == [][routes' \cap (vms \ vms') = {}]_vars

(* A machine announced ready has its instance running under its provider   *)
(* id, and is in the floating group if it is a control plane machine.      *)
ReadyIsServing ==
    api.ready /\ ~api.deleting => /\ api.instance \in running
                                  /\ api.providerID = api.instance
                                  /\ controlPlane => api.instance \in routes

(* The finalizer, what exists in WX-ONE and the announcement follow the    *)
(* life cycle both reconcilers promise.                                    *)
Lifecycle == INSTANCE ResourceLifecycle WITH
    Kinds <- {"instance", "route"},
    needed <- IF controlPlane THEN {"instance", "route"} ELSE {"instance"},
    phase <- IF ~api.exists THEN "gone"
             ELSE IF ~api.fin THEN "open"
             ELSE IF api.deleting THEN "leaving" ELSE "guarded",
    held <- [k \in {"instance", "route"} |->
               IF k = "instance" THEN vms ELSE routes],
    ready <- api.ready

ImplementsLifecycle == Lifecycle!Spec

(* A provider id, once written, never changes. *)
ProviderIDStable ==
    [][api.providerID # None /\ api'.exists
         => api'.providerID = api.providerID]_vars

(* wxonemachine_controller.go:557-559: the instance is not deleted before  *)
(* Cluster API has drained its Node.                                       *)
DestroyAfterDrain ==
    [][vms \subseteq vms' \/ ~machine.node \/ machine.drained]_vars

(* Disturbances being finitely many, the machine gets ready unless its     *)
(* deletion is asked for.                                                  *)
Provisioned == <>(api.ready \/ machine.deleting \/ ~api.exists)

(* If the Cluster or the WXOneMachine itself is deleted, the WXOneMachine  *)
(* goes away.                                                              *)
DeletionCompletes == leaving \/ api.deleting ~> ~api.exists

(* wxonemachine_controller.go:551: the hook is taken off again to unpause  *)
(* Cluster API, so that a Machine deleted on its own goes away, too.       *)
HookUnpauses == machine.deleting ~> ~api.exists
=============================================================================
