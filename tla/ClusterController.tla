-------------------------- MODULE ClusterController --------------------------
(***************************************************************************)
(* The WXOneCluster reconciler (internal/controller/                       *)
(* wxonecluster_controller.go) with what it talks to: the API server that  *)
(* holds the WXOneCluster object, the informer cache it reads from, and    *)
(* the WX-ONE cloud in which it creates the network, the floating IP and   *)
(* the SSH key of the cluster.                                             *)
(*                                                                         *)
(* One WXOneCluster object is modelled.  The controller has one worker     *)
(* (MaxConcurrentReconciles is left at 1), so at most one pass runs.       *)
(***************************************************************************)
EXTENDS Naturals, FiniteSets

CONSTANTS
    Disturbances,   \* what may go wrong, a subset of AllDisturbances
    MaxDisturb,     \* how many times, all kinds together
    MissingIsError  \* does the cloud answer the deletion of a resource that
                    \* is not there with an error?  (the repository only
                    \* guesses, wxonemachine_controller.go:568)

AllDisturbances ==
    {"crash",   \* the manager process dies and starts again
     "stale",   \* a pass reads an object the informer has not caught up with
     "read",    \* the owner Cluster or the credentials Secret cannot be read
     "auth",    \* NewWXOneClients returns an error
     "me",      \* NewWXOneClients returns no error and no client
     "call",    \* a cloud call fails before it has an effect
     "lost",    \* a cloud call has its effect and the answer is lost
     "inband",  \* a deletion answers with an error inside the payload
     "patch"}   \* the API server does not accept a patch

ASSUME ConstantsAssumption ==
    /\ Disturbances \subseteq AllDisturbances
    /\ MaxDisturb \in Nat
    /\ MissingIsError \in BOOLEAN

-----------------------------------------------------------------------------
(* The WXOneCluster object.  ids holds Status.<resource>.ResourceID; the   *)
(* network and its first subnet are written and cleared together, and so   *)
(* are one id; the address of a floating IP is identified with its id.     *)

Kinds == {"network", "floatingIP", "sshKey"}

None == 0       \* the empty string

NoIds == [k \in Kinds |-> None]

Objects == [exists : BOOLEAN, owned : BOOLEAN, deleting : BOOLEAN,
            fin : BOOLEAN, endpoint : Nat, project : BOOLEAN,
            ids : [Kinds -> Nat], ready : BOOLEAN]

NewObject == [exists |-> TRUE, owned |-> FALSE, deleting |-> FALSE,
              fin |-> FALSE, endpoint |-> None, project |-> FALSE,
              ids |-> NoIds, ready |-> FALSE]

Gone == [NewObject EXCEPT !.exists = FALSE]

Budgets == [left : Nat, misread : BOOLEAN]

VARIABLES
    api,     \* the object as the API server holds it
    cached,  \* the object as the informer cache holds it
    queued,  \* the object is in the work queue
    pc,      \* the section of the pass that is running, or "idle"
    step,    \* inside a section: "work", or the call of Patch that is due
    obj,     \* the copy of the object the pass works on
    before,  \* what patch.NewHelper remembered of it
    client,  \* NewWXOneClients returned a client that can be used
    failed,  \* the first of the two calls of Patch has failed
    cloud,   \* the resources that exist in WX-ONE
    next,    \* the next resource id WX-ONE hands out
    budget   \* the disturbances left, and whether a pass has started on a
             \* copy that was behind

vars == <<api, cached, queued, pc, step, obj, before, client, failed, cloud,
          next, budget>>

pass == <<pc, step, obj, before, client, failed>>

Phases == {"idle", "finalizer", "client", "project", "finish"} \cup Kinds

(* mutant: the last creation leads to a section that does not exist *)
AfterUnknownSection ==
    [finalizer |-> "client", project |-> "network", network |-> "floatingIP",
     floatingIP |-> "sshKey", sshKey |-> "ready", finish |-> "idle"]

(* mutant: the key is created before the floating IP *)
AfterKeyFirst ==
    [finalizer |-> "client", project |-> "network", network |-> "sshKey",
     sshKey |-> "floatingIP", floatingIP |-> "finish", finish |-> "idle"]

After == [finalizer |-> "client", project |-> "network",
          network |-> "floatingIP", floatingIP |-> "sshKey",
          sshKey |-> "finish", finish |-> "idle"]

Init ==
    /\ api = NewObject
    /\ cached = NewObject
    /\ queued = TRUE
    /\ pc = "idle"
    /\ step = "work"
    /\ obj = Gone
    /\ before = Gone
    /\ client = FALSE
    /\ failed = FALSE
    /\ cloud = [k \in Kinds |-> {}]
    /\ next = 1
    /\ budget = [left |-> MaxDisturb, misread |-> FALSE]

Spend(kind) ==
    /\ kind \in Disturbances
    /\ budget.left > 0
    /\ budget' = [left |-> budget.left - 1,
                  misread |-> budget.misread \/ kind = "stale"]

(* The pass returns; nothing of its working copy survives it. *)
EndPass ==
    /\ pc' = "idle"
    /\ step' = "work"
    /\ obj' = Gone
    /\ before' = Gone
    /\ client' = FALSE
    /\ failed' = FALSE

(* mutant: an error is swallowed *)
AbortQuietly == EndPass /\ UNCHANGED queued

(* The pass returns an error or panics: controller-runtime puts the object *)
(* back in the queue.                                                      *)
Abort == EndPass /\ queued' = TRUE

-----------------------------------------------------------------------------
(* The API server and the user *)

(* The Cluster controller sets the owner reference of the WXOneCluster. *)
SetOwner ==
    /\ api.exists /\ ~api.owned
    /\ api' = [api EXCEPT !.owned = TRUE]
    /\ UNCHANGED <<cached, queued, pass, cloud, next, budget>>

(* A deletion only marks an object that has a finalizer. *)
RequestDelete ==
    /\ api.exists /\ ~api.deleting
    /\ api' = IF api.fin THEN [api EXCEPT !.deleting = TRUE] ELSE Gone
    /\ UNCHANGED <<cached, queued, pass, cloud, next, budget>>

(* A watch event brings the cache up to date and enqueues the object. *)
Deliver ==
    /\ cached # api
    /\ cached' = api
    /\ queued' = TRUE
    /\ UNCHANGED <<api, pass, cloud, next, budget>>

(* An event of the owner Cluster, or the periodic resync. *)
Resync ==
    /\ pc = "idle" /\ ~queued
    /\ queued' = TRUE
    /\ UNCHANGED <<api, cached, pass, cloud, next, budget>>

(* The manager restarts: the working copy is lost, the new informer lists. *)
Crash ==
    /\ Spend("crash")
    /\ Abort
    /\ cached' = api
    /\ UNCHANGED <<api, cloud, next>>

-----------------------------------------------------------------------------
(* A pass: Reconcile, then reconcileNormal or reconcileDelete by the       *)
(* deletion timestamp of the object that was read.                         *)

(* mutant: the finalizer goes out with the first patch that comes along *)
FirstSectionUnguarded(o) == "client"

(* A normal pass first adds the finalizer and patches. *)
FirstSection(o) == IF o.deleting THEN "client" ELSE "finalizer"

Start ==
    /\ pc = "idle" /\ queued
    /\ IF cached = api THEN UNCHANGED budget ELSE Spend("stale")
    /\ queued' = FALSE
    /\ IF ~cached.exists \/ ~cached.owned
         THEN UNCHANGED pass
         ELSE /\ before' = cached
              /\ obj' = [cached EXCEPT !.fin = @ \/ ~cached.deleting]
              /\ pc' = FirstSection(cached)
              /\ step' = IF pc' = "finalizer" THEN "main" ELSE "work"
              /\ UNCHANGED <<client, failed>>
    /\ UNCHANGED <<api, cached, cloud, next>>

(* GetOwnerCluster returns an error. *)
StartFails ==
    /\ pc = "idle" /\ queued /\ cached.exists
    /\ Spend("read")
    /\ UNCHANGED <<api, cached, queued, pass, cloud, next>>

(* The credentials and NewWXOneClients. *)
GetClient ==
    /\ pc = "client"
    /\ pc' = IF obj.deleting THEN "network" ELSE "project"
    /\ \/ client' = TRUE /\ UNCHANGED budget
       \/ client' = FALSE /\ Spend("me")
    /\ UNCHANGED <<api, cached, queued, step, obj, before, failed, cloud,
                   next>>

GetClientFails ==
    /\ pc = "client"
    /\ Spend("read") \/ Spend("auth")
    /\ Abort
    /\ UNCHANGED <<api, cached, cloud, next>>

(* The section the pass is in has a cloud call to make: the project is not *)
(* known, a resource to create has no id, a resource to delete has one.    *)
CallDue ==
    /\ step = "work"
    /\ \/ pc = "project" /\ ~obj.project
       \/ pc \in Kinds /\ obj.deleting # (obj.ids[pc] = None)

SkipSection ==
    /\ step = "work" /\ pc \in Kinds \cup {"project"} /\ ~CallDue
    /\ pc' = After[pc]
    /\ UNCHANGED <<api, cached, queued, step, obj, before, client, failed,
                   cloud, next, budget>>

(* getDefaultProject; the project is written with the next status patch. *)
GetProject ==
    /\ CallDue /\ pc = "project" /\ client
    /\ obj' = [obj EXCEPT !.project = TRUE]
    /\ pc' = After[pc]
    /\ UNCHANGED <<api, cached, queued, step, before, client, failed, cloud,
                   next, budget>>

(* mutant: the endpoint is written together with the floating IP *)
RecordedWithEndpoint(o, k, id) ==
    [o EXCEPT !.ids[k] = id,
              !.endpoint = IF k = "floatingIP" THEN id ELSE @]

Recorded(o, k, id) == [o EXCEPT !.ids[k] = id]

(* mutant: ids are not patched one by one, but at the end of the pass *)
CreateUnpatched(k) ==
    /\ CallDue /\ pc = k /\ ~obj.deleting /\ client
    /\ cloud' = [cloud EXCEPT ![k] = @ \cup {next}]
    /\ next' = next + 1
    /\ obj' = Recorded(obj, k, next)
    /\ pc' = After[pc]
    /\ UNCHANGED <<api, cached, queued, step, before, client, failed, budget>>

(* createNetwork, createFloatingIP, createKey *)
Create(k) ==
    /\ CallDue /\ pc = k /\ ~obj.deleting /\ client
    /\ cloud' = [cloud EXCEPT ![k] = @ \cup {next}]
    /\ next' = next + 1
    /\ obj' = Recorded(obj, k, next)
    /\ step' = "main"
    /\ UNCHANGED <<api, cached, queued, pc, before, client, failed, budget>>

CreateLost(k) ==
    /\ CallDue /\ pc = k /\ ~obj.deleting /\ client
    /\ Spend("lost")
    /\ cloud' = [cloud EXCEPT ![k] = @ \cup {next}]
    /\ next' = next + 1
    /\ Abort
    /\ UNCHANGED <<api, cached>>

(* deleteNetwork, deleteFloatingIP, deleteKey.  An error inside the answer *)
(* is not looked at, so the pass clears the id although nothing went away. *)
Delete(k) ==
    /\ CallDue /\ pc = k /\ obj.deleting /\ client
    /\ \/ /\ obj.ids[k] \in cloud[k] \/ ~MissingIsError
          /\ cloud' = [cloud EXCEPT ![k] = @ \ {obj.ids[k]}]
          /\ UNCHANGED budget
       \/ Spend("inband") /\ UNCHANGED cloud
    /\ obj' = Recorded(obj, k, None)
    /\ step' = "main"
    /\ UNCHANGED <<api, cached, queued, pc, before, client, failed, next>>

DeleteLost(k) ==
    /\ CallDue /\ pc = k /\ obj.deleting /\ client
    /\ Spend("lost")
    /\ cloud' = [cloud EXCEPT ![k] = @ \ {obj.ids[k]}]
    /\ Abort
    /\ UNCHANGED <<api, cached, next>>

(* A call that has no effect: WX-ONE cannot be reached, the resource to    *)
(* delete is not there, or the client is nil and its use panics.           *)
CallFails ==
    /\ CallDue
    /\ \/ ~client /\ UNCHANGED budget
       \/ /\ client /\ MissingIsError /\ obj.deleting
          /\ obj.ids[pc] \notin cloud[pc]
          /\ UNCHANGED budget
       \/ client /\ Spend("call")
    /\ Abort
    /\ UNCHANGED <<api, cached, cloud, next>>

(* mutant: the endpoint is left to others *)
FinishWithoutEndpoint ==
    /\ pc = "finish" /\ step = "work"
    /\ obj' = [obj EXCEPT !.ready = @ \/ ~obj.deleting,
                          !.fin = ~obj.deleting]
    /\ step' = "main"
    /\ UNCHANGED <<api, cached, queued, pc, before, client, failed, cloud,
                   next, budget>>

(* The end of reconcileNormal marks the cluster ready, the end of          *)
(* reconcileDelete takes the finalizer off.                                *)
Finish ==
    /\ pc = "finish" /\ step = "work"
    /\ \/ /\ ~obj.deleting /\ \A k \in Kinds : obj.ids[k] # None
          /\ obj' = [obj EXCEPT !.endpoint = obj.ids["floatingIP"],
                                !.ready = TRUE]
       \/ /\ obj.deleting /\ \A k \in Kinds : obj.ids[k] = None
          /\ obj' = [obj EXCEPT !.fin = FALSE]
    /\ step' = "main"
    /\ UNCHANGED <<api, cached, queued, pc, before, client, failed, cloud,
                   next, budget>>

-----------------------------------------------------------------------------
(* patch.Helper.Patch: what differs from the snapshot the helper took is   *)
(* sent without a resource version, first the metadata and the spec, then  *)
(* the status.  The second call is made even if the first one failed.      *)

Merged(b, o, a) == IF o # b THEN o ELSE a

MergeMain(a) ==
    LET m == [a EXCEPT !.fin = Merged(before.fin, obj.fin, @),
                       !.endpoint = Merged(before.endpoint, obj.endpoint, @)]
    IN  IF m.deleting /\ ~m.fin THEN Gone ELSE m

MergeStatus(a) ==
    [a EXCEPT !.project = Merged(before.project, obj.project, @),
              !.ids = [k \in Kinds |->
                         Merged(before.ids[k], obj.ids[k], @[k])],
              !.ready = Merged(before.ready, obj.ready, @)]

MainDiffers == before.fin # obj.fin \/ before.endpoint # obj.endpoint

StatusDiffers == \/ before.project # obj.project
                 \/ before.ids # obj.ids
                 \/ before.ready # obj.ready

PatchMain ==
    /\ step = "main"
    /\ step' = "status"
    /\ \/ /\ MainDiffers => api.exists
          /\ api' = IF MainDiffers THEN MergeMain(api) ELSE api
          /\ UNCHANGED <<failed, budget>>
       \/ /\ MainDiffers
          /\ \/ ~api.exists /\ UNCHANGED budget
             \/ api.exists /\ Spend("patch")
          /\ failed' = TRUE
          /\ UNCHANGED api
    /\ UNCHANGED <<cached, queued, pc, obj, before, client, cloud, next>>

(* That the object is gone is no error once its finalizer is off. *)
PatchStatus ==
    /\ step = "status" /\ ~failed
    /\ StatusDiffers => api.exists \/ (obj.deleting /\ ~obj.fin)
    /\ api' = IF StatusDiffers /\ api.exists THEN MergeStatus(api) ELSE api
    /\ IF pc = "finish"
         THEN EndPass
         ELSE /\ pc' = After[pc]
              /\ step' = "work"
              /\ UNCHANGED <<obj, before, client, failed>>
    /\ UNCHANGED <<cached, queued, cloud, next, budget>>

PatchStatusFails ==
    /\ step = "status"
    /\ \/ failed /\ UNCHANGED budget
       \/ /\ StatusDiffers /\ ~api.exists /\ ~(obj.deleting /\ ~obj.fin)
          /\ UNCHANGED budget
       \/ StatusDiffers /\ api.exists /\ Spend("patch")
    /\ \/ UNCHANGED api
       \/ failed /\ StatusDiffers /\ api.exists /\ api' = MergeStatus(api)
    /\ Abort
    /\ UNCHANGED <<cached, cloud, next>>

-----------------------------------------------------------------------------
PassStep ==
    \/ GetClient \/ GetClientFails
    \/ SkipSection \/ GetProject \/ CallFails
    \/ \E k \in Kinds : \/ Create(k) \/ CreateLost(k)
                       \/ Delete(k) \/ DeleteLost(k)
    \/ Finish
    \/ PatchMain \/ PatchStatus \/ PatchStatusFails

Environment == SetOwner \/ RequestDelete \/ Deliver \/ Resync \/ Crash

Next == Environment \/ Start \/ StartFails \/ PassStep

Spec == Init /\ [][Next]_vars

(* The watch delivers, the worker takes what is queued (the back-off of    *)
(* the queue is finite), a pass goes on, and Cluster API sets the owner.   *)
Fairness == /\ WF_vars(Deliver)
            /\ WF_vars(Start)
            /\ WF_vars(PassStep)
            /\ WF_vars(SetOwner)

FairSpec == Spec /\ Fairness
-----------------------------------------------------------------------------
(* Properties *)

(* The objects, the pass and the cloud keep their shape: in particular a   *)
(* pass is always in a section that exists.                                *)
TypeOK ==
    /\ api \in Objects /\ cached \in Objects
    /\ obj \in Objects /\ before \in Objects
    /\ queued \in BOOLEAN /\ client \in BOOLEAN /\ failed \in BOOLEAN
    /\ pc \in Phases
    /\ step \in {"work", "main", "status"}
    /\ cloud \in [Kinds -> SUBSET Nat]
    /\ next \in Nat /\ budget \in Budgets

(* Whatever goes wrong, a pass only creates something in WX-ONE while the  *)
(* API server holds the object with its finalizer: also when the pass read *)
(* a stale copy, or the deletion was asked for while it ran.               *)
CreateUnderFinalizer ==
    CallDue /\ ~obj.deleting => api.exists /\ api.fin

(* The resources nobody knows about: neither the object nor the pass that  *)
(* is running holds their id, so no later pass will delete them.           *)
Orphans ==
    UNION {cloud[k] \ {api.ids[k], obj.ids[k]} : k \in Kinds}

(* Failing reads, logins and cloud calls never orphan a resource, wherever *)
(* they hit and whenever the deletion is asked for.                        *)
NoOrphans == Orphans = {}

(* wxonecluster_types.go:25: the finalizer keeps the object until the      *)
(* resources that belong to it are cleaned up.                             *)
CleanedUp == ~api.exists => \A k \in Kinds : cloud[k] = {}

(* The finalizer, what exists in WX-ONE and the announcement follow the    *)
(* life cycle both reconcilers promise.                                    *)
Lifecycle == INSTANCE ResourceLifecycle WITH
    needed <- Kinds,
    phase <- IF ~api.exists THEN "gone"
             ELSE IF ~api.fin THEN "open"
             ELSE IF api.deleting THEN "leaving" ELSE "guarded",
    held <- cloud,
    ready <- api.ready

ImplementsLifecycle == Lifecycle!Spec

(* As long as passes read fresh copies, one crash, lost answer, failed     *)
(* patch or ignored error orphans one resource at most.                    *)
LeakBounded ==
    ~budget.misread => Cardinality(Orphans) <= MaxDisturb - budget.left

(* The endpoint the cluster reports once it is ready is the floating IP    *)
(* the object records.                                                     *)
ReadyHasEndpoint ==
    api.ready /\ ~api.deleting => /\ api.endpoint # None
                                 /\ api.endpoint = api.ids["floatingIP"]

(* Once written, the control plane endpoint is never changed, although a   *)
(* crash may make a later pass create another floating IP, as long as      *)
(* passes read fresh copies.                                               *)
EndpointStable ==
    [][api.endpoint # None /\ api'.exists /\ ~budget.misread
         => api'.endpoint = api.endpoint]_vars

(* clients.go:133-140: if NewWXOneClients returns no error, its client can *)
(* be used.                                                                *)
ClientUsable == CallDue => client

(* Disturbances being finitely many, the cluster gets ready unless its     *)
(* deletion is asked for.                                                  *)
Provisioned == <>(api.ready \/ api.deleting \/ ~api.exists)

(* ... and an object whose deletion is asked for goes away. *)
DeletionCompletes == api.deleting ~> ~api.exists
=============================================================================
