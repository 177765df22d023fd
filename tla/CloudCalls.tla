----------------------------- MODULE CloudCalls -----------------------------
(***************************************************************************)
(* The calls of the two reconcilers to WX-ONE (internal/controller/        *)
(* generated.go and clients.go): which are made, with which arguments, and *)
(* what is made of the answers.  An answer is known by what the response   *)
(* types let a caller find in it; the specs the arguments are taken from   *)
(* by what the admission webhooks let through; the user data by CloudInit. *)
(*                                                                         *)
(* The passes of the two reconcilers are taken one after the other, and    *)
(* what they do between the calls succeeds: System interleaves them, and   *)
(* ClusterController and MachineController disturb them.  A status is      *)
(* recorded with the section it is set in.  What a machine takes from the  *)
(* WXOneCluster is the copy an informer had when its pass started.         *)
(***************************************************************************)
EXTENDS Naturals, SequencesExt, CloudInit, Admission

CONSTANTS
    MaxBad,    \* how many answers are bad, or do not come
    MaxEdits,  \* how often a spec is edited
    Quota      \* how many resources of a kind WX-ONE lets one have

ASSUME BoundsAssumption == {MaxBad, MaxEdits, Quota} \subseteq Nat

None == 0
Elsewhere == 99          \* an address that is no floating IP of the cluster

Reconciled == {"cluster", "machine"}

(* What a status records: the ids, and for an image where it is in the     *)
(* catalogue.  The address of a floating IP is the id again.               *)
Fields == {"project", "network", "subnet", "floatingIP", "sshKey", "flavor",
           "image", "instance", "route"}

(* What a machine reads of its cluster *)
ClusterFields == {"project", "subnet", "floatingIP", "sshKey"}

Kinds == {"network", "floatingIP", "sshKey", "instance", "route"}

Projects == {"default", "other"}

Images == {"image", "old"}

Specs == [cluster : [project : Projects, subnets : Nat, endpoint : Nat],
          machine : [image : Images, providerID : Nat]]

Resources == [kind : Kinds, id : Nat, project : Nat, subnets : Nat,
              image : Nat, data : Documents, running : BOOLEAN]

-----------------------------------------------------------------------------
(* What there is to build *)

Files(names) == [i \in DOMAIN names |-> <<names[i], 0>>]

CloudConfig == Document(TRUE, "mapping", Files(<<"kubeadm.yaml">>),
                        Files(<<"kubeadm">>))

(* The name of the project and the number of subnets, the image names the  *)
(* catalogue lists ("" for an image without one), the bootstrap data and   *)
(* the Secret: what one may expect, and one thing that is not.             *)
Expected == [project |-> "default", subnets |-> 2,
             catalogue |-> <<"old", "image", "image">>,
             data |-> CloudConfig, secret |-> "complete"]

Situations ==
    {Expected,
     [Expected EXCEPT !.project = "other"],
     [Expected EXCEPT !.subnets = 0],
     [Expected EXCEPT !.secret = "partial"]}
    \cup {[Expected EXCEPT !.catalogue = c] :
            c \in {<<"old">>, <<"", "image">>, <<"image", "", "image">>}}
    \cup {[Expected EXCEPT !.data = d] :
            d \in {Document(TRUE, "none", <<>>, <<>>),
                   Document(FALSE, "null", <<>>, <<>>),
                   Document(FALSE, "list", <<>>, <<>>),
                   Document(FALSE, "text", <<>>, <<>>),
                   Document(TRUE, "mapping", <<>>, NotAList)}}

VARIABLES
    controlPlane,  \* util.IsControlPlaneMachine
    catalogue,     \* the names of the images WX-ONE has
    data,          \* the bootstrap data of the machine
    seen,          \* what the informer has of the WXOneCluster's status, as
                   \* far as a machine reads it ...
    copy,          \* ... and what the pass for the machine has read
    secret,        \* is something missing from the credentials' Secret?
    template,      \* the specs in the templates ...
    spec,          \* ... and those of the WXOneCluster and the WXOneMachine
    life, ready,   \* how far either is, and which has Status.Ready
    ids,           \* what the status of either records
    queued,        \* which of them are in the work queue
    calls,         \* the calls the pass makes if they are due, none without
                   \* a pass
    session,       \* what NewWXOneClients has returned
    cloud,         \* the resources in WX-ONE
    next,          \* the next id WX-ONE hands out
    bad, edits     \* the bad answers and the edits so far

given == <<controlPlane, catalogue, data>>
objects == <<template, spec, life, ready>>
pass == <<calls, session, copy>>
aside == <<given, secret, seen>>
vars == <<aside, objects, ids, queued, pass, cloud, next, bad, edits>>

Nothing == [f \in ClusterFields |-> None]

Init ==
    \E s \in Situations :
      /\ controlPlane \in BOOLEAN
      /\ catalogue = s.catalogue /\ data = s.data /\ secret = s.secret
      /\ template = [cluster |-> [project |-> s.project,
                                  subnets |-> s.subnets, endpoint |-> None],
                     machine |-> [image |-> "image", providerID |-> None]]
      /\ spec = template
      /\ life = [o \in Reconciled |-> "wanted"] /\ ready = {}
      /\ ids = [f \in Fields |-> None] /\ seen = Nothing /\ copy = Nothing
      /\ queued = {} /\ calls = <<>> /\ session = "none"
      /\ cloud = {} /\ next = 1 /\ bad = 0 /\ edits = 0

Spend == bad < MaxBad /\ bad' = bad + 1

-----------------------------------------------------------------------------
(* The user and Cluster API, behind the webhooks *)

Admits(o, old, new) ==
    IF o = "cluster" THEN ValidateUpdateCluster(old, new)
                     ELSE ValidateUpdateMachine(old, new)

AdmitsTemplate(o, old, new) ==
    IF o = "cluster" THEN ValidateUpdateClusterTemplate(old, new)
                     ELSE ValidateUpdateMachineTemplate(old, new)

Edits(o, s) ==
    IF o = "cluster"
      THEN {[s EXCEPT !.project = "other"], [s EXCEPT !.subnets = 0],
            [s EXCEPT !.endpoint = Elsewhere]}
      ELSE {[s EXCEPT !.image = "old"], [s EXCEPT !.providerID = Elsewhere]}

(* Cluster API copies a template to a new object. *)
Create(o) ==
    /\ life[o] = "wanted"
    /\ IF o = "cluster"
         THEN ValidateCreateCluster(template.cluster)
         ELSE /\ life.cluster = "present"
              /\ ValidateCreateMachine(template.machine)
    /\ life' = [life EXCEPT ![o] = "present"]
    /\ spec' = [spec EXCEPT ![o] = template[o]]
    /\ queued' = queued \cup {o}
    /\ UNCHANGED <<aside, template, ready, ids, pass, cloud, next, bad, edits>>

EditTemplate(o) ==
    /\ edits < MaxEdits /\ edits' = edits + 1
    /\ \E new \in Edits(o, template[o]) \ {template[o]} :
         /\ AdmitsTemplate(o, template[o], new)
         /\ template' = [template EXCEPT ![o] = new]
    /\ UNCHANGED <<aside, spec, life, ready, ids, queued, pass, cloud, next,
                   bad>>

Edit(o) ==
    /\ edits < MaxEdits /\ edits' = edits + 1
    /\ life[o] \in {"present", "deleting"}
    /\ \E new \in Edits(o, spec[o]) \ {spec[o]} :
         /\ Admits(o, spec[o], new)
         /\ spec' = [spec EXCEPT ![o] = new]
    /\ queued' = queued \cup {o}
    /\ UNCHANGED <<aside, template, life, ready, ids, pass, cloud, next, bad>>

(* Cluster API deletes the machine before the cluster. *)
Delete(o) ==
    /\ life[o] = "present"
    /\ o = "cluster" => life.machine \in {"wanted", "gone"}
    /\ life' = [life EXCEPT ![o] = "deleting"]
    /\ queued' = queued \cup {o}
    /\ UNCHANGED <<aside, template, spec, ready, ids, pass, cloud, next, bad,
                   edits>>

CompleteSecret ==
    /\ secret = "partial"
    /\ secret' = "complete"
    /\ UNCHANGED <<given, seen, objects, ids, queued, pass, cloud, next, bad,
                   edits>>

Boot ==
    /\ \E v \in cloud :
         /\ v.kind = "instance" /\ ~v.running
         /\ cloud' = (cloud \ {v}) \cup {[v EXCEPT !.running = TRUE]}
    /\ UNCHANGED <<aside, objects, ids, queued, pass, next, bad, edits>>

-----------------------------------------------------------------------------
(* A pass and the calls that are due in it *)

(* mutant: the key is recorded before the floating IP *)
KeyBeforeAddress == <<"getDefaultProject", "createNetwork", "createKey",
                      "createFloatingIP">>

ClusterCalls == <<"getDefaultProject", "createNetwork", "createFloatingIP",
                  "createKey">>

ClusterDeletes == <<"deleteNetwork", "deleteFloatingIP", "deleteKey">>

MachineCalls == <<"getFlavorByName", "getImageList", "createInstance",
                  "createFloatingGroup", "getInstance">>

MachineDeletes == <<"deleteFloatingGroup", "deleteInstance">>

(* mutant: the machine takes the network of its cluster along *)
DeletesNetworkToo ==
    [cluster |-> [present |-> ClusterCalls, deleting |-> ClusterDeletes],
     machine |-> [present |-> MachineCalls,
                  deleting |-> MachineDeletes \o <<"deleteNetwork">>]]

CallsOf ==
    [cluster |-> [present |-> ClusterCalls, deleting |-> ClusterDeletes],
     machine |-> [present |-> MachineCalls, deleting |-> MachineDeletes]]

Worker == IF calls \in {ClusterCalls, ClusterDeletes} THEN "cluster"
                                                      ELSE "machine"

(* The machine waits for the infrastructure to be ready. *)
Gate == calls = MachineCalls => "cluster" \in ready

Due ==
    [getDefaultProject |-> ids.project = None,
     createNetwork |-> ids.subnet = None,
     createFloatingIP |-> ids.floatingIP = None,
     createKey |-> ids.sshKey = None,
     deleteNetwork |-> ids.subnet # None,
     deleteFloatingIP |-> ids.floatingIP # None,
     deleteKey |-> ids.sshKey # None,
     getFlavorByName |-> ids.flavor = None,
     getImageList |-> ids.image = None,
     createInstance |-> /\ ids.instance = None
                        /\ ids.image # None /\ ids.flavor # None,
     createFloatingGroup |-> /\ controlPlane
                             /\ ids.instance # None /\ ids.route = None,
     getInstance |-> /\ controlPlane => ids.route # None
                     /\ ids.instance # None,
     deleteFloatingGroup |-> controlPlane /\ ids.route # None,
     deleteInstance |-> /\ ids.instance # None
                        /\ controlPlane => ids.route = None]

NothingDue == \A i \in DOMAIN calls : ~Due[calls[i]]

(* A call that is recorded is not due any more, so that the first one that *)
(* is due is the next one.                                                 *)
DueNext(op) ==
    /\ Gate
    /\ \E i \in DOMAIN calls :
         /\ calls[i] = op /\ Due[op]
         /\ \A j \in 1..(i - 1) : ~Due[calls[j]]

EndPass == calls' = <<>> /\ session' = "none" /\ copy' = Nothing

(* The project is only written with the first thing that is created. *)
Persistent == IF calls = ClusterCalls /\ ids.network = None
                THEN [ids EXCEPT !.project = None]
                ELSE ids

(* The informer gets what is recorded, sooner or later, and the machine is *)
(* queued for it.  Without a machine nobody reads it.                      *)
Deliver ==
    /\ life.machine \in {"present", "deleting"}
    /\ seen # [f \in ClusterFields |-> Persistent[f]]
    /\ seen' = [f \in ClusterFields |-> Persistent[f]]
    /\ queued' = queued \cup {"machine"}
    /\ UNCHANGED <<given, secret, objects, ids, pass, cloud, next, bad, edits>>

(* mutant: a panic is recovered from and not retried *)
AbortQuietly == EndPass /\ ids' = Persistent /\ UNCHANGED <<queued, spec>>

(* The pass ends, and there will be another one: what has been recorded is *)
(* an event, and an error or a panic puts the object back to the queue.    *)
EndWith(known) == EndPass /\ ids' = known /\ UNCHANGED spec
                  /\ queued' = queued \cup {Worker}

Abort == EndWith(Persistent)

(* mutant: the pass ends before the id is written *)
RecordNothing(known, s) == Abort

(* The spec is written through the webhook, the status is not; the change  *)
(* is an event for the object.                                             *)
Record(known, s) ==
    /\ ids' = known
    /\ queued' = queued \cup {Worker}
    /\ IF Admits(Worker, spec[Worker], s)
         THEN /\ spec' = [spec EXCEPT ![Worker] = s]
              /\ UNCHANGED pass
         ELSE EndPass /\ UNCHANGED spec

(* A machine's pass reads the WXOneCluster once, and not where it reads    *)
(* that its infrastructure is ready.                                       *)
Start(o) ==
    /\ calls = <<>> /\ o \in queued
    /\ queued' = queued \ {o}
    /\ calls' = IF life[o] = "gone" THEN <<>> ELSE CallsOf[o][life[o]]
    /\ copy' = IF o = "machine" /\ life[o] # "gone" THEN seen ELSE Nothing
    /\ UNCHANGED <<aside, objects, ids, session, cloud, next, bad, edits>>

-----------------------------------------------------------------------------
(* NewWXOneClients: challenge, login, me *)

(* What is missing from the Secret is taken from the manager's own         *)
(* environment, and the mixture logs nobody in.                            *)
LoggedIn == secret = "complete"

(* The query me is made for its error only: an answer without a user is    *)
(* one without an error.                                                   *)
meResponse == {"user", "null", "error"}

(* With an error of me the caller gets neither an error nor a client.      *)
NewWXOneClients ==
    /\ calls # <<>> /\ session = "none"
    /\ \E me \in meResponse :
         /\ IF LoggedIn
              THEN IF me = "user" THEN UNCHANGED bad ELSE Spend
              ELSE me # "user" /\ UNCHANGED bad
         /\ session' = CASE me = "error" -> "nil"
                         [] me = "null" -> "anonymous"
                         [] me = "user" -> "usable"
    /\ UNCHANGED <<aside, objects, ids, queued, calls, copy, cloud, next,
                   edits>>

(* challenge or login cannot be reached, do not answer with JSON, or with  *)
(* a challenge that lacks a field, which panics.                           *)
LoginFails ==
    /\ calls # <<>> /\ session = "none"
    /\ Spend
    /\ Abort
    /\ UNCHANGED <<aside, template, life, ready, cloud, next, edits>>

-----------------------------------------------------------------------------
(* The variables of the requests that are ids *)

CreateInputs ==
    [createNetwork |-> {"project"}, createFloatingIP |-> {"project"},
     createKey |-> {"project"},
     createInstance |-> {"subnet", "flavor", "image", "project", "sshKey"},
     createFloatingGroup |-> {"floatingIP", "project", "instance"}]

DeleteInputs ==
    [deleteFloatingGroup |-> {"project", "floatingIP", "instance"},
     deleteFloatingIP |-> {"floatingIP", "project"},
     deleteInstance |-> {"instance", "project"},
     deleteKey |-> {"sshKey", "project"},
     deleteNetwork |-> {"network", "project"}]

LookupInputs ==
    [getDefaultProject |-> {}, getFlavorByName |-> {},
     getImageList |-> {"project"}, getInstance |-> {"instance", "project"}]

Inputs == {CreateInputs, DeleteInputs, LookupInputs}

Operations == UNION {DOMAIN inputs : inputs \in Inputs}

(* What a pass sends as the id of f: the cluster its own, a machine those  *)
(* of the cluster as it has read them.                                     *)
Sent(f) == IF Worker = "machine" /\ f \in ClusterFields THEN copy[f]
                                                        ELSE ids[f]

(* The reconcilers send empty ids, too, but WX-ONE refuses them.           *)
Complete(op) ==
    \A inputs \in Inputs :
      op \in DOMAIN inputs => \A f \in inputs[op] : Sent(f) # None

Ask(op) == session = "usable" /\ DueNext(op) /\ Complete(op)

Creates == [createNetwork |-> "network", createFloatingIP |-> "floatingIP",
            createKey |-> "sshKey", createInstance |-> "instance",
            createFloatingGroup |-> "route"]

OverQuota(op) ==
    /\ op \in DOMAIN Creates
    /\ Cardinality({r \in cloud : r.kind = Creates[op]}) >= Quota

Bootstrap == UserData(data, controlPlane, copy.floatingIP)

Sendable(op) == op = "createInstance" => Bootstrap.ok

(* MakeRequest returns an error, or there is no client to make it.  WX-ONE *)
(* does not fail if it refuses.                                            *)
CallFails ==
    /\ session # "none"
    /\ \E op \in Operations :
         /\ DueNext(op) /\ Sendable(op)
         /\ IF Ask(op) /\ ~OverQuota(op)
              THEN Spend ELSE UNCHANGED bad
    /\ Abort
    /\ UNCHANGED <<aside, template, life, ready, cloud, next, edits>>

(* The bootstrap data cannot be converted, and the instance is not asked   *)
(* for.                                                                    *)
DataUnusable ==
    /\ session # "none"
    /\ DueNext("createInstance") /\ ~Sendable("createInstance")
    /\ Abort
    /\ UNCHANGED <<aside, template, life, ready, cloud, next, bad, edits>>

(* What can be found where a response type has a pointer to v, or a list   *)
(* of which the first element is taken: it, or nothing.                    *)
Optional(v) == {<<v>>, <<>>}

(* A nil pointer or a list that is too short panics, after the call has    *)
(* had its effect; a caller sees as little if the answer is lost.          *)
Receive(found, whole, known, s) ==
    /\ IF found = whole THEN UNCHANGED bad ELSE Spend
    /\ IF found = <<>> THEN Abort ELSE Record(known, s)

-----------------------------------------------------------------------------
(* The calls for a cluster *)

New(kind) == [kind |-> kind, id |-> next, project |-> Sent("project"),
              subnets |-> 0, image |-> None,
              data |-> Document(FALSE, "none", <<>>, <<>>), running |-> FALSE]

Make(r) == cloud' = cloud \cup {r} /\ next' = next + 1

DefaultProject == 1

getDefaultProjectResponse == Optional(DefaultProject)

(* The name of the project in the spec is not looked at. *)
getDefaultProject ==
    /\ Ask("getDefaultProject")
    /\ \E found \in getDefaultProjectResponse :
         /\ IF found = <<>> THEN Spend /\ Abort
            ELSE /\ ids' = [ids EXCEPT !.project = Head(found)]
                 /\ UNCHANGED <<queued, pass, spec, bad>>
    /\ UNCHANGED <<aside, template, life, ready, cloud, next, edits>>

(* The ids of the subnets that were asked for *)
Subnets(n) == [i \in 1..n |-> next]

createNetworkResponse(n) == {Subnets(n), <<>>}

(* A spec without subnets gets a network without one, every time. *)
createNetwork ==
    /\ Ask("createNetwork") /\ ~OverQuota("createNetwork")
    /\ LET n == spec.cluster.subnets
       IN  /\ Make([New("network") EXCEPT !.subnets = n])
           /\ \E found \in createNetworkResponse(n) :
                Receive(found, Subnets(n),
                        [ids EXCEPT !.network = next, !.subnet = Head(found)],
                        spec.cluster)
    /\ UNCHANGED <<aside, template, life, ready, edits>>

createFloatingIPResponse == Optional(next)

createFloatingIP ==
    /\ Ask("createFloatingIP") /\ ~OverQuota("createFloatingIP")
    /\ Make(New("floatingIP"))
    /\ \E found \in createFloatingIPResponse :
         Receive(found, <<next>>, [ids EXCEPT !.floatingIP = Head(found)],
                 spec.cluster)
    /\ UNCHANGED <<aside, template, life, ready, edits>>

createKeyResponse == Optional(next)

createKey ==
    /\ Ask("createKey") /\ ~OverQuota("createKey")
    /\ Make(New("sshKey"))
    /\ \E found \in createKeyResponse :
         Receive(found, <<next>>, [ids EXCEPT !.sshKey = Head(found)],
                 spec.cluster)
    /\ UNCHANGED <<aside, template, life, ready, edits>>

(* All is there: the endpoint is written over whatever it was, and if the  *)
(* webhook refuses that the cluster is still announced ready.              *)
FinishCluster ==
    /\ calls = ClusterCalls /\ session # "none" /\ NothingDue
    /\ LET new == [spec.cluster EXCEPT !.endpoint = ids.floatingIP]
           admitted == ValidateUpdateCluster(spec.cluster, new)
       IN  /\ spec' = IF admitted THEN [spec EXCEPT !.cluster = new] ELSE spec
           /\ queued' = queued
                \cup (IF new # spec.cluster THEN {"cluster"} ELSE {})
                \cup (IF "cluster" \in ready THEN {}
                      ELSE {o \in Reconciled : life[o] # "wanted"})
    /\ ready' = ready \cup {"cluster"}
    /\ EndPass
    /\ UNCHANGED <<aside, template, life, ids, cloud, next, bad, edits>>

-----------------------------------------------------------------------------
(* The calls for a machine *)

getFlavorByNameResponse == Optional(1)

getFlavorByName ==
    /\ Ask("getFlavorByName")
    /\ \E found \in getFlavorByNameResponse :
         Receive(found, <<1>>, [ids EXCEPT !.flavor = Head(found)],
                 spec.machine)
    /\ UNCHANGED <<aside, template, life, ready, cloud, next, edits>>

(* The whole list, or a null payload; an image has a name or none. *)
getImageListResponse == {catalogue, <<>>}

(* Every image of the name is recorded, until there is one without a name: *)
(* that panics, and the retry goes on with the last one recorded.          *)
getImageList ==
    /\ Ask("getImageList")
    /\ \E list \in getImageListResponse :
         LET named == {i \in DOMAIN list : \A j \in 1..i : list[j] # ""}
             matches == {i \in named : list[i] = spec.machine.image}
         IN  /\ IF list = catalogue THEN UNCHANGED bad ELSE Spend
             /\ \E last \in matches \cup {None} :
                  /\ \A i \in matches : i <= last
                  /\ IF last # None /\ named = DOMAIN list
                       THEN Record([ids EXCEPT !.image = last], spec.machine)
                       ELSE EndWith([ids EXCEPT !.image = last])
    /\ UNCHANGED <<aside, template, life, ready, cloud, next, edits>>

(* No instance, or one of its addresses is null *)
createInstanceResponse == Optional(next)

createInstance ==
    /\ Ask("createInstance") /\ Sendable("createInstance")
    /\ ~OverQuota("createInstance")
    /\ Make([New("instance") EXCEPT !.image = ids.image,
                                    !.data = Bootstrap.doc])
    /\ \E found \in createInstanceResponse :
         Receive(found, <<next>>, [ids EXCEPT !.instance = Head(found)],
                 [spec.machine EXCEPT !.providerID = Head(found)])
    /\ UNCHANGED <<aside, template, life, ready, edits>>

createFloatingGroupResponse == Optional(next)

createFloatingGroup ==
    /\ Ask("createFloatingGroup") /\ ~OverQuota("createFloatingGroup")
    /\ Make(New("route"))
    /\ \E found \in createFloatingGroupResponse :
         Receive(found, <<next>>, [ids EXCEPT !.route = Head(found)],
                 spec.machine)
    /\ UNCHANGED <<aside, template, life, ready, edits>>

getInstanceResponse ==
    Optional(\E v \in cloud : v.id = ids.instance /\ v.running)

(* Not RUNNING yet: the pass ends and is repeated after a while. *)
getInstance ==
    /\ Ask("getInstance")
    /\ \E found \in getInstanceResponse :
         /\ IF found = <<>> THEN Spend ELSE UNCHANGED bad
         /\ IF found = <<TRUE>>
              THEN /\ ready' = ready \cup {"machine"}
                   /\ queued' = queued \cup ({"machine"} \ ready)
              ELSE queued' = queued \cup {"machine"} /\ UNCHANGED ready
    /\ EndPass
    /\ UNCHANGED <<aside, template, spec, life, ids, cloud, next, edits>>

Wait ==
    /\ ~Gate /\ session # "none"
    /\ EndPass
    /\ UNCHANGED <<aside, objects, ids, queued, cloud, next, bad, edits>>

-----------------------------------------------------------------------------
(* The deletions *)

(* Nobody looks into the answer: "inband" is an error inside of it.  After *)
(* the floating group comes the removal of the hook, and the pass ends.    *)
deleteResponse == {"done", "inband", "lost"}

Erase(op, kind, fields) ==
    /\ Ask(op)
    /\ \E found \in deleteResponse :
         /\ IF found = "done" THEN UNCHANGED bad ELSE Spend
         /\ cloud' = IF found = "inband" THEN cloud
                     ELSE {r \in cloud : r.kind # kind \/ r.id # ids[kind]}
         /\ LET known == [f \in Fields |-> IF f \in fields THEN None
                                                           ELSE ids[f]]
            IN  IF found = "lost" THEN Abort
                ELSE IF op = "deleteFloatingGroup" THEN EndWith(known)
                ELSE Record(known, spec[Worker])
    /\ UNCHANGED <<aside, template, life, ready, next, edits>>

deleteNetwork == Erase("deleteNetwork", "network", {"network", "subnet"})

deleteFloatingIP == Erase("deleteFloatingIP", "floatingIP", {"floatingIP"})

deleteKey == Erase("deleteKey", "sshKey", {"sshKey"})

deleteInstance == Erase("deleteInstance", "instance", {"instance"})

deleteFloatingGroup == Erase("deleteFloatingGroup", "route", {"route"})

FinishDelete ==
    /\ calls \in {ClusterDeletes, MachineDeletes} /\ session # "none"
    /\ NothingDue
    /\ life' = [life EXCEPT ![Worker] = "gone"]
    /\ EndPass
    /\ UNCHANGED <<aside, template, spec, ready, ids, queued, cloud, next, bad,
                   edits>>

-----------------------------------------------------------------------------
Pass ==
    \/ \E o \in Reconciled : Start(o)
    \/ NewWXOneClients \/ LoginFails
    \/ CallFails \/ DataUnusable
    \/ getDefaultProject \/ createNetwork \/ createFloatingIP \/ createKey
    \/ FinishCluster
    \/ getFlavorByName \/ getImageList \/ createInstance
    \/ createFloatingGroup \/ getInstance \/ Wait
    \/ deleteNetwork \/ deleteFloatingIP \/ deleteKey
    \/ deleteFloatingGroup \/ deleteInstance \/ FinishDelete

Next ==
    \/ \E o \in Reconciled :
         Create(o) \/ EditTemplate(o) \/ Edit(o) \/ Delete(o)
    \/ CompleteSecret \/ Boot \/ Deliver
    \/ Pass

Spec == Init /\ [][Next]_vars

(* Either worker goes on, Cluster API creates the objects, instances come  *)
(* up, the informer delivers and somebody completes the Secret.  Starts    *)
(* are strongly fair because the two workers do not wait for each other as *)
(* their passes do here.                                                   *)
FairSpec ==
    /\ Spec
    /\ WF_vars(\E o \in Reconciled : Create(o))
    /\ WF_vars(CompleteSecret) /\ WF_vars(Boot) /\ WF_vars(Deliver)
    /\ WF_vars(Pass) /\ \A o \in Reconciled : SF_vars(Start(o))

-----------------------------------------------------------------------------
(* Properties *)

(* Everything keeps its shape; a pass makes the calls of one handler. *)
TypeOK ==
    /\ controlPlane \in BOOLEAN /\ catalogue \in Seq(Images \cup {""})
    /\ data \in Documents /\ secret \in {"complete", "partial"}
    /\ life \in [Reconciled -> {"wanted", "present", "deleting", "gone"}]
    /\ ready \subseteq Reconciled /\ queued \subseteq Reconciled
    /\ template \in Specs /\ spec \in Specs
    /\ ids \in [Fields -> Nat]
    /\ seen \in [ClusterFields -> Nat] /\ copy \in [ClusterFields -> Nat]
    /\ calls \in {<<>>, ClusterCalls, ClusterDeletes, MachineCalls,
                  MachineDeletes}
    /\ session \in {"none", "nil", "anonymous", "usable"}
    /\ cloud \subseteq Resources
    /\ next \in Nat \ {0} /\ \A r \in cloud : r.id \in 1..(next - 1)
    /\ bad \in 0..MaxBad /\ edits \in 0..MaxEdits

(* Everything is created in the project the spec names, although the       *)
(* reconciler never looks at the name: it asks for the default project,    *)
(* and nothing but the webhooks keeps another name out, when the object is *)
(* created and ever after.                                                 *)
InNamedProject ==
    LET named == [default |-> DefaultProject, other |-> 2]
    IN  \A r \in cloud : r.project = named[spec.cluster.project]

(* The network has the subnets and the instance has the image the template *)
(* asks for, whenever each was created and however the template or the     *)
(* objects were edited meanwhile: an image is looked up once, a resource   *)
(* is never changed, and so they only match if the webhooks let no change  *)
(* through.  An image without a name, or several of the same, do not get   *)
(* the wrong one picked.                                                   *)
BuiltToTemplate ==
    \A r \in cloud :
      /\ r.kind = "network" => r.subnets = template.cluster.subnets
      /\ r.kind = "instance" => catalogue[r.image] = template.machine.image

(* The bootstrap data reach an instance unchanged, but for the header; on  *)
(* the control plane the loopback address is added to them once, after     *)
(* what is there, and it is the floating IP the cluster has.               *)
UserDataOnce ==
    \A v \in {r \in cloud : r.kind = "instance"} :
      /\ ~v.data.header
      /\ ~controlPlane => /\ v.data.write_files = data.write_files
                          /\ v.data.runcmd = data.runcmd
      /\ controlPlane =>
           LET old(list) == IF list = NotAList THEN <<>> ELSE list
               files == v.data.write_files
           IN  /\ IsPrefix(old(data.write_files), files)
               /\ IsPrefix(old(data.runcmd), v.data.runcmd)
               /\ \E i \in DOMAIN files :
                    /\ \A j \in DOMAIN files : files[j][2] # None <=> j = i
                    /\ v.id = ids.instance => files[i][2] = ids.floatingIP

(* Nothing checks the ids before they are sent, and a machine's pass may   *)
(* have read its cluster before the project or the key was recorded        *)
(* although it has read that the infrastructure is ready: then the image   *)
(* list or the instance is asked for in vain, in every retry until the     *)
(* informer has caught up.  No other call ever misses an id: the cluster   *)
(* forgets its project with the pass that failed and looks it up again,    *)
(* its ids outlive the machine, and as its key is recorded last and needed *)
(* for an instance, whoever has an instance can route, look up, withdraw   *)
(* and delete it whatever it reads later.                                  *)
MissingIdsOnlyBehind ==
    \A inputs \in Inputs : \A op \in DOMAIN inputs :
      DueNext(op) /\ ~Complete(op) =>
        /\ op \in {"getImageList", "createInstance"}
        /\ \E f \in ClusterFields : copy[f] = None /\ ids[f] # None

(* Each bad answer leaves one thing in WX-ONE that no status records, at   *)
(* most: a retry does not create what is recorded.  Not so for a spec      *)
(* without subnets, for which each retry creates a network.                *)
LeakBounded ==
    template.cluster.subnets > 0 =>
      Cardinality({r \in cloud : ids[r.kind] # r.id}) <= bad

(* Can what is asked for be built? *)
Viable ==
    /\ Quota > MaxBad
    /\ template.cluster.project = "default" /\ template.cluster.subnets > 0
    /\ \E i \in DOMAIN catalogue :
         /\ catalogue[i] = template.machine.image
         /\ \A j \in 1..i : catalogue[j] # ""
    /\ UserData(data, controlPlane, None).ok

(* Then it is built, and the endpoint comes to be the floating IP for good *)
(* although somebody wrote another one to the template or to the           *)
(* WXOneCluster, at any time; unless one of the objects is deleted.        *)
(* Bad answers, a client that is none and a Secret that is completed later *)
(* only delay it.                                                          *)
Provisioned ==
    Viable =>
      <>[](\/ ready = Reconciled /\ spec.cluster.endpoint = ids.floatingIP
           \/ \E o \in Reconciled : life[o] \in {"deleting", "gone"})

(* A deletion comes to its end, also of a cluster or a machine that could  *)
(* never be built: it is never stuck, and only the end leads out of it.    *)
DeletionCompletes ==
    (\E o \in Reconciled : life[o] = "deleting")
      ~> \A o \in Reconciled : life[o] # "deleting"
=============================================================================
