------------------------------- MODULE System -------------------------------
(***************************************************************************)
(* The two reconcilers together: one WXOneCluster, and one machine that is *)
(* built on its network, its floating IP and its SSH key.                  *)
(*                                                                         *)
(* A pass for the machine reads the WXOneCluster from the informer cache   *)
(* both controllers share; the machine waits for Cluster API to announce   *)
(* the infrastructure ready, which it does when it has seen the            *)
(* WXOneCluster ready; and Cluster API deletes the WXOneCluster of a       *)
(* Cluster that is deleted after all Machines have gone.  The two workers, *)
(* the informers and Cluster API run in any order.                         *)
(*                                                                         *)
(* There is no resync here: what wakes a machine up is a watch or a retry. *)
(***************************************************************************)
EXTENDS Naturals, FiniteSets

CONSTANTS
    ControlPlanes,  \* as in MachineController
    Deletions,      \* as in MachineController
    Disturbances, MaxDisturb, MissingIsError  \* as in both

VARIABLES
    applied,     \* the user has created the WXOneCluster
    known,       \* what the pass has read of the WXOneCluster
    (* ClusterController *)
    cluster, ccached, cqueued, cpc, cstep, cobj, cbefore, cclient, cfailed,
    resources,
    (* MachineController *)
    controlPlane, infra, leaving, api, cached, machine, mcached, queued, pc,
    step, obj, before, mcopy, seen, client, failed, vms, running, routes,
    (* one WX-ONE, one process *)
    next, budget

C == INSTANCE ClusterController WITH
       api <- cluster, cached <- ccached, queued <- cqueued, pc <- cpc,
       step <- cstep, obj <- cobj, before <- cbefore, client <- cclient,
       failed <- cfailed, cloud <- resources

M == INSTANCE MachineController

ASSUME ConstantsAssumption ==
    /\ C!ConstantsAssumption
    /\ M!ConstantsAssumption

cvars == <<cluster, ccached, cqueued, cpc, cstep, cobj, cbefore, cclient,
           cfailed, resources>>
env == <<controlPlane, infra, leaving>>
objects == <<api, cached, machine, mcached>>
pass == <<pc, step, obj, before, mcopy, seen, client, failed>>
instances == <<vms, running, routes>>
mvars == <<env, objects, queued, pass, instances, known>>
vars == <<applied, cvars, mvars, next, budget>>

(* What the calls for a machine take from the WXOneCluster, by id *)
Args == C!Kinds \cup {"project"}

None == C!None

Nothing == [a \in Args |-> None]

Init == /\ C!Init /\ M!Init
        /\ applied = FALSE
        /\ known = Nothing

-----------------------------------------------------------------------------
(* The user, Cluster API and the informers *)

Apply == /\ ~applied /\ ~leaving
         /\ applied' = TRUE
         /\ UNCHANGED <<cvars, mvars, next, budget>>

(* The Cluster controller waits for all Machines to go. *)
DeleteCluster ==
    /\ applied /\ leaving /\ ~machine.exists
    /\ C!RequestDelete
    /\ UNCHANGED <<applied, mvars>>

(* A WXOneCluster that has changed makes requests named after the Machines *)
(* of its Cluster, which may be the names of the WXOneMachines, or not.    *)
Requested ==
    \/ UNCHANGED queued
    \/ mcached.exists /\ (ccached.owned \/ cluster.owned) /\ queued' = TRUE

DeliverCluster ==
    /\ applied
    /\ C!Deliver
    /\ Requested
    /\ UNCHANGED <<applied, env, objects, pass, instances,
                   known>>

(* Cluster API has seen the WXOneCluster ready. *)
InfraReady ==
    /\ applied /\ cluster.ready
    /\ M!InfraReady
    /\ UNCHANGED <<applied, cvars, known, next>>

(* Around the machine all goes on as in MachineController, but that nobody *)
(* deletes the WXOneMachine itself.                                        *)
Alone(A) == A /\ UNCHANGED <<applied, cvars, known>>

MachineEnvironment ==
    \/ Alone(M!SetOwner) \/ Alone(M!SetBootstrap) \/ Alone(M!NodeJoins)
    \/ Alone(M!Drain) \/ Alone(M!DeleteInfra) \/ Alone(M!RemoveMachine)
    \/ Alone(M!DeleteMachine) \/ Alone(M!Deliver) \/ Alone(M!Boot)

Crash ==
    /\ C!Crash
    /\ M!Crash
    /\ known' = Nothing
    /\ UNCHANGED applied

-----------------------------------------------------------------------------
(* The worker of the WXOneCluster controller *)

ClusterWorker ==
    /\ applied
    /\ C!Start \/ C!PassStep
    /\ UNCHANGED <<applied, mvars>>

ClusterOwner ==
    /\ applied
    /\ C!SetOwner
    /\ UNCHANGED <<applied, mvars>>

-----------------------------------------------------------------------------
(* The worker of the WXOneMachine controller *)

Readable == applied /\ ccached.exists

(* mutant: the network is taken for the floating IP *)
KnownSwapped ==
    [a \in Args |-> IF a = "floatingIP" THEN ccached.ids.network
                    ELSE IF a # "project" THEN ccached.ids[a]
                    ELSE IF ccached.project THEN 1 ELSE None]

Known == [a \in Args |-> IF a # "project" THEN ccached.ids[a]
                         ELSE IF ccached.project THEN 1 ELSE None]

StartMachine ==
    /\ Readable \/ ~cached.exists \/ ~cached.owned
    /\ M!Start
    /\ known' = IF pc' = "idle" THEN Nothing ELSE Known
    /\ UNCHANGED <<applied, cvars, next>>

(* Without the WXOneCluster the pass ends, no error, no retry. *)
StartWithoutCluster ==
    /\ ~Readable /\ cached.exists /\ cached.owned
    /\ pc = "idle" /\ queued
    /\ queued' = FALSE
    /\ UNCHANGED <<applied, cvars, env, objects, pass, instances,
                   known, next, budget>>

(* The ids the call of a section needs: they are of type UUID!, and so     *)
(* WX-ONE refuses the empty string, which the client sends like any other. *)
Needed == [flavor |-> {}, image |-> {"project"},
           instance |-> {"network", "sshKey", "project"},
           route |-> {"floatingIP", "project"},
           running |-> {"project"},
           withdraw |-> {"floatingIP", "project"},
           destroy |-> {"project"}]

Refused == /\ M!CallDue /\ client
           /\ \E a \in Needed[pc] : known[a] = None

MachineWorker ==
    /\ ~Refused
    /\ M!PassStep
    /\ known' = IF pc' = "idle" THEN Nothing ELSE known
    /\ UNCHANGED <<applied, cvars>>

(* Without the hook an error of the withdrawal is only logged. *)
CallRefused ==
    /\ Refused
    /\ IF pc = "withdraw" /\ ~mcopy.hook
         THEN M!Answered([obj EXCEPT !.attached = FALSE]) /\ UNCHANGED known
         ELSE /\ M!Abort /\ known' = Nothing
              /\ UNCHANGED <<env, objects>>
    /\ UNCHANGED <<applied, cvars, instances, next, budget>>

-----------------------------------------------------------------------------
Next == \/ Apply \/ DeleteCluster \/ DeliverCluster \/ InfraReady
        \/ MachineEnvironment \/ Crash
        \/ ClusterWorker \/ ClusterOwner
        \/ StartMachine \/ StartWithoutCluster \/ MachineWorker \/ CallRefused

Spec == Init /\ [][Next]_vars

(* Both workers and the informers go on, the user creates the WXOneCluster *)
(* and Cluster API does its part.                                          *)
Fairness ==
    /\ WF_vars(Apply) /\ WF_vars(ClusterOwner) /\ WF_vars(DeliverCluster)
    /\ WF_vars(ClusterWorker) /\ WF_vars(DeleteCluster)
    /\ WF_vars(InfraReady)
    /\ WF_vars(Alone(M!SetOwner)) /\ WF_vars(Alone(M!SetBootstrap))
    /\ WF_vars(Alone(M!DeleteInfra)) /\ WF_vars(Alone(M!RemoveMachine))
    /\ WF_vars(Alone(M!Deliver)) /\ WF_vars(Alone(M!Boot))
    /\ WF_vars(StartMachine \/ StartWithoutCluster)
    /\ WF_vars(MachineWorker \/ CallRefused)

FairSpec == Spec /\ Fairness

-----------------------------------------------------------------------------
(* Properties *)

(* Both components keep their shape, and a pass for the machine keeps a    *)
(* copy of the ids it has read.                                            *)
TypeOK == /\ C!TypeOK /\ M!TypeOK
          /\ applied \in BOOLEAN
          /\ known \in [Args -> Nat]

Spent == MaxDisturb - budget.left

(* What the machine stands on does not go before the machine: when the     *)
(* network is deleted no instance is left, when the floating IP is deleted *)
(* no traffic is routed, but for one leftover of each crash or bad answer. *)
ClusterOutlivesMachine ==
    [][/\ \/ resources.network \subseteq resources'.network
          \/ Cardinality(vms) <= Spent
       /\ \/ resources.floatingIP \subseteq resources'.floatingIP
          \/ Cardinality(routes) <= Spent]_vars

(* An instance is only created with the ids of a network, a key and (in    *)
(* its user data) a floating IP that exist, although the WXOneCluster may  *)
(* be read from an informer that is behind the one of the Cluster, which   *)
(* has the infrastructure ready: the key is created last, and WX-ONE       *)
(* refuses a call without it.                                              *)
BuiltOnCluster ==
    [][vms' \subseteq vms
         \/ \A k \in C!Kinds : known[k] \in resources[k]]_vars

(* Traffic is routed, and withdrawn again, for a floating IP that exists   *)
(* and that is the control plane endpoint, if the cluster has one yet: the *)
(* infrastructure may be announced ready before it has, when only the      *)
(* second of the two requests of a patch has gone through.                 *)
RoutedToEndpoint ==
    [][routes' # routes =>
         /\ known["floatingIP"] \in resources.floatingIP
         /\ cluster.endpoint \in {None, known["floatingIP"]}]_vars

(* The watches and the retries suffice to get the cluster and the machine  *)
(* ready, whatever order the WXOneCluster, the Machine and the events come *)
(* in: also if a pass found no WXOneCluster and was not retried, and if    *)
(* the WXOneMachine is not named after its Machine.                        *)
GetsReady == <>((cluster.ready /\ api.ready) \/ leaving)

(* A Cluster that is deleted goes away with everything it has in WX-ONE.   *)
AllGone ==
    leaving ~> ~api.exists /\ (applied => ~cluster.exists)
                 /\ vms = {} /\ routes = {}
                 /\ \A k \in C!Kinds : resources[k] = {}
=============================================================================
