---------------------------- MODULE System_proofs ----------------------------
(***************************************************************************)
(* Theorems about System, from what is proved about its two components.    *)
(***************************************************************************)
EXTENDS System, Integers, TLAPS

CP == INSTANCE ClusterController_proofs WITH
        api <- cluster, cached <- ccached, queued <- cqueued, pc <- cpc,
        step <- cstep, obj <- cobj, before <- cbefore, client <- cclient,
        failed <- cfailed, cloud <- resources

MP == INSTANCE MachineController_proofs

-----------------------------------------------------------------------------
(* The components as System has them are those the lemmas are about.       *)

(* The constants suit both.                                                *)
LEMMA Constants == CP!ConstantsAssumption /\ MP!ConstantsAssumption
  BY ConstantsAssumption
     DEF C!ConstantsAssumption, M!ConstantsAssumption,
         CP!ConstantsAssumption, MP!ConstantsAssumption,
         C!AllDisturbances, M!AllDisturbances, M!AllDeletions,
         CP!AllDisturbances, MP!AllDisturbances, MP!AllDeletions

(* What a WXOneCluster looks like                                          *)
LEMMA SameObjects ==
    /\ C!Kinds = CP!Kinds /\ C!None = CP!None /\ C!NoIds = CP!NoIds
    /\ C!NewObject = CP!NewObject /\ C!Gone = CP!Gone
    /\ C!Objects = CP!Objects /\ C!Budgets = CP!Budgets
    /\ C!Phases = CP!Phases /\ C!After = CP!After
  BY DEF C!Kinds, CP!Kinds, C!None, CP!None, C!NoIds, CP!NoIds, C!NewObject,
         CP!NewObject, C!Gone, CP!Gone, C!Objects, CP!Objects, C!Budgets,
         CP!Budgets, C!Phases, CP!Phases, C!After, CP!After

(* and what a WXOneMachine and a Machine look like                         *)
LEMMA SameMachines ==
    /\ M!NewObject = MP!NewObject /\ M!Gone = MP!Gone
    /\ M!NewMachine = MP!NewMachine /\ M!GoneMachine = MP!GoneMachine
    /\ M!Objects = MP!Objects /\ M!Machines = MP!Machines
    /\ M!Budgets = MP!Budgets /\ M!Phases = MP!Phases /\ M!After = MP!After
    /\ M!None = MP!None
  BY DEF M!None, MP!None, M!NewObject, MP!NewObject, M!Gone, MP!Gone,
         M!Objects, MP!Objects, M!Budgets, MP!Budgets, M!NewMachine,
         MP!NewMachine, M!GoneMachine, MP!GoneMachine, M!Machines,
         MP!Machines, M!Phases, MP!Phases, M!After, MP!After

(* The initial states and the types                                        *)
LEMMA SameTypes ==
    /\ C!Init <=> CP!Init
    /\ M!Init <=> MP!Init
    /\ C!TypeOK <=> CP!TypeOK
    /\ M!TypeOK <=> MP!TypeOK
<1>1. C!Init <=> CP!Init
  BY SameObjects DEF C!Init, CP!Init
<1>2. M!Init <=> MP!Init
  BY SameMachines DEF M!Init, MP!Init
<1>3. C!TypeOK <=> CP!TypeOK
  BY SameObjects DEF C!TypeOK, CP!TypeOK
<1>4. M!TypeOK <=> MP!TypeOK
  BY SameMachines DEF M!TypeOK, MP!TypeOK
<1> QED
  BY <1>1, <1>2, <1>3, <1>4

(* What happens to the WXOneCluster from outside, and when a pass begins   *)
LEMMA SameOutside ==
    /\ C!SetOwner <=> CP!SetOwner
    /\ C!RequestDelete <=> CP!RequestDelete
    /\ C!Deliver <=> CP!Deliver
    /\ C!Crash <=> CP!Crash
    /\ C!Start <=> CP!Start
<1> USE DEF C!pass, CP!pass, C!Gone, CP!Gone, C!NewObject, CP!NewObject,
            C!NoIds, CP!NoIds, C!None, CP!None, C!Kinds, CP!Kinds, C!EndPass,
            CP!EndPass, C!Abort, CP!Abort, C!Spend, CP!Spend
<1>1. C!SetOwner <=> CP!SetOwner
  BY DEF C!SetOwner, CP!SetOwner
<1>2. C!RequestDelete <=> CP!RequestDelete
  BY DEF C!RequestDelete, CP!RequestDelete
<1>3. C!Deliver <=> CP!Deliver
  BY DEF C!Deliver, CP!Deliver
<1>4. C!Crash <=> CP!Crash
  BY DEF C!Crash, CP!Crash
<1>5. C!Start <=> CP!Start
  BY DEF C!Start, CP!Start, C!FirstSection, CP!FirstSection
<1> QED
  BY <1>1, <1>2, <1>3, <1>4, <1>5

(* The steps of its pass                                                   *)
LEMMA SamePass == C!PassStep <=> CP!PassStep
  BY DEF C!PassStep, CP!PassStep, C!Gone, CP!Gone, C!NewObject, CP!NewObject,
         C!NoIds, CP!NoIds, C!None, CP!None, C!Kinds, CP!Kinds, C!EndPass,
         CP!EndPass, C!Abort, CP!Abort, C!Spend, CP!Spend, C!CallDue,
         CP!CallDue, C!After, CP!After, C!Recorded, CP!Recorded, C!GetClient,
         CP!GetClient, C!GetClientFails, CP!GetClientFails, C!SkipSection,
         CP!SkipSection, C!GetProject, CP!GetProject, C!Create, CP!Create,
         C!CreateLost, CP!CreateLost, C!Delete, CP!Delete, C!DeleteLost,
         CP!DeleteLost, C!CallFails, CP!CallFails, C!Finish, CP!Finish,
         C!PatchMain, CP!PatchMain, C!PatchStatus, CP!PatchStatus,
         C!PatchStatusFails, CP!PatchStatusFails, C!MergeMain, CP!MergeMain,
         C!MergeStatus, CP!MergeStatus, C!Merged, CP!Merged, C!MainDiffers,
         CP!MainDiffers, C!StatusDiffers, CP!StatusDiffers

(* What happens to a machine from outside, and when a pass begins          *)
LEMMA SameAround ==
    /\ M!SetOwner <=> MP!SetOwner
    /\ M!InfraReady <=> MP!InfraReady
    /\ M!SetBootstrap <=> MP!SetBootstrap
    /\ M!NodeJoins <=> MP!NodeJoins
    /\ M!Drain <=> MP!Drain
    /\ M!DeleteInfra <=> MP!DeleteInfra
    /\ M!RemoveMachine <=> MP!RemoveMachine
    /\ M!DeleteMachine <=> MP!DeleteMachine
    /\ M!Deliver <=> MP!Deliver
    /\ M!Boot <=> MP!Boot
    /\ M!Crash <=> MP!Crash
    /\ M!Start <=> MP!Start
<1> USE DEF M!pass, MP!pass, M!env, MP!env, M!cloud, MP!cloud, M!Gone, MP!Gone,
            M!NewObject, MP!NewObject, M!GoneMachine, MP!GoneMachine,
            M!NewMachine, MP!NewMachine, M!None, MP!None, M!EndPass,
            MP!EndPass, M!Abort, MP!Abort, M!Spend, MP!Spend, M!ChangeMachine,
            MP!ChangeMachine, M!Marked, MP!Marked, M!Fresh, MP!Fresh,
            M!FirstSection, MP!FirstSection
<1>1. M!SetOwner <=> MP!SetOwner
  BY DEF M!SetOwner, MP!SetOwner
<1>2. M!InfraReady <=> MP!InfraReady
  BY DEF M!InfraReady, MP!InfraReady
<1>3. M!SetBootstrap <=> MP!SetBootstrap
  BY DEF M!SetBootstrap, MP!SetBootstrap
<1>4. M!NodeJoins <=> MP!NodeJoins
  BY DEF M!NodeJoins, MP!NodeJoins
<1>5. M!Drain <=> MP!Drain
  BY DEF M!Drain, MP!Drain
<1>6. M!DeleteInfra <=> MP!DeleteInfra
  BY DEF M!DeleteInfra, MP!DeleteInfra
<1>7. M!RemoveMachine <=> MP!RemoveMachine
  BY DEF M!RemoveMachine, MP!RemoveMachine
<1>8. M!DeleteMachine <=> MP!DeleteMachine
  BY DEF M!DeleteMachine, MP!DeleteMachine
<1>9. M!Deliver <=> MP!Deliver
  BY DEF M!Deliver, MP!Deliver
<1>10. M!Boot <=> MP!Boot
  BY DEF M!Boot, MP!Boot
<1>11. M!Crash <=> MP!Crash
  BY DEF M!Crash, MP!Crash
<1>12. M!Start <=> MP!Start
  BY DEF M!Start, MP!Start
<1> QED
  BY <1>1, <1>2, <1>3, <1>4, <1>5, <1>6, <1>7, <1>8, <1>9, <1>10, <1>11, <1>12

(* The steps of its pass                                                   *)
LEMMA SameSections ==
    /\ M!AddHook <=> MP!AddHook
    /\ M!RemoveHook <=> MP!RemoveHook
    /\ M!UpdateFails <=> MP!UpdateFails
    /\ M!GetClient <=> MP!GetClient
    /\ M!GetClientFails <=> MP!GetClientFails
    /\ M!PassGate <=> MP!PassGate
    /\ M!StopAtGate <=> MP!StopAtGate
    /\ M!GetOwnerMachine <=> MP!GetOwnerMachine
    /\ M!GetOwnerMachineFails <=> MP!GetOwnerMachineFails
    /\ M!SkipSection <=> MP!SkipSection
    /\ M!LookUp <=> MP!LookUp
    /\ M!CallFails <=> MP!CallFails
    /\ M!CreateInstance <=> MP!CreateInstance
    /\ M!Attach <=> MP!Attach
    /\ M!CheckRunning <=> MP!CheckRunning
    /\ M!Withdraw <=> MP!Withdraw
    /\ M!Destroy <=> MP!Destroy
    /\ M!Finish <=> MP!Finish
    /\ M!PatchMain <=> MP!PatchMain
    /\ M!PatchStatus <=> MP!PatchStatus
    /\ M!PatchStatusFails <=> MP!PatchStatusFails
<1> USE DEF M!pass, MP!pass, M!env, MP!env, M!cloud, MP!cloud, M!Gone, MP!Gone,
            M!NewObject, MP!NewObject, M!GoneMachine, MP!GoneMachine,
            M!NewMachine, MP!NewMachine, M!None, MP!None, M!EndPass,
            MP!EndPass, M!Abort, MP!Abort, M!Spend, MP!Spend, M!UpdateHook,
            MP!UpdateHook, M!After, MP!After, M!Following, MP!Following,
            M!CallDue, MP!CallDue, M!Answered, MP!Answered, M!AnswerLost,
            MP!AnswerLost, M!Missing, MP!Missing, M!Launched, MP!Launched,
            M!Merged, MP!Merged, M!MergeMain, MP!MergeMain, M!MergeStatus,
            MP!MergeStatus, M!MainDiffers, MP!MainDiffers, M!StatusDiffers,
            MP!StatusDiffers
<1>1. M!AddHook <=> MP!AddHook
  BY DEF M!AddHook, MP!AddHook
<1>2. M!RemoveHook <=> MP!RemoveHook
  BY DEF M!RemoveHook, MP!RemoveHook
<1>3. M!UpdateFails <=> MP!UpdateFails
  BY DEF M!UpdateFails, MP!UpdateFails
<1>4. M!GetClient <=> MP!GetClient
  BY DEF M!GetClient, MP!GetClient
<1>5. M!GetClientFails <=> MP!GetClientFails
  BY DEF M!GetClientFails, MP!GetClientFails
<1>6. M!PassGate <=> MP!PassGate
  BY DEF M!PassGate, MP!PassGate
<1>7. M!StopAtGate <=> MP!StopAtGate
  BY DEF M!StopAtGate, MP!StopAtGate
<1>8. M!GetOwnerMachine <=> MP!GetOwnerMachine
  BY DEF M!GetOwnerMachine, MP!GetOwnerMachine
<1>9. M!GetOwnerMachineFails <=> MP!GetOwnerMachineFails
  BY DEF M!GetOwnerMachineFails, MP!GetOwnerMachineFails
<1>10. M!SkipSection <=> MP!SkipSection
  BY DEF M!SkipSection, MP!SkipSection
<1>11. M!LookUp <=> MP!LookUp
  BY DEF M!LookUp, MP!LookUp
<1>12. M!CallFails <=> MP!CallFails
  BY DEF M!CallFails, MP!CallFails
<1>13. M!CreateInstance <=> MP!CreateInstance
  BY DEF M!CreateInstance, MP!CreateInstance
<1>14. M!Attach <=> MP!Attach
  BY DEF M!Attach, MP!Attach
<1>15. M!CheckRunning <=> MP!CheckRunning
  BY DEF M!CheckRunning, MP!CheckRunning
<1>16. M!Withdraw <=> MP!Withdraw
  BY DEF M!Withdraw, MP!Withdraw
<1>17. M!Destroy <=> MP!Destroy
  BY DEF M!Destroy, MP!Destroy
<1>18. M!Finish <=> MP!Finish
  BY DEF M!Finish, MP!Finish
<1>19. M!PatchMain <=> MP!PatchMain
  BY DEF M!PatchMain, MP!PatchMain
<1>20. M!PatchStatus <=> MP!PatchStatus
  BY DEF M!PatchStatus, MP!PatchStatus
<1>21. M!PatchStatusFails <=> MP!PatchStatusFails
  BY DEF M!PatchStatusFails, MP!PatchStatusFails
<1> QED
  BY <1>1, <1>2, <1>3, <1>4, <1>5, <1>6, <1>7, <1>8, <1>9, <1>10, <1>11,
     <1>12, <1>13, <1>14, <1>15, <1>16, <1>17, <1>18, <1>19, <1>20, <1>21

(* Together they are its pass.                                             *)
LEMMA SameMachinePass == M!PassStep <=> MP!PassStep
  BY SameSections DEF M!PassStep, MP!PassStep

(* What System uses of them besides                                        *)
LEMMA SameParts ==
    /\ M!CallDue <=> MP!CallDue
    /\ M!Abort <=> MP!Abort
    /\ M!Answered([obj EXCEPT !.attached = FALSE])
         <=> MP!Answered([obj EXCEPT !.attached = FALSE])
<1>1. M!CallDue <=> MP!CallDue
  BY DEF M!CallDue, MP!CallDue, M!None, MP!None
<1>2. M!Abort <=> MP!Abort
  BY DEF M!Abort, MP!Abort, M!EndPass, MP!EndPass, M!Gone, MP!Gone,
         M!NewObject, MP!NewObject, M!GoneMachine, MP!GoneMachine,
         M!NewMachine, MP!NewMachine, M!None, MP!None
<1>3. M!Answered([obj EXCEPT !.attached = FALSE])
        <=> MP!Answered([obj EXCEPT !.attached = FALSE])
  BY DEF M!Answered, MP!Answered, M!env, MP!env
<1> QED
  BY <1>1, <1>2, <1>3

-----------------------------------------------------------------------------
(* Who takes a step                                                        *)

ClusterStep == DeleteCluster \/ DeliverCluster \/ ClusterWorker \/ ClusterOwner

MachineStep == InfraReady \/ MachineEnvironment \/ StartMachine \/ MachineWorker

(* What is left: the user, a pass that finds no WXOneCluster, and nothing. *)
NoStep == /\ UNCHANGED <<cvars, env, objects, pass, instances, known, next,
                         budget>>
          /\ queued' \in {queued, FALSE}
          /\ applied' \in {applied, TRUE}

(* A step of the system is one of these.                                   *)
LEMMA Steps ==
    ASSUME [Next]_vars
    PROVE  ClusterStep \/ MachineStep \/ NoStep \/ Crash \/ CallRefused
<1>1. CASE Apply \/ StartWithoutCluster \/ UNCHANGED vars
  BY <1>1 DEF Apply, StartWithoutCluster, NoStep, vars, mvars
<1> QED
  BY <1>1 DEF Next, ClusterStep, MachineStep

(* A step of the WXOneCluster leaves the machine alone, but may wake it.   *)
LEMMA ClusterSteps ==
    ASSUME ClusterStep
    PROVE  /\ CP!Next
           /\ UNCHANGED <<applied, env, objects, pass, instances, known>>
           /\ queued' \in {queued, TRUE}
  BY SameOutside, SamePass
     DEF ClusterStep, DeleteCluster, DeliverCluster, ClusterWorker,
         ClusterOwner, Requested, mvars, CP!Next, CP!Environment

(* A step of the machine leaves the WXOneCluster alone; the pass reads it  *)
(* from the informer, or has read it before.                               *)
LEMMA MachineSteps ==
    ASSUME MachineStep
    PROVE  /\ MP!Next
           /\ UNCHANGED <<applied, cvars>>
           /\ known' \in {known, Nothing, Known}
<1>1. CASE InfraReady \/ MachineEnvironment
  BY <1>1, SameAround
     DEF InfraReady, MachineEnvironment, Alone, MP!Next, MP!Environment,
         MP!ClusterAPI
<1>2. CASE StartMachine
  BY <1>2, SameAround DEF StartMachine, MP!Next
<1>3. CASE MachineWorker
  BY <1>3, SameMachinePass DEF MachineWorker, MP!Next
<1> QED
  BY <1>1, <1>2, <1>3 DEF MachineStep

(* A crash ends the passes of both.                                        *)
LEMMA Crashes ==
    ASSUME Crash
    PROVE  /\ CP!Next /\ MP!Next /\ known' = Nothing
           /\ UNCHANGED <<applied, cluster, machine, api, resources, vms,
                          routes, next>>
           /\ cpc' = "idle" /\ pc' = "idle" /\ ccached' = cluster
  BY SameOutside, SameAround
     DEF Crash, CP!Next, MP!Next, CP!Environment, MP!Environment, CP!Crash,
         MP!Crash, CP!Abort, MP!Abort, CP!EndPass, MP!EndPass, MP!cloud

(* A call that WX-ONE refuses for an empty id ends the pass, or what was   *)
(* to be withdrawn counts as withdrawn.                                    *)
LEMMA Refusals ==
    ASSUME CallRefused
    PROVE  /\ UNCHANGED <<applied, cvars, instances, next, budget, env,
                          objects>>
           /\ MP!CallDue
           /\ \/ MP!Abort /\ known' = Nothing
              \/ /\ pc = "withdraw" /\ ~mcopy.hook /\ known' = known
                 /\ MP!Answered([obj EXCEPT !.attached = FALSE])
  BY SameParts
     DEF CallRefused, Refused, MP!Answered, MP!env, env, objects

-----------------------------------------------------------------------------
(* Types                                                                   *)

Shapes == /\ CP!TypeOK /\ CP!Sections
          /\ MP!TypeOK /\ MP!Sections
          /\ applied \in BOOLEAN
          /\ known \in [Args -> Nat]

(* What is read of a WXOneCluster are ids.                                 *)
LEMMA KnownType ==
    /\ Nothing \in [Args -> Nat]
    /\ CP!TypeOK => Known \in [Args -> Nat]
  BY SameObjects
     DEF Nothing, Known, Args, None, CP!None, CP!TypeOK, CP!Objects

(* The WXOneCluster keeps its shape in the steps of others,                *)
LEMMA ClusterShape ==
    ASSUME CP!TypeOK, CP!Sections, UNCHANGED cvars, next' \in Nat,
           budget' \in CP!Budgets
    PROVE  CP!TypeOK' /\ CP!Sections'
  BY DEF CP!TypeOK, CP!Sections, cvars

(* and so does the machine.                                                *)
LEMMA MachineShape ==
    ASSUME MP!TypeOK, MP!Sections,
           UNCHANGED <<env, objects, pass, instances>>, queued' \in BOOLEAN,
           next' \in Nat, budget' \in MP!Budgets
    PROVE  MP!TypeOK' /\ MP!Sections'
  BY DEF MP!TypeOK, MP!Sections, env, objects, pass, instances

(* In the beginning everything has its shape.                              *)
LEMMA ShapesInit == Init => Shapes
<1> SUFFICES ASSUME Init PROVE Shapes
  OBVIOUS
<1>1. CP!TypeOK /\ CP!Sections
  BY Constants, SameTypes, CP!TypeInit DEF Init
<1>2. MP!TypeOK /\ MP!Sections
  BY Constants, SameTypes, MP!TypeInit DEF Init
<1> QED
  BY <1>1, <1>2, KnownType DEF Init, Shapes

(* Every step leaves it so.                                                *)
LEMMA ShapesStep == Shapes /\ [Next]_vars => Shapes'
<1> SUFFICES ASSUME Shapes, [Next]_vars PROVE Shapes'
  OBVIOUS
<1>1. ASSUME CP!Next PROVE CP!TypeOK' /\ CP!Sections'
  BY <1>1, Constants, CP!TypeStep DEF Shapes
<1>2. ASSUME MP!Next PROVE MP!TypeOK' /\ MP!Sections'
  BY <1>2, Constants, MP!TypeStep DEF Shapes
<1>3. CASE ClusterStep
  <2>1. CP!TypeOK' /\ CP!Sections'
    BY <1>1, <1>3, ClusterSteps
  <2>2. next' \in Nat /\ budget' \in MP!Budgets
    BY <2>1 DEF CP!TypeOK, CP!Budgets, MP!Budgets
  <2>3. queued' \in BOOLEAN
    BY <1>3, ClusterSteps DEF Shapes, MP!TypeOK
  <2> QED
    BY <1>3, <2>1, <2>2, <2>3, ClusterSteps, MachineShape DEF Shapes
<1>4. CASE MachineStep
  <2>1. MP!TypeOK' /\ MP!Sections'
    BY <1>2, <1>4, MachineSteps
  <2>2. next' \in Nat /\ budget' \in CP!Budgets
    BY <2>1 DEF MP!TypeOK, CP!Budgets, MP!Budgets
  <2> QED
    BY <1>4, <2>1, <2>2, MachineSteps, ClusterShape, KnownType DEF Shapes
<1>5. CASE NoStep
  <2>1. /\ next' \in Nat /\ budget' \in CP!Budgets /\ budget' \in MP!Budgets
        /\ queued' \in BOOLEAN /\ applied' \in BOOLEAN
        /\ known' \in [Args -> Nat]
    BY <1>5 DEF NoStep, Shapes, CP!TypeOK, MP!TypeOK
  <2> QED
    BY <1>5, <2>1, ClusterShape, MachineShape DEF NoStep, Shapes
<1>6. CASE Crash
  BY <1>1, <1>2, <1>6, Crashes, KnownType DEF Shapes
<1>7. CASE CallRefused
  <2>1. /\ next' \in Nat /\ budget' \in CP!Budgets
        /\ known' \in [Args -> Nat]
    BY <1>7, Refusals, KnownType DEF Shapes, CP!TypeOK
  <2>2. CP!TypeOK' /\ CP!Sections'
    BY <1>7, <2>1, Refusals, ClusterShape DEF Shapes
  <2>3. MP!TypeOK' /\ MP!Sections'
    <3>1. CASE MP!Abort
      <4>1. /\ api' \in MP!Objects /\ cached' \in MP!Objects
            /\ machine' \in MP!Machines /\ mcached' \in MP!Machines
            /\ vms' \in SUBSET Nat /\ running' \in SUBSET vms'
            /\ routes' \in SUBSET Nat /\ next' \in Nat
            /\ budget' \in MP!Budgets
        BY <1>7, Refusals DEF Shapes, objects, instances, MP!TypeOK
      <4>2. UNCHANGED MP!env /\ MP!EndPass /\ queued' \in BOOLEAN
        BY <1>7, <3>1, Refusals DEF MP!Abort, MP!env, env
      <4> QED
        BY <4>1, <4>2, MP!EndPassType, Constants DEF Shapes
    <3>2. CASE /\ pc = "withdraw"
               /\ MP!Answered([obj EXCEPT !.attached = FALSE])
      <4>1. [obj EXCEPT !.attached = FALSE] \in MP!Objects
        BY DEF Shapes, MP!TypeOK, MP!Objects
      <4> QED
        BY <1>7, <3>2, <4>1, Refusals, MP!AnsweredType, Constants
           DEF Shapes, instances, MP!TypeOK, MP!Patching
    <3> QED
      BY <1>7, <3>1, <3>2, Refusals
  <2> QED
    BY <1>7, <2>1, <2>2, <2>3, Refusals DEF Shapes
<1> QED
  BY <1>3, <1>4, <1>5, <1>6, <1>7, Steps

(* Whatever goes wrong, both components keep their shape in the company of *)
(* each other, and a pass for the machine keeps a copy of ids.             *)
THEOREM TypeCorrect == Spec => []TypeOK
<1>1. Shapes => TypeOK
  BY SameTypes DEF Shapes, TypeOK
<1> QED
  BY <1>1, ShapesInit, ShapesStep, PTL DEF Spec

-----------------------------------------------------------------------------
(* What the components rely on, in the company of each other               *)

Fresh == ~budget.misread

ClusterInv == CP!FinInv /\ CP!TrailInv /\ CP!EndpointInv /\ CP!GroundInv

MachineInv == /\ MP!FinInv /\ MP!HookInv /\ MP!TrailInv /\ MP!PaidInv
              /\ MP!OwnerInv

(* The budget and the ids as every step changes them                       *)
Shared == /\ Fresh'
          /\ next' \in {next, next + 1}
          /\ budget'.left <= budget.left

(* A step of either component leaves what they share in order.             *)
LEMMA SharedSteps ==
    ASSUME "stale" \notin Disturbances, Shapes, Fresh,
           CP!Next \/ MP!Next
    PROVE  Shared
<1>1. CASE CP!Next
  BY <1>1, Constants, CP!StaysFresh, CP!NextGrows, CP!BudgetFalls
     DEF Shapes, Fresh, Shared
<1>2. CASE MP!Next
  BY <1>2, Constants, MP!StaysFresh, MP!NextGrows, MP!BudgetFalls
     DEF Shapes, Fresh, Shared
<1> QED
  BY <1>1, <1>2

(* The invariants of the WXOneCluster hold on while others take steps,     *)
LEMMA ClusterFrame ==
    ASSUME Shapes, Fresh, Shared, ClusterInv, UNCHANGED cvars
    PROVE  ClusterInv'
<1>1. CP!FinInv'
  BY DEF ClusterInv, CP!FinInv, CP!CacheInv, CP!PassInv, CP!Marked,
         CP!Guarded, cvars
<1>2. CP!TrailInv'
  <2>1. CP!IdsInv'
    BY DEF ClusterInv, Fresh, Shared, Shapes, CP!TrailInv, CP!Trail,
           CP!IdsInv, CP!TypeOK, CP!Objects, cvars
  <2> QED
    BY <2>1 DEF ClusterInv, Fresh, CP!TrailInv, CP!Trail, CP!Patched, cvars
<1>3. CP!EndpointInv'
  BY DEF ClusterInv, Fresh, CP!EndpointInv, CP!EndpointPass, CP!Published,
         cvars
<1>4. CP!GroundInv'
  BY DEF ClusterInv, Fresh, CP!GroundInv, CP!Ground, CP!Live, CP!KeyLast,
         CP!Made, cvars
<1> QED
  BY <1>1, <1>2, <1>3, <1>4 DEF ClusterInv

(* and so do those of the machine.                                         *)
LEMMA MachineFrame ==
    ASSUME Shapes, Fresh, Shared, MachineInv, Shapes',
           UNCHANGED <<env, objects, pass, instances>>
    PROVE  MachineInv'
<1>1. MP!FinInv'
  BY DEF MachineInv, MP!FinInv, MP!CacheInv, MP!PassInv, MP!KeptByFin,
         MP!Guarded, objects, pass
<1>2. MP!HookInv'
  BY DEF MachineInv, Fresh, MP!HookInv, MP!HookPass, objects, pass, env
<1>3. MP!TrailInv'
  <2>1. MP!IdsInv'
    BY DEF MachineInv, Fresh, Shared, Shapes, MP!TrailInv, MP!Trail,
           MP!IdsInv, MP!TypeOK, instances
  <2> QED
    BY <2>1 DEF MachineInv, Fresh, MP!TrailInv, MP!Trail, MP!Patched,
                MP!Kept, objects, pass, instances, env
<1>4. MP!PaidInv'
  <2>1. MP!Forgotten' = MP!Forgotten
    BY DEF MP!Forgotten, MP!Holder, objects, pass, instances
  <2>2. UNCHANGED <<failed, pc>> /\ budget'.left <= budget.left /\ MP!Paid
    BY DEF pass, Shared, MachineInv, MP!PaidInv, Fresh
  <2>3. MP!Paid'
    BY <2>1, <2>2, MP!Paying, Constants DEF Shapes
  <2> QED
    BY <2>3 DEF MP!PaidInv
<1>5. MP!OwnerInv'
  BY DEF MachineInv, MP!OwnerInv, objects
<1> QED
  BY <1>1, <1>2, <1>3, <1>4, <1>5 DEF MachineInv

(* With the finalizer comes the hook: nothing counts as withdrawn that is  *)
(* not, and a refused call just ends the pass.                             *)
LEMMA RefusedMachine ==
    ASSUME Shapes, Shapes', Fresh, MachineInv, CallRefused
    PROVE  MachineInv' /\ known' = Nothing
<1>1. /\ UNCHANGED <<next, budget, env, objects, instances>> /\ MP!CallDue
      /\ pc # "idle" /\ step = "work" /\ MP!Trail /\ MP!Paid
  BY Refusals DEF MP!CallDue, MachineInv, Fresh, MP!TrailInv, MP!PaidInv
<1>2. ~(pc = "withdraw" /\ ~mcopy.hook)
  <2>1. SUFFICES ASSUME pc = "withdraw" PROVE mcopy.hook
    OBVIOUS
  <2>2. obj.attached /\ api.exists
    BY <1>1, <2>1, MP!CallFacts, Constants DEF Shapes, MachineInv
  <2> QED
    BY <2>1, <2>2 DEF MachineInv, Fresh, MP!HookInv, MP!HookPass
<1>3. MP!Abort /\ MP!EndPass /\ known' = Nothing
  BY <1>2, Refusals DEF MP!Abort
<1>4. UNCHANGED <<api, cached, machine, mcached, controlPlane, vms, routes,
                  running>>
  BY <1>1 DEF objects, env, instances
<1>5. MP!FinInv'
  BY <1>3, <1>4, MP!EndPassFin, Constants DEF MachineInv, MP!FinInv
<1>6. MP!HookInv'
  BY <1>1, <1>3, <1>4, MP!EndPassHook, Constants DEF MachineInv, MP!HookInv
<1>7. MP!TrailInv'
  <2>1. MP!IdsInv'
    BY <1>1, <1>4 DEF MP!Trail, MP!IdsInv
  <2> QED
    BY <1>1, <1>3, <1>4, <2>1, MP!EndPassTrail, Constants
       DEF MachineInv, Shapes, MP!TrailInv
<1>8. MP!PaidInv'
  <2>1. MP!Forgotten' \subseteq MP!Forgotten
    BY <1>1, <1>3, <1>4, MP!EndPassForgets, Constants DEF Shapes
  <2>2. ~failed' /\ budget'.left <= budget.left
    BY <1>1, <1>3 DEF MP!EndPass, Shapes, MP!TypeOK, MP!Budgets
  <2>3. MP!Paid'
    BY <1>1, <2>1, <2>2, MP!Paying, Constants DEF Shapes
  <2> QED
    BY <2>3 DEF MP!PaidInv
<1>9. MP!OwnerInv'
  BY <1>4 DEF MachineInv, MP!OwnerInv
<1> QED
  BY <1>3, <1>5, <1>6, <1>7, <1>8, <1>9 DEF MachineInv

(* Its own steps keep the invariants of a component.                       *)
LEMMA OwnSteps ==
    ASSUME "stale" \notin Disturbances, Shapes, Shapes', Fresh
    PROVE  /\ ClusterInv /\ CP!Next => ClusterInv'
           /\ MachineInv /\ MP!Next => MachineInv'
<1>1. ASSUME ClusterInv, CP!Next PROVE ClusterInv'
  BY <1>1, Constants, CP!FinStep, CP!TrailStep, CP!EndpointStep,
     CP!GroundStep DEF ClusterInv, Shapes
<1>2. ASSUME MachineInv, MP!Next PROVE MachineInv'
  <2>1. MP!FinInv' /\ MP!HookInv' /\ MP!TrailInv' /\ MP!OwnerInv'
    BY <1>2, Constants, MP!FinStep, MP!HookStep, MP!TrailStep, MP!OwnerStep
       DEF MachineInv, Shapes
  <2>2. ~budget'.misread
    BY <1>2, SharedSteps DEF Shared, Fresh
  <2>3. MP!Paid'
    BY <1>2, <2>2, Constants, MP!PaidStep
       DEF MachineInv, Shapes, Fresh, MP!TrailInv, MP!PaidInv
  <2> QED
    BY <2>1, <2>3 DEF MachineInv, MP!PaidInv
<1> QED
  BY <1>1, <1>2

-----------------------------------------------------------------------------
(* What ties the machine to the WXOneCluster                               *)

(* The WXOneCluster goes after the Machine; what a pass for the machine    *)
(* has read of it is what the informer has, or has less, the key first.    *)
LinkInv ==
    machine.exists =>
      /\ CP!Live
      /\ \A k \in CP!Kinds : known[k] \in {0, ccached.ids[k]}
      /\ CP!KeyLast(known)

SystemInv == Shapes /\ Fresh /\ ClusterInv /\ MachineInv /\ LinkInv

(* It holds in the beginning.                                              *)
LEMMA SystemInit == Init => SystemInv
<1> SUFFICES ASSUME Init PROVE SystemInv
  OBVIOUS
<1>1. CP!Init /\ MP!Init /\ known = Nothing
  BY SameTypes DEF Init
<1>2. Shapes
  BY ShapesInit
<1>3. Fresh
  BY <1>1 DEF CP!Init, Fresh
<1>4. ClusterInv
  BY <1>1, Constants, CP!FinInit, CP!TrailInit, CP!EndpointInit,
     CP!GroundInit DEF ClusterInv
<1>5. MachineInv
  BY <1>1, Constants, MP!FinInit, MP!HookInit, MP!TrailInit, MP!PaidInit,
     MP!OwnerInit DEF MachineInv
<1>6. LinkInv
  BY <1>1, SameObjects
     DEF CP!Init, LinkInv, CP!Live, CP!NewObject, Nothing, None, CP!None,
         Args, CP!Kinds, CP!KeyLast
<1> QED
  BY <1>2, <1>3, <1>4, <1>5, <1>6 DEF SystemInv

(* While there is a Machine nobody deletes the WXOneCluster.               *)
LEMMA StaysLive ==
    ASSUME SystemInv, ClusterStep, machine.exists
    PROVE  CP!Live' /\ ccached' \in {ccached, cluster}
<1>1. CP!SetOwner \/ CP!Deliver \/ CP!Start \/ CP!PassStep
  BY SameOutside, SamePass
     DEF ClusterStep, DeleteCluster, DeliverCluster, ClusterWorker,
         ClusterOwner
<1>2. CP!Live'
  BY <1>1, Constants, CP!LiveStays
     DEF SystemInv, Shapes, ClusterInv, LinkInv
<1> QED
  BY <1>2, ClusterSteps, Constants, CP!CacheSteps

(* The machine stays tied to it.                                           *)
LEMMA LinkStep ==
    ASSUME SystemInv, [Next]_vars
    PROVE  LinkInv'
<1> SUFFICES ASSUME machine'.exists
             PROVE  /\ CP!Live'
                    /\ \A k \in CP!Kinds : known'[k] \in {0, ccached'.ids[k]}
                    /\ CP!KeyLast(known')
  BY DEF LinkInv, CP!KeyLast
<1>1. machine.exists
  <2>1. MP!Next \/ UNCHANGED machine
    BY Steps, ClusterSteps, MachineSteps, Crashes, Refusals
       DEF objects, NoStep
  <2> QED
    BY <2>1, MP!GoneStaysGone, Constants DEF SystemInv, Shapes
<1>2. /\ CP!Live /\ CP!Ground /\ CP!KeyLast(known)
      /\ \A k \in CP!Kinds : known[k] \in {0, ccached.ids[k]}
  BY <1>1 DEF SystemInv, LinkInv, ClusterInv, CP!GroundInv, Fresh
<1>3. /\ CP!KeyLast(Nothing)
      /\ \A k \in CP!Kinds : Nothing[k] = 0
  BY SameObjects DEF CP!KeyLast, Nothing, None, CP!None, Args, CP!Kinds
<1>4. /\ CP!KeyLast(Known)
      /\ \A k \in CP!Kinds : Known[k] = ccached.ids[k]
  BY <1>2, SameObjects DEF CP!Ground, CP!KeyLast, Known, Args, CP!Kinds
<1>5. CASE ClusterStep
  BY <1>1, <1>2, <1>5, ClusterSteps, StaysLive DEF CP!Ground
<1>6. CASE MachineStep
  BY <1>2, <1>3, <1>4, <1>6, MachineSteps DEF cvars, CP!Live
<1>7. CASE NoStep
  BY <1>2, <1>7 DEF NoStep, cvars, CP!Live
<1>8. CASE Crash
  BY <1>2, <1>3, <1>8, Crashes DEF CP!Live
<1>9. CASE CallRefused
  BY <1>2, <1>3, <1>9, Refusals DEF cvars, CP!Live
<1> QED
  BY <1>5, <1>6, <1>7, <1>8, <1>9, Steps

(* Every step keeps the invariants of both components and what ties them.  *)
LEMMA SystemStep ==
    ASSUME "stale" \notin Disturbances, SystemInv, [Next]_vars
    PROVE  SystemInv'
<1> USE DEF SystemInv
<1>1. Shapes' /\ LinkInv'
  BY ShapesStep, LinkStep
<1>2. CASE ClusterStep
  <2>1. Shared /\ ClusterInv'
    BY <1>1, <1>2, ClusterSteps, SharedSteps, OwnSteps
  <2> QED
    BY <1>1, <1>2, <2>1, ClusterSteps, MachineFrame DEF Shared, Fresh
<1>3. CASE MachineStep
  <2>1. Shared /\ MachineInv'
    BY <1>1, <1>3, MachineSteps, SharedSteps, OwnSteps
  <2> QED
    BY <1>1, <1>3, <2>1, MachineSteps, ClusterFrame DEF Shared, Fresh
<1>4. ASSUME UNCHANGED <<next, budget>> PROVE Shared
  BY <1>4 DEF Shared, Fresh, Shapes, CP!TypeOK, CP!Budgets
<1>5. CASE NoStep
  BY <1>1, <1>4, <1>5, ClusterFrame, MachineFrame DEF NoStep, Shared, Fresh
<1>6. CASE Crash
  <2>1. Shared /\ ClusterInv' /\ MachineInv'
    BY <1>1, <1>6, Crashes, SharedSteps, OwnSteps
  <2> QED
    BY <1>1, <2>1 DEF Shared, Fresh
<1>7. CASE CallRefused
  <2>1. MachineInv' /\ Shared
    BY <1>1, <1>4, <1>7, RefusedMachine, Refusals
  <2> QED
    BY <1>1, <1>7, <2>1, Refusals, ClusterFrame DEF Shared, Fresh
<1> QED
  BY <1>2, <1>3, <1>5, <1>6, <1>7, Steps

(* Where every pass reads a fresh copy, each component keeps all its       *)
(* invariants in the company of the other, and the WXOneCluster is there   *)
(* and undisturbed as long as there is a Machine.                          *)
THEOREM SystemInvariant ==
    ASSUME "stale" \notin Disturbances
    PROVE  Spec => []SystemInv
BY SystemInit, SystemStep, PTL DEF Spec

-----------------------------------------------------------------------------
(* What WX-ONE has of the one when it is asked for the other               *)

(* Only a pass creates instances and changes what traffic is routed to,    *)
(* with calls that have the ids they need.                                 *)
LEMMA WorkerCalls ==
    ASSUME SystemInv, [Next]_vars, ~(vms' \subseteq vms) \/ routes' # routes
    PROVE  /\ ~Refused /\ UNCHANGED cvars
           /\ \/ MP!CreateInstance /\ routes' = routes
              \/ MP!Attach \/ MP!Withdraw
<1>1. MachineStep
  BY Steps, ClusterSteps, Crashes, Refusals DEF instances, NoStep
<1>2. ~(InfraReady \/ MachineEnvironment)
  <2> SUFFICES ASSUME InfraReady \/ MachineEnvironment
               PROVE  UNCHANGED <<vms, routes>>
    OBVIOUS
  <2>1. MP!Around \/ MP!Outside
    BY SameAround
       DEF InfraReady, MachineEnvironment, Alone, MP!Around, MP!Outside
  <2> QED
    BY <2>1, Constants, MP!AroundFrame, MP!OutsideFrame
       DEF SystemInv, Shapes
<1>3. ~StartMachine
  BY SameAround DEF StartMachine, MP!Start, MP!cloud
<1>4. ~Refused /\ MP!PassStep /\ UNCHANGED cvars
  BY <1>1, <1>2, <1>3, SameMachinePass DEF MachineStep, MachineWorker
<1>5. MP!CreateInstance => routes' = routes
  BY DEF MP!CreateInstance
<1> QED
  BY <1>4, <1>5, Constants, MP!CallsOfPass

(* Such a call is made for a machine that is there.                        *)
LEMMA CallerLives ==
    ASSUME SystemInv, MP!CallDue, pc \in {"instance", "route", "withdraw"}
    PROVE  /\ CP!Live /\ CP!Ground /\ CP!KeyLast(known)
           /\ \A k \in CP!Kinds : known[k] \in {0, ccached.ids[k]}
<1>1. api.exists
  BY Constants, MP!CallFacts
     DEF SystemInv, Shapes, MachineInv, MP!TrailInv, Fresh
<1>2. machine.exists
  BY <1>1 DEF SystemInv, MachineInv, MP!OwnerInv
<1> QED
  BY <1>2 DEF SystemInv, LinkInv, ClusterInv, CP!GroundInv, Fresh

(* What it has an id of exists, and the object says so.                    *)
LEMMA KnownExists ==
    ASSUME CP!Ground, NEW k \in CP!Kinds, known[k] # 0,
           known[k] \in {0, ccached.ids[k]}
    PROVE  known[k] \in resources[k] /\ known[k] = cluster.ids[k]
  BY DEF CP!Ground

(* Both count alike.                                                       *)
LEMMA SameCounting ==
    ASSUME NEW S
    PROVE  MP!Cardinality(S) = Cardinality(S)
  BY DEF Cardinality, MP!Cardinality

(* The network and the floating IP do not go before the machine, but for   *)
(* what every crash or bad answer has left of it.                          *)
THEOREM ClusterLast ==
    ASSUME "stale" \notin Disturbances
    PROVE  Spec => ClusterOutlivesMachine
<1>1. ASSUME SystemInv, [Next]_vars, NEW k \in CP!Kinds,
             ~(resources[k] \subseteq resources'[k])
      PROVE  Cardinality(vms) <= Spent /\ Cardinality(routes) <= Spent
  <2>1. CP!Next
    BY <1>1, Steps, ClusterSteps, MachineSteps, Crashes, Refusals
       DEF NoStep, cvars
  <2>2. ~CP!Live
    BY <1>1, <2>1, Constants, CP!ErasedOnDeletion
       DEF SystemInv, Shapes, ClusterInv
  <2>3. ~machine.exists
    BY <1>1, <2>2 DEF SystemInv, LinkInv
  <2>4. MP!TypeOK /\ MP!FinInv /\ MP!Trail /\ MP!Paid /\ MP!OwnerInv
    BY <1>1 DEF SystemInv, Shapes, MachineInv, Fresh, MP!TrailInv, MP!PaidInv
  <2>5. /\ MP!Cardinality(vms) <= MaxDisturb - budget.left
        /\ MP!Cardinality(routes) <= MaxDisturb - budget.left
    BY <2>3, <2>4, Constants, MP!LeftWithoutMachine
  <2> QED
    BY <2>5, SameCounting DEF Spent
<1>2. "network" \in CP!Kinds /\ "floatingIP" \in CP!Kinds
  BY DEF CP!Kinds
<1>3. SystemInv /\ [Next]_vars
        => /\ \/ resources.network \subseteq resources'.network
              \/ Cardinality(vms) <= Spent
           /\ \/ resources.floatingIP \subseteq resources'.floatingIP
              \/ Cardinality(routes) <= Spent
  BY <1>1, <1>2
<1> QED
  BY <1>3, SystemInvariant, PTL DEF Spec, ClusterOutlivesMachine

(* However far behind the copy of the WXOneCluster is that it reads, a     *)
(* pass for the machine creates no instance but on a network, with a key   *)
(* and with a floating IP that exist.                                      *)
THEOREM BuiltOnWhatExists ==
    ASSUME "stale" \notin Disturbances
    PROVE  Spec => BuiltOnCluster
<1>1. ASSUME SystemInv, [Next]_vars
      PROVE  \/ vms' \subseteq vms
             \/ \A k \in C!Kinds : known[k] \in resources[k]
  <2> SUFFICES ASSUME ~(vms' \subseteq vms)
               PROVE  \A k \in CP!Kinds : known[k] \in resources[k]
    BY SameObjects
  <2>1. ~Refused /\ MP!CreateInstance
    BY <1>1, WorkerCalls DEF MP!Attach, MP!Withdraw
  <2>2. pc = "instance" /\ MP!CallDue /\ client
    BY <2>1 DEF MP!CreateInstance
  <2>3. known["sshKey"] # 0
    BY <2>1, <2>2, SameParts, SameObjects
       DEF Refused, Needed, None, CP!None
  <2>4. \A k \in CP!Kinds : known[k] # 0
    BY <1>1, <2>2, <2>3, CallerLives DEF CP!KeyLast, CP!Kinds
  <2> QED
    BY <1>1, <2>2, <2>4, CallerLives, KnownExists
<1> QED
  BY <1>1, SystemInvariant, PTL DEF Spec, BuiltOnCluster

(* However early a machine comes to it, traffic is routed and withdrawn    *)
(* for a floating IP that exists and that is the endpoint, if there is one.*)
THEOREM RoutesLeadToEndpoint ==
    ASSUME "stale" \notin Disturbances
    PROVE  Spec => RoutedToEndpoint
<1>1. ASSUME SystemInv, [Next]_vars
      PROVE  routes' # routes =>
               /\ known["floatingIP"] \in resources.floatingIP
               /\ cluster.endpoint \in {None, known["floatingIP"]}
  <2> SUFFICES ASSUME routes' # routes
               PROVE  /\ known["floatingIP"] \in resources.floatingIP
                      /\ cluster.endpoint \in {None, known["floatingIP"]}
    OBVIOUS
  <2>1. ~Refused /\ (MP!Attach \/ MP!Withdraw)
    BY <1>1, WorkerCalls
  <2>2. pc \in {"route", "withdraw"} /\ MP!CallDue /\ client
    BY <2>1 DEF MP!Attach, MP!Withdraw
  <2>3. known["floatingIP"] # 0
    BY <2>1, <2>2, SameParts, SameObjects
       DEF Refused, Needed, None, CP!None
  <2>4. "floatingIP" \in CP!Kinds
    BY DEF CP!Kinds
  <2>5. /\ CP!Live /\ CP!Ground
        /\ known["floatingIP"] \in {0, ccached.ids["floatingIP"]}
    BY <1>1, <2>2, <2>4, CallerLives
  <2>6. /\ known["floatingIP"] \in resources["floatingIP"]
        /\ known["floatingIP"] = cluster.ids["floatingIP"]
    BY <2>3, <2>4, <2>5, KnownExists
  <2>7. CP!Published(cluster) /\ ~cluster.deleting
    BY <1>1, <2>5 DEF SystemInv, Fresh, ClusterInv, CP!EndpointInv, CP!Live
  <2> QED
    BY <2>6, <2>7, SameObjects DEF CP!Published, None, CP!None
<1> QED
  BY <1>1, SystemInvariant, PTL DEF Spec, RoutedToEndpoint
=============================================================================
