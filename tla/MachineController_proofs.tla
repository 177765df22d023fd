---------------------- MODULE MachineController_proofs ----------------------
(***************************************************************************)
(* Theorems about MachineController, for every set of disturbances and of  *)
(* deletions, every bound and every answer of WX-ONE to a repeated         *)
(* deletion.  The proofs follow those of ClusterController_proofs; a pass  *)
(* here has one more section before its first patch, the hook's.           *)
(***************************************************************************)
EXTENDS MachineController, Counting, TLAPS

(* Where a pass can be: only these sections patch, and the second one of a *)
(* normal pass only patches.                                               *)
Patching == {"finalizer", "flavor", "image", "instance", "route", "running",
             "withdraw", "destroy", "finish"}

Sections ==
    /\ step # "work" => pc \in Patching
    /\ pc = "finalizer" => step # "work"

-----------------------------------------------------------------------------
(* The objects *)

(* The object that is gone has no finalizer, no deletion timestamp, no     *)
(* ids.                                                                    *)
LEMMA GoneType ==
    /\ Gone \in Objects /\ ~Gone.exists /\ ~Gone.deleting /\ ~Gone.fin
    /\ Gone.instance = 0 /\ Gone.providerID = 0 /\ ~Gone.attached
    /\ ~Gone.ready
  BY DEF Gone, NewObject, None, Objects

(* Nor has the one just applied. *)
LEMMA NewObjectType ==
    /\ NewObject \in Objects /\ NewObject.exists /\ ~NewObject.deleting
    /\ ~NewObject.fin /\ NewObject.instance = 0 /\ NewObject.providerID = 0
    /\ ~NewObject.attached /\ ~NewObject.ready
  BY DEF NewObject, None, Objects

(* The same of a Machine. *)
LEMMA MachineTypes ==
    /\ NewMachine \in Machines /\ ~NewMachine.hook
    /\ GoneMachine \in Machines /\ ~GoneMachine.exists /\ ~GoneMachine.hook
  BY DEF NewMachine, GoneMachine, Machines

(* A deletion makes an object of an object. *)
LEMMA MarkedType == ASSUME TypeOK PROVE Marked(api) \in Objects
<1>1. [api EXCEPT !.deleting = TRUE] \in Objects
  BY DEF TypeOK, Objects
<1> QED
  BY <1>1, GoneType DEF Marked

(* The first call of Patch makes an object of an object. *)
LEMMA MergeMainType == ASSUME TypeOK PROVE MergeMain(api) \in Objects
<1> DEFINE m == [api EXCEPT !.fin = Merged(before.fin, obj.fin, @),
                            !.providerID = Merged(before.providerID,
                                                  obj.providerID, @)]
<1>1. /\ Merged(before.fin, obj.fin, api.fin) \in BOOLEAN
      /\ Merged(before.providerID, obj.providerID, api.providerID) \in Nat
  BY DEF TypeOK, Objects, Merged
<1>2. m \in Objects
  BY <1>1 DEF TypeOK, Objects
<1> QED
  BY <1>2, GoneType DEF MergeMain

(* So does the second. *)
LEMMA MergeStatusType == ASSUME TypeOK PROVE MergeStatus(api) \in Objects
<1>1. /\ Merged(before.flavor, obj.flavor, api.flavor) \in BOOLEAN
      /\ Merged(before.image, obj.image, api.image) \in BOOLEAN
      /\ Merged(before.instance, obj.instance, api.instance) \in Nat
      /\ Merged(before.attached, obj.attached, api.attached) \in BOOLEAN
      /\ Merged(before.ready, obj.ready, api.ready) \in BOOLEAN
  BY DEF TypeOK, Objects, Merged
<1> QED
  BY <1>1 DEF MergeStatus, TypeOK, Objects

(* What is left of a budget is a budget. *)
LEMMA SpendType == ASSUME TypeOK, NEW d, Spend(d) PROVE budget' \in Budgets
  BY DEF TypeOK, Spend, Budgets

(* A section is followed by one that exists, the last one by the end. *)
LEMMA FollowingType ==
    /\ pc \in Patching => Following \in Phases \ {"finalizer"}
    /\ Following = "idle" => pc \in {"running", "finish"} \/ pc \notin Patching
  BY DEF Following, After, Phases, Patching

(* A pass that ends leaves a well-typed idle controller. *)
LEMMA EndPassType ==
    ASSUME TypeOK, EndPass, UNCHANGED env, api' \in Objects,
           cached' \in Objects, machine' \in Machines, mcached' \in Machines,
           queued' \in BOOLEAN, vms' \in SUBSET Nat,
           running' \in SUBSET vms', routes' \in SUBSET Nat,
           next' \in Nat, budget' \in Budgets
    PROVE  TypeOK' /\ Sections'
<1>1. TypeOK'
  BY GoneType, MachineTypes DEF EndPass, TypeOK, Phases, env
<1>2. Sections'
  BY DEF EndPass, Sections
<1> QED
  BY <1>1, <1>2

(* So does a step of the cloud after which the pass goes on to its patch.  *)
LEMMA AnsweredType ==
    ASSUME TypeOK, NEW o \in Objects, Answered(o), pc \in Patching,
           vms' \in SUBSET Nat, running' \in SUBSET vms',
           routes' \in SUBSET Nat, next' \in Nat, budget' \in Budgets
    PROVE  TypeOK' /\ Sections'
  BY DEF Answered, TypeOK, Sections, env, Patching

-----------------------------------------------------------------------------
(* At the beginning everything has its shape.                              *)
LEMMA TypeInit == Init => TypeOK /\ Sections
<1> SUFFICES ASSUME Init PROVE TypeOK /\ Sections
  OBVIOUS
<1>1. budget \in Budgets
  BY ConstantsAssumption DEF Init, Budgets
<1>2. controlPlane \in BOOLEAN
  BY ConstantsAssumption DEF Init
<1> QED
  BY <1>1, <1>2, NewObjectType, GoneType, MachineTypes
     DEF Init, TypeOK, Sections, Phases

(* Every step leaves it so.                                                *)
LEMMA TypeStep ==
    ASSUME TypeOK, Sections, [Next]_vars
    PROVE  TypeOK' /\ Sections'
<1>1. CASE SetOwner
  <2>1. [api EXCEPT !.owned = TRUE] \in Objects
    BY DEF TypeOK, Objects
  <2> QED
    BY <1>1, <2>1 DEF SetOwner, env, pass, cloud, TypeOK, Sections
<1>2. CASE InfraReady
  BY <1>2 DEF InfraReady, pass, cloud, TypeOK, Sections
<1>3. ASSUME NEW m \in Machines, ChangeMachine(m), leaving' \in BOOLEAN,
             UNCHANGED api
      PROVE  TypeOK' /\ Sections'
  BY <1>3 DEF ChangeMachine, pass, cloud, TypeOK, Sections
<1>4. CASE SetBootstrap \/ NodeJoins \/ Drain \/ DeleteMachine
             \/ RemoveMachine
  <2>1. /\ [machine EXCEPT !.bootstrap = TRUE] \in Machines
        /\ [machine EXCEPT !.node = TRUE] \in Machines
        /\ [machine EXCEPT !.drained = TRUE] \in Machines
        /\ [machine EXCEPT !.deleting = TRUE] \in Machines
    BY DEF TypeOK, Machines
  <2>2. UNCHANGED api /\ leaving' \in BOOLEAN
    BY <1>4 DEF SetBootstrap, NodeJoins, Drain, DeleteMachine,
                RemoveMachine, TypeOK
  <2> QED
    BY <1>3, <1>4, <2>1, <2>2, MachineTypes
       DEF SetBootstrap, NodeJoins, Drain, DeleteMachine, RemoveMachine
<1>5. CASE DeleteInfra \/ DeleteDirect
  BY <1>5, MarkedType
     DEF DeleteInfra, DeleteDirect, env, pass, cloud, TypeOK, Sections
<1>6. CASE Deliver
  BY <1>6 DEF Deliver, env, pass, cloud, TypeOK, Sections
<1>7. CASE Resync
  BY <1>7 DEF Resync, env, pass, cloud, TypeOK, Sections
<1>8. CASE Crash
  BY <1>8, SpendType, EndPassType DEF Crash, Abort, cloud, TypeOK
<1>9. CASE Boot
  BY <1>9 DEF Boot, env, pass, TypeOK, Sections
<1>10. CASE Start
  <2>1. budget' \in Budgets
    BY <1>10, SpendType DEF Start, TypeOK
  <2>2. CASE ~cached.exists \/ ~cached.owned
    BY <1>10, <2>1, <2>2 DEF Start, env, pass, cloud, TypeOK, Sections
  <2>3. CASE ~(~cached.exists \/ ~cached.owned)
    <3>1. /\ obj' = cached /\ before' = cached /\ mcopy' = mcached
          /\ seen' = infra /\ pc' \in {"client", "hook"}
          /\ UNCHANGED <<step, client, failed>>
      BY <1>10, <2>3 DEF Start, FirstSection
    <3>2. step = "work"
      BY <1>10 DEF Start, Sections, Patching
    <3> QED
      BY <1>10, <2>1, <3>1, <3>2
         DEF Start, env, cloud, TypeOK, Sections, Phases
  <2> QED
    BY <2>2, <2>3
<1>11. CASE StartFails
  <2>1. budget' \in Budgets /\ queued' \in BOOLEAN
    BY <1>11, SpendType DEF StartFails, TypeOK
  <2> QED
    BY <1>11, <2>1 DEF StartFails, env, pass, cloud, TypeOK, Sections
<1>12. CASE AddHook
  <2>1. /\ [machine EXCEPT !.hook = TRUE] \in Machines
        /\ [mcopy EXCEPT !.hook = TRUE] \in Machines
        /\ [obj EXCEPT !.fin = TRUE] \in Objects
    BY DEF TypeOK, Machines, Objects
  <2>2. machine' \in Machines
    BY <1>12, <2>1 DEF AddHook, UpdateHook, TypeOK
  <2> QED
    BY <1>12, <2>1, <2>2
       DEF AddHook, env, cloud, TypeOK, Sections, Phases, Patching
<1>13. CASE RemoveHook
  <2>1. machine' \in Machines
    BY <1>13 DEF RemoveHook, UpdateHook, TypeOK, Machines
  <2> QED
    BY <1>13, <2>1, EndPassType DEF RemoveHook, cloud, TypeOK
<1>14. CASE UpdateFails
  <2>1. budget' \in Budgets
    BY <1>14, SpendType DEF UpdateFails, TypeOK
  <2> QED
    BY <1>14, <2>1, EndPassType DEF UpdateFails, Abort, cloud, TypeOK
<1>15. CASE GetClient
  <2>1. budget' \in Budgets /\ client' \in BOOLEAN
    BY <1>15, SpendType DEF GetClient, TypeOK
  <2>2. pc' \in {"owner", "gate"}
    BY <1>15 DEF GetClient
  <2> QED
    BY <1>15, <2>1, <2>2
       DEF GetClient, env, cloud, TypeOK, Sections, Phases, Patching
<1>16. CASE GetClientFails
  <2>1. budget' \in Budgets
    BY <1>16, SpendType DEF GetClientFails, TypeOK
  <2> QED
    BY <1>16, <2>1, EndPassType DEF GetClientFails, Abort, cloud, TypeOK
<1>17. CASE PassGate
  BY <1>17 DEF PassGate, env, cloud, TypeOK, Sections, Phases, Patching
<1>18. CASE StopAtGate
  <2>1. queued' \in BOOLEAN
    BY <1>18 DEF StopAtGate, TypeOK
  <2> QED
    BY <1>18, <2>1, EndPassType DEF StopAtGate, cloud, TypeOK
<1>19. CASE GetOwnerMachine
  <2>1. budget' \in Budgets
    BY <1>19, SpendType DEF GetOwnerMachine, TypeOK
  <2>2. pc' = "withdraw"
    BY <1>19 DEF GetOwnerMachine, After
  <2> QED
    BY <1>19, <2>1, <2>2
       DEF GetOwnerMachine, env, cloud, TypeOK, Sections, Phases, Patching
<1>20. CASE GetOwnerMachineFails
  <2>1. budget' \in Budgets
    BY <1>20, SpendType DEF GetOwnerMachineFails, TypeOK
  <2> QED
    BY <1>20, <2>1, EndPassType
       DEF GetOwnerMachineFails, Abort, cloud, TypeOK
<1>21. CASE SkipSection
  <2>1. pc \in Patching /\ step = "work"
    BY <1>21 DEF SkipSection, Patching
  <2> QED
    BY <1>21, <2>1, FollowingType
       DEF SkipSection, env, cloud, TypeOK, Sections
<1>22. CASE LookUp
  <2>1. /\ [obj EXCEPT !.flavor = TRUE] \in Objects
        /\ [obj EXCEPT !.image = TRUE] \in Objects
    BY DEF TypeOK, Objects
  <2>2. pc \in Patching
    BY <1>22 DEF LookUp, Patching
  <2> QED
    BY <1>22, <2>1, <2>2, AnsweredType DEF LookUp, cloud, TypeOK
<1>23. CASE CallFails
  <2>1. budget' \in Budgets
    BY <1>23, SpendType DEF CallFails, TypeOK
  <2> QED
    BY <1>23, <2>1, EndPassType DEF CallFails, Abort, cloud, TypeOK
<1>24. CASE CreateInstance
  <2>1. Launched(obj, next) \in Objects
    BY DEF Launched, TypeOK, Objects
  <2>2. /\ pc \in Patching /\ vms' \in SUBSET Nat /\ running' \in SUBSET vms'
        /\ routes' \in SUBSET Nat /\ next' \in Nat
    BY <1>24 DEF CreateInstance, Patching, TypeOK
  <2>3. CASE Answered(Launched(obj, next)) /\ UNCHANGED budget
    BY <2>1, <2>2, <2>3, AnsweredType DEF TypeOK
  <2>4. CASE AnswerLost
    BY <2>2, <2>4, SpendType, EndPassType DEF AnswerLost, Abort, TypeOK
  <2> QED
    BY <1>24, <2>3, <2>4 DEF CreateInstance
<1>25. CASE Attach
  <2>1. [obj EXCEPT !.attached = TRUE] \in Objects /\ obj.instance \in Nat
    BY DEF TypeOK, Objects
  <2>2. /\ pc \in Patching /\ vms' \in SUBSET Nat /\ running' \in SUBSET vms'
        /\ routes' \in SUBSET Nat /\ next' \in Nat
    BY <1>25, <2>1 DEF Attach, Patching, TypeOK
  <2>3. CASE Answered([obj EXCEPT !.attached = TRUE]) /\ UNCHANGED budget
    BY <2>1, <2>2, <2>3, AnsweredType DEF TypeOK
  <2>4. CASE AnswerLost
    BY <2>2, <2>4, SpendType, EndPassType DEF AnswerLost, Abort, TypeOK
  <2> QED
    BY <1>25, <2>3, <2>4 DEF Attach
<1>26. CASE CheckRunning
  <2>1. [obj EXCEPT !.ready = TRUE] \in Objects
    BY DEF TypeOK, Objects
  <2>2. /\ pc \in Patching
        /\ UNCHANGED <<vms, running, routes, next, budget>>
    BY <1>26 DEF CheckRunning, Patching, cloud
  <2>3. CASE Answered([obj EXCEPT !.ready = TRUE])
    BY <2>1, <2>2, <2>3, AnsweredType DEF TypeOK
  <2>4. CASE Abort /\ UNCHANGED <<env, api, cached, machine, mcached>>
    BY <2>2, <2>4, EndPassType DEF Abort, TypeOK
  <2> QED
    BY <1>26, <2>3, <2>4 DEF CheckRunning
<1>27. CASE Withdraw
  <2>1. [obj EXCEPT !.attached = FALSE] \in Objects
    BY DEF TypeOK, Objects
  <2>2. /\ pc \in Patching /\ vms' \in SUBSET Nat /\ running' \in SUBSET vms'
        /\ routes' \in SUBSET Nat /\ next' \in Nat
    BY <1>27 DEF Withdraw, Patching, TypeOK
  <2>3. CASE Answered([obj EXCEPT !.attached = FALSE])
    <3>1. budget' \in Budgets
      BY <1>27, <2>3, SpendType DEF Withdraw, AnswerLost, TypeOK
    <3> QED
      BY <2>1, <2>2, <2>3, <3>1, AnsweredType
  <2>4. CASE AnswerLost
    BY <2>2, <2>4, SpendType, EndPassType DEF AnswerLost, Abort, TypeOK
  <2> QED
    BY <1>27, <2>3, <2>4 DEF Withdraw
<1>28. CASE Destroy
  <2>1. [obj EXCEPT !.instance = None] \in Objects
    BY DEF TypeOK, Objects, None
  <2>2. /\ pc \in Patching /\ vms' \in SUBSET Nat /\ running' \in SUBSET vms'
        /\ routes' \in SUBSET Nat /\ next' \in Nat
    BY <1>28 DEF Destroy, Patching, TypeOK
  <2>3. CASE Answered([obj EXCEPT !.instance = None])
    <3>1. budget' \in Budgets
      BY <1>28, <2>3, SpendType DEF Destroy, AnswerLost, TypeOK
    <3> QED
      BY <2>1, <2>2, <2>3, <3>1, AnsweredType
  <2>4. CASE AnswerLost
    BY <2>2, <2>4, SpendType, EndPassType DEF AnswerLost, Abort, TypeOK
  <2> QED
    BY <1>28, <2>3, <2>4 DEF Destroy
<1>29. CASE Finish
  <2>1. [obj EXCEPT !.fin = FALSE] \in Objects
    BY DEF TypeOK, Objects
  <2> QED
    BY <1>29, <2>1, AnsweredType DEF Finish, Patching, cloud, TypeOK
<1>30. CASE PatchMain
  <2>1. api' \in Objects /\ failed' \in BOOLEAN /\ budget' \in Budgets
    BY <1>30, MergeMainType, SpendType DEF PatchMain, TypeOK
  <2> QED
    BY <1>30, <2>1 DEF PatchMain, env, cloud, TypeOK, Sections
<1>31. CASE PatchStatus
  <2>1. api' \in Objects
    BY <1>31, MergeStatusType DEF PatchStatus, TypeOK
  <2>2. CASE Following = "idle"
    BY <1>31, <2>1, <2>2, EndPassType DEF PatchStatus, cloud, TypeOK
  <2>3. CASE Following # "idle"
    <3>1. pc \in Patching
      BY <1>31 DEF PatchStatus, Sections
    <3> QED
      BY <1>31, <2>1, <2>3, <3>1, FollowingType
         DEF PatchStatus, env, cloud, TypeOK, Sections
  <2> QED
    BY <2>2, <2>3
<1>32. CASE PatchStatusFails
  <2>1. api' \in Objects /\ budget' \in Budgets
    BY <1>32, MergeStatusType, SpendType DEF PatchStatusFails, TypeOK
  <2> QED
    BY <1>32, <2>1, EndPassType DEF PatchStatusFails, Abort, cloud, TypeOK
<1>33. CASE UNCHANGED vars
  BY <1>33 DEF vars, env, pass, cloud, TypeOK, Sections
<1> QED
  BY <1>1, <1>2, <1>4, <1>5, <1>6, <1>7, <1>8, <1>9, <1>10, <1>11, <1>12,
     <1>13, <1>14, <1>15, <1>16, <1>17, <1>18, <1>19, <1>20, <1>21, <1>22,
     <1>23, <1>24, <1>25, <1>26, <1>27, <1>28, <1>29, <1>30, <1>31, <1>32,
     <1>33
     DEF Next, Environment, ClusterAPI, PassStep

(* Whatever goes wrong, all objects keep their shape, only instances that  *)
(* exist run, and a pass is always in a section that exists, about to      *)
(* patch only where the code patches.                                      *)
THEOREM TypeCorrect == Spec => [](TypeOK /\ Sections)
  BY TypeInit, TypeStep, PTL DEF Spec

-----------------------------------------------------------------------------
(* The finalizer *)

(* The API server keeps a deleted object exactly as long as its finalizer. *)
KeptByFin(o) == o.exists /\ o.deleting => o.fin

(* What an informer copy tells about the object although it may be behind: *)
(* gone and deleting are final, and so is the finalizer until then.        *)
CacheInv ==
    /\ KeptByFin(api) /\ KeptByFin(cached)
    /\ ~cached.exists => ~api.exists
    /\ cached.deleting => ~api.exists \/ api.deleting
    /\ cached.exists /\ cached.fin /\ ~cached.deleting => api.exists /\ api.fin

(* The sections of reconcileDelete and of reconcileNormal *)
Deleting == {"owner", "withdraw", "unhook", "destroy", "finish"}

Normal == {"hook", "finalizer", "gate", "flavor", "image", "instance",
           "route", "running"}

(* The finalizer is on the API server's object from the first patch on, or *)
(* from the start if the copy that was read had it.                        *)
Guarded ==
    \/ pc \notin {"hook", "finalizer"}
    \/ before.fin
    \/ step = "status" /\ ~failed

PassInv ==
    pc # "idle" =>
      /\ pc \in Deleting => obj.deleting
      /\ pc \in Normal => ~obj.deleting
      /\ obj.deleting => before.fin /\ (~cached.exists \/ cached.deleting)
      /\ ~obj.deleting => obj.fin \/ pc = "hook"
      /\ ~obj.deleting /\ Guarded => api.exists /\ api.fin

FinInv == CacheInv /\ PassInv

(* A patch of the metadata only takes the finalizer off if the pass did.   *)
LEMMA MergeMainFields ==
    ASSUME TypeOK, KeptByFin(api)
    PROVE  \/ /\ MergeMain(api) = Gone
              /\ api.deleting /\ before.fin /\ ~obj.fin
           \/ /\ MergeMain(api).exists = api.exists
              /\ MergeMain(api).deleting = api.deleting
              /\ MergeMain(api).fin = Merged(before.fin, obj.fin, api.fin)
              /\ api.deleting => MergeMain(api).fin
           \/ ~api.exists
<1> DEFINE f == Merged(before.fin, obj.fin, api.fin)
           p == Merged(before.providerID, obj.providerID, api.providerID)
           m == [api EXCEPT !.fin = f, !.providerID = p]
<1>1. /\ m.exists = api.exists /\ m.deleting = api.deleting /\ m.fin = f
  BY DEF TypeOK, Objects
<1>2. MergeMain(api) = IF m.deleting /\ ~m.fin THEN Gone ELSE m
  BY DEF MergeMain
<1> HIDE DEF m
<1>3. CASE m.deleting /\ ~m.fin /\ api.exists
  <2>1. ~f /\ api.deleting
    BY <1>1, <1>3
  <2>2. api.fin
    BY <1>3, <2>1 DEF KeptByFin
  <2>3. before.fin /\ ~obj.fin
    BY <2>1, <2>2 DEF Merged, TypeOK, Objects
  <2> QED
    BY <1>2, <1>3, <2>1, <2>3
<1>4. CASE ~(m.deleting /\ ~m.fin)
  BY <1>1, <1>2, <1>4
<1> QED
  BY <1>3, <1>4

(* A patch of the status leaves the finalizer and the provider id alone.   *)
LEMMA MergeStatusFields ==
    ASSUME TypeOK
    PROVE  /\ MergeStatus(api).exists = api.exists
           /\ MergeStatus(api).deleting = api.deleting
           /\ MergeStatus(api).fin = api.fin
           /\ MergeStatus(api).providerID = api.providerID
  BY DEF MergeStatus, TypeOK, Objects

(* A deletion either marks an object that has the finalizer or removes it. *)
LEMMA MarkedFields ==
    ASSUME TypeOK
    PROVE  IF api.fin
             THEN /\ Marked(api).exists = api.exists /\ Marked(api).deleting
                  /\ Marked(api).fin
             ELSE ~Marked(api).exists /\ ~Marked(api).deleting
  BY GoneType DEF Marked, TypeOK, Objects

(* A pass that ends does no harm. *)
LEMMA EndPassFin ==
    ASSUME CacheInv, EndPass, cached' = cached, api'.exists = api.exists,
           api'.deleting = api.deleting, api'.fin = api.fin
    PROVE  FinInv'
<1>1. CacheInv'
  BY DEF CacheInv, KeptByFin
<1>2. PassInv'
  BY DEF PassInv, EndPass
<1> QED
  BY <1>1, <1>2 DEF FinInv

(* Nor does a pass that goes on behind its first patch, *)
LEMMA MoveFin ==
    ASSUME FinInv, pc # "idle", Guarded, cached' = cached, before' = before,
           api'.exists = api.exists, api'.deleting = api.deleting,
           api'.fin = api.fin, obj'.deleting = obj.deleting,
           obj'.fin = obj.fin \/ obj.deleting, pc # "hook",
           pc' \in Deleting => obj.deleting, pc' \in Normal => ~obj.deleting
    PROVE  FinInv'
<1>1. CacheInv'
  BY DEF FinInv, CacheInv, KeptByFin
<1>2. PassInv'
  BY DEF FinInv, PassInv, Guarded
<1> QED
  BY <1>1, <1>2 DEF FinInv

(* or in the section it is in. *)
LEMMA AnsweredFin ==
    ASSUME FinInv, NEW o, Answered(o), pc \in Patching \ {"finalizer"},
           o.deleting = obj.deleting, o.fin = obj.fin \/ obj.deleting
    PROVE  FinInv'
  BY MoveFin DEF Answered, FinInv, PassInv, Guarded, Patching

(* What follows a section belongs to the same half of the reconciler.      *)
LEMMA FollowingHalf ==
    /\ pc \in Patching /\ Following \in Deleting => pc \in Deleting
    /\ pc \in Patching /\ Following \in Normal => pc \in Normal
  BY DEF Following, After, Patching, Deleting, Normal

(* Steps that neither the object nor the pass take part in.                *)
LEMMA OutsideFin ==
    ASSUME FinInv, UNCHANGED <<cached, pass>>, api'.exists = api.exists,
           api'.deleting = api.deleting, api'.fin = api.fin
    PROVE  FinInv'
  BY DEF FinInv, CacheInv, PassInv, KeptByFin, Guarded, pass

(* The object that was just applied has neither a deletion timestamp nor   *)
(* a finalizer.                                                            *)
LEMMA FinInit == Init => FinInv
  BY NewObjectType DEF Init, FinInv, CacheInv, PassInv, KeptByFin

(* Every step leaves the two in order.                                     *)
LEMMA FinStep ==
    ASSUME TypeOK, Sections, FinInv, [Next]_vars
    PROVE  FinInv'
<1>1. CASE SetOwner
  <2>1. /\ api'.exists = api.exists /\ api'.deleting = api.deleting
        /\ api'.fin = api.fin
    BY <1>1 DEF SetOwner, TypeOK, Objects
  <2> QED
    BY <1>1, <2>1, OutsideFin DEF SetOwner
<1>2. CASE InfraReady \/ SetBootstrap \/ NodeJoins \/ DeleteMachine \/ Drain
             \/ RemoveMachine \/ Resync \/ Boot \/ StartFails
  BY <1>2, OutsideFin
     DEF InfraReady, SetBootstrap, NodeJoins, DeleteMachine, Drain,
         RemoveMachine, ChangeMachine, Resync, Boot, StartFails
<1>3. CASE DeleteInfra \/ DeleteDirect
  <2>1. api' = Marked(api) /\ api.exists /\ UNCHANGED <<cached, pass>>
    BY <1>3 DEF DeleteInfra, DeleteDirect
  <2> QED
    BY <2>1, MarkedFields
       DEF FinInv, CacheInv, PassInv, KeptByFin, Guarded, pass
<1>4. CASE Deliver
  BY <1>4 DEF Deliver, pass, FinInv, CacheInv, PassInv, KeptByFin, Guarded
<1>5. CASE Crash
  BY <1>5 DEF Crash, Abort, EndPass, FinInv, CacheInv, PassInv, KeptByFin
<1>6. CASE Start
  <2>1. CASE ~cached.exists \/ ~cached.owned
    BY <1>6, <2>1, OutsideFin DEF Start
  <2>2. CASE cached.exists /\ cached.owned
    <3>1. /\ obj' = cached /\ before' = cached /\ cached' = cached
          /\ api' = api /\ step' = step /\ step = "work"
          /\ pc' = IF cached.deleting THEN "client" ELSE "hook"
      BY <1>6, <2>2 DEF Start, FirstSection, Sections, Patching
    <3> QED
      BY <2>2, <3>1
         DEF FinInv, CacheInv, PassInv, KeptByFin, Guarded, Deleting, Normal
  <2> QED
    BY <2>1, <2>2 DEF TypeOK, Objects
<1>7. CASE AddHook
  <2>1. obj'.deleting = obj.deleting /\ obj'.fin = TRUE
    BY <1>7 DEF AddHook, TypeOK, Objects
  <2>2. /\ UNCHANGED <<api, cached, before>>
        /\ pc = "hook" /\ pc' = "finalizer" /\ step' = "main"
    BY <1>7 DEF AddHook
  <2> QED
    BY <2>1, <2>2
       DEF FinInv, CacheInv, PassInv, KeptByFin, Guarded, Deleting, Normal
<1>8. CASE UpdateFails \/ RemoveHook \/ GetClientFails \/ StopAtGate
             \/ GetOwnerMachineFails \/ CallFails
  BY <1>8, EndPassFin
     DEF UpdateFails, RemoveHook, GetClientFails, StopAtGate,
         GetOwnerMachineFails, CallFails, Abort, FinInv
<1>9. CASE GetClient
  BY <1>9, MoveFin DEF GetClient, Guarded, Deleting, Normal
<1>10. CASE PassGate
  BY <1>10, MoveFin DEF PassGate, Guarded, FinInv, PassInv, Deleting, Normal
<1>11. CASE GetOwnerMachine
  BY <1>11, MoveFin
     DEF GetOwnerMachine, After, Guarded, FinInv, PassInv, Deleting, Normal
<1>12. CASE SkipSection
  <2>1. /\ pc \in Patching \ {"finalizer"} /\ pc' = Following
        /\ UNCHANGED <<api, cached, obj, before>>
    BY <1>12 DEF SkipSection, Patching
  <2> QED
    BY <2>1, FollowingHalf, MoveFin DEF Guarded, FinInv, PassInv, Patching
<1>13. CASE LookUp
  <2>1. ASSUME NEW o \in {[obj EXCEPT !.flavor = TRUE],
                          [obj EXCEPT !.image = TRUE]}
        PROVE  o.deleting = obj.deleting /\ o.fin = obj.fin
    BY DEF TypeOK, Objects
  <2> QED
    BY <1>13, <2>1, AnsweredFin DEF LookUp, FinInv, PassInv, Patching
<1>14. CASE AnswerLost
  BY <1>14, EndPassFin DEF AnswerLost, Abort, FinInv
<1>15. CASE CreateInstance
  <2>1. /\ Launched(obj, next).deleting = obj.deleting
        /\ Launched(obj, next).fin = obj.fin
    BY DEF Launched, TypeOK, Objects
  <2> QED
    BY <1>14, <1>15, <2>1, AnsweredFin
       DEF CreateInstance, FinInv, PassInv, Patching, Normal
<1>16. CASE Attach
  <2>1. /\ [obj EXCEPT !.attached = TRUE].deleting = obj.deleting
        /\ [obj EXCEPT !.attached = TRUE].fin = obj.fin
    BY DEF TypeOK, Objects
  <2> QED
    BY <1>14, <1>16, <2>1, AnsweredFin
       DEF Attach, FinInv, PassInv, Patching, Normal
<1>17. CASE CheckRunning
  <2>1. /\ [obj EXCEPT !.ready = TRUE].deleting = obj.deleting
        /\ [obj EXCEPT !.ready = TRUE].fin = obj.fin
    BY DEF TypeOK, Objects
  <2> QED
    BY <1>17, <2>1, AnsweredFin, EndPassFin
       DEF CheckRunning, Abort, FinInv, PassInv, Patching, Normal
<1>18. CASE Withdraw
  <2>1. /\ [obj EXCEPT !.attached = FALSE].deleting = obj.deleting
        /\ [obj EXCEPT !.attached = FALSE].fin = obj.fin
    BY DEF TypeOK, Objects
  <2>2. obj.fin = obj.fin \/ obj.deleting
    OBVIOUS
  <2> QED
    BY <1>14, <1>18, <2>1, AnsweredFin
       DEF Withdraw, FinInv, PassInv, Patching, Deleting
<1>19. CASE Destroy
  <2>1. /\ [obj EXCEPT !.instance = None].deleting = obj.deleting
        /\ [obj EXCEPT !.instance = None].fin = obj.fin
    BY DEF TypeOK, Objects
  <2> QED
    BY <1>14, <1>19, <2>1, AnsweredFin
       DEF Destroy, FinInv, PassInv, Patching, Deleting
<1>20. CASE Finish
  <2>1. /\ [obj EXCEPT !.fin = FALSE].deleting = obj.deleting
        /\ ~[obj EXCEPT !.fin = FALSE].fin
    BY DEF TypeOK, Objects
  <2> QED
    BY <1>20, <2>1, AnsweredFin
       DEF Finish, FinInv, PassInv, Patching, Deleting
<1>21. CASE PatchMain
  <2>1. /\ UNCHANGED <<cached, before, obj, pc>>
        /\ pc \in Patching /\ step' = "status"
    BY <1>21 DEF PatchMain, Sections
  <2>2. CASE api' = MergeMain(api) /\ api.exists /\ failed' = failed
    <3>1. CASE /\ MergeMain(api) = Gone
               /\ api.deleting /\ before.fin /\ ~obj.fin
      BY <2>1, <2>2, <3>1, GoneType
         DEF FinInv, CacheInv, PassInv, KeptByFin, Guarded, Patching
    <3>2. CASE /\ MergeMain(api).exists = api.exists
               /\ MergeMain(api).deleting = api.deleting
               /\ MergeMain(api).fin = Merged(before.fin, obj.fin, api.fin)
               /\ api.deleting => MergeMain(api).fin
      <4>1. ~obj.fin => api.deleting
        BY <2>1, <2>2 DEF FinInv, CacheInv, PassInv, Patching
      <4>2. api'.fin = api.fin \/ (api'.fin /\ obj.fin)
        BY <2>2, <3>2, <4>1
           DEF Merged, TypeOK, Objects, KeptByFin, FinInv, CacheInv
      <4>3. before.fin # obj.fin /\ obj.fin => api'.fin
        BY <2>2, <3>2 DEF Merged
      <4>4. api'.exists /\ api'.deleting = api.deleting
        BY <2>2, <3>2
      <4>5. CacheInv'
        BY <2>1, <2>2, <3>2, <4>2, <4>4
           DEF FinInv, CacheInv, KeptByFin, TypeOK, Objects
      <4>6. PassInv'
        BY <2>1, <2>2, <4>2, <4>3, <4>4
           DEF FinInv, PassInv, Guarded, TypeOK, Objects, Patching
      <4> QED
        BY <4>5, <4>6 DEF FinInv
    <3> QED
      BY <2>2, <3>1, <3>2, MergeMainFields DEF FinInv, CacheInv
  <2>3. CASE api' = api /\ ~MainDiffers /\ failed' = failed
    <3>1. pc = "finalizer" /\ ~obj.deleting => before.fin
      <4>1. SUFFICES ASSUME pc = "finalizer", ~obj.deleting, ~before.fin
                     PROVE  FALSE
        BY DEF TypeOK, Objects
      <4>2. obj.fin
        BY <4>1 DEF FinInv, PassInv
      <4>3. ~(before.deleting /\ ~obj.fin) => MergeMain(before).fin = obj.fin
        BY <4>1, <4>2 DEF MergeMain, Merged, TypeOK, Objects
      <4> QED
        BY <2>3, <4>1, <4>2, <4>3 DEF MainDiffers
    <3> QED
      BY <2>1, <2>3, <3>1
         DEF FinInv, CacheInv, PassInv, KeptByFin, Guarded, Patching
  <2>4. CASE api' = api /\ failed'
    BY <2>1, <2>4
       DEF FinInv, CacheInv, PassInv, KeptByFin, Guarded, Patching
  <2> QED
    BY <1>21, <2>2, <2>3, <2>4, GoneType DEF PatchMain
<1>22. CASE PatchStatus
  <2>1. /\ api'.exists = api.exists /\ api'.deleting = api.deleting
        /\ api'.fin = api.fin
    BY <1>22, MergeStatusFields DEF PatchStatus
  <2>2. CASE Following = "idle"
    BY <1>22, <2>1, <2>2, EndPassFin DEF PatchStatus, FinInv
  <2>3. CASE Following # "idle"
    <3>1. /\ pc \in Patching /\ Guarded /\ pc' = Following
          /\ UNCHANGED <<cached, before, obj>>
      BY <1>22, <2>3 DEF PatchStatus, Sections, Guarded
    <3>2. obj.fin = obj.fin \/ obj.deleting
      OBVIOUS
    <3> QED
      BY <2>1, <3>1, FollowingHalf, MoveFin DEF FinInv, PassInv, Patching
  <2> QED
    BY <2>2, <2>3
<1>23. CASE PatchStatusFails
  <2>1. /\ api'.exists = api.exists /\ api'.deleting = api.deleting
        /\ api'.fin = api.fin
    BY <1>23, MergeStatusFields DEF PatchStatusFails
  <2> QED
    BY <1>23, <2>1, EndPassFin DEF PatchStatusFails, Abort, FinInv
<1>24. CASE UNCHANGED vars
  BY <1>24, OutsideFin DEF vars
<1> QED
  BY <1>1, <1>2, <1>3, <1>4, <1>5, <1>6, <1>7, <1>8, <1>9, <1>10, <1>11,
     <1>12, <1>13, <1>15, <1>16, <1>17, <1>18, <1>19, <1>20, <1>21, <1>22,
     <1>23, <1>24
     DEF Next, Environment, ClusterAPI, PassStep

(* The deletion timestamp and the finalizer as the API server, the cache   *)
(* and the pass hold them fit together, whatever goes wrong.               *)
THEOREM FinalizerInvariant == Spec => []FinInv
  BY FinInit, FinStep, TypeCorrect, PTL DEF Spec

(* Whatever goes wrong and however often, an instance is only created and  *)
(* only put into the floating group while the API server holds the         *)
(* WXOneMachine with its finalizer.                                        *)
THEOREM FinalizerFirst == Spec => []CreateUnderFinalizer
<1>1. FinInv /\ Sections => CreateUnderFinalizer
  BY DEF FinInv, PassInv, Guarded, Sections, CreateUnderFinalizer, Normal
<1> QED
  BY <1>1, FinalizerInvariant, TypeCorrect, PTL

-----------------------------------------------------------------------------
(* The hook *)

(* As long as objects read are fresh: the pass knows whether the route is  *)
(* recorded, a normal pass goes on with the hook on the Machine, and a     *)
(* pass that deletes is past the withdrawal only if nothing is recorded.   *)
HookPass ==
    /\ obj.deleting /\ obj.attached => before.attached
    /\ ~obj.deleting /\ before.attached => obj.attached
    /\ obj.attached = before.attached => api.attached = before.attached
    /\ step = "work" => api.attached = obj.attached
    /\ pc = "hook" /\ mcopy.hook => machine.hook
    /\ ~obj.deleting /\ pc # "hook" => machine.hook
    /\ pc = "withdraw" /\ obj.attached => mcopy.hook /\ step = "work"
    /\ pc \in {"unhook", "destroy", "finish"} => ~obj.attached

HookInv ==
    ~budget.misread =>
      /\ api.attached => machine.hook
      /\ ~api.exists => ~api.attached
      /\ ~controlPlane => ~api.attached /\ (pc # "idle" => ~obj.attached)
      /\ pc # "idle" /\ api.exists => HookPass

(* That something was read that is behind is never forgotten. *)
LEMMA SpendMisread ==
    ASSUME TypeOK, NEW d, Spend(d)
    PROVE  /\ budget.misread => budget'.misread
           /\ d = "stale" => budget'.misread
  BY DEF Spend, TypeOK, Budgets

(* A pass that ends leaves the hook alone, and the record unless it was    *)
(* about to patch that.                                                    *)
LEMMA EndPassHook ==
    ASSUME HookInv, EndPass, UNCHANGED controlPlane,
           budget.misread => budget'.misread,
           ~budget.misread =>
             /\ api'.attached => machine'.hook
             /\ ~api'.exists => ~api'.attached
             /\ ~controlPlane => ~api'.attached
    PROVE  HookInv'
  BY DEF HookInv, EndPass

(* An answer other than that of Attach or Withdraw changes neither.        *)
LEMMA AnsweredHook ==
    ASSUME HookInv, NEW o, Answered(o), pc \in Patching \ {"withdraw"},
           UNCHANGED budget, o.attached = obj.attached,
           o.deleting = obj.deleting
    PROVE  HookInv'
  BY DEF Answered, HookInv, HookPass, env, Patching

(* A step that only moves on *)
LEMMA MoveHook ==
    ASSUME HookInv, pc \notin {"idle", "hook", "owner"}, step = "work",
           UNCHANGED <<controlPlane, api, machine, obj, before, mcopy, step>>,
           budget.misread => budget'.misread,
           pc' \notin {"hook", "withdraw"},
           pc' \in {"unhook", "destroy", "finish"} =>
             \/ pc \in {"destroy", "finish"}
             \/ ~budget.misread /\ api.exists => ~obj.attached
    PROVE  HookInv'
  BY DEF HookInv, HookPass

(* Steps of others: the record, the hook and the pass stay as they are.    *)
LEMMA OutsideHook ==
    ASSUME HookInv, UNCHANGED <<controlPlane, pass>>,
           budget.misread => budget'.misread,
           \/ /\ api'.exists = api.exists /\ api'.attached = api.attached
              /\ machine'.hook = machine.hook \/ ~api.exists
           \/ ~api'.exists /\ ~api'.attached
    PROVE  HookInv'
  BY DEF HookInv, HookPass, pass

(* In the beginning there is neither a route nor a hook.                   *)
LEMMA HookInit == Init => HookInv
  BY NewObjectType DEF Init, HookInv

(* No step takes the hook off a recorded route.                            *)
LEMMA HookStep ==
    ASSUME TypeOK, Sections, FinInv, HookInv, [Next]_vars
    PROVE  HookInv'
<1>1. CASE SetOwner
  <2>1. api'.exists = api.exists /\ api'.attached = api.attached
    BY <1>1 DEF SetOwner, TypeOK, Objects
  <2> QED
    BY <1>1, <2>1, OutsideHook DEF SetOwner, env
<1>2. CASE InfraReady \/ Deliver \/ Resync \/ Boot
  BY <1>2, OutsideHook DEF InfraReady, Deliver, Resync, Boot, env
<1>3. CASE SetBootstrap \/ NodeJoins \/ DeleteMachine \/ Drain
             \/ RemoveMachine
  <2>1. machine'.hook = machine.hook \/ ~api.exists
    BY <1>3 DEF SetBootstrap, NodeJoins, DeleteMachine, Drain,
                RemoveMachine, ChangeMachine, TypeOK, Machines
  <2> QED
    BY <1>3, <2>1, OutsideHook
       DEF SetBootstrap, NodeJoins, DeleteMachine, Drain, RemoveMachine,
           ChangeMachine
<1>4. CASE DeleteInfra \/ DeleteDirect
  <2>1. /\ api' = Marked(api)
        /\ UNCHANGED <<controlPlane, pass, machine, budget>>
    BY <1>4 DEF DeleteInfra, DeleteDirect, env
  <2>2. \/ api'.exists = api.exists /\ api'.attached = api.attached
        \/ ~api'.exists /\ ~api'.attached
    BY <2>1, GoneType DEF Marked, TypeOK, Objects
  <2> QED
    BY <2>1, <2>2, OutsideHook
<1>5. CASE Crash
  BY <1>5, SpendMisread, EndPassHook DEF Crash, Abort, env, HookInv
<1>6. CASE Start
  <2>1. CASE ~Fresh
    BY <1>6, <2>1, SpendMisread DEF Start, HookInv
  <2>2. CASE Fresh /\ (~cached.exists \/ ~cached.owned)
    BY <1>6, <2>2, OutsideHook DEF Start, env
  <2>3. CASE Fresh /\ ~(~cached.exists \/ ~cached.owned)
    <3>1. /\ obj' = api /\ before' = api /\ mcopy' = machine
          /\ UNCHANGED <<api, machine, budget, controlPlane, step>>
          /\ step = "work"
          /\ pc' = IF api.deleting THEN "client" ELSE "hook"
      BY <1>6, <2>3
         DEF Start, Fresh, FirstSection, Sections, Patching, env
    <3> QED
      BY <3>1 DEF HookInv, HookPass
  <2> QED
    BY <2>1, <2>2, <2>3
<1>7. CASE StartFails
  BY <1>7, SpendMisread, OutsideHook DEF StartFails, env
<1>8. CASE AddHook
  <2>1. /\ obj'.attached = obj.attached /\ obj'.deleting = obj.deleting
        /\ UNCHANGED <<api, before, budget, controlPlane>>
        /\ pc = "hook" /\ pc' = "finalizer" /\ step' = "main"
    BY <1>8 DEF AddHook, TypeOK, Objects, env
  <2>2. machine'.hook \/ (mcopy.hook /\ machine' = machine)
    BY <1>8 DEF AddHook, UpdateHook, TypeOK, Machines
  <2> QED
    BY <2>1, <2>2 DEF HookInv, HookPass
<1>9. CASE RemoveHook
  <2>1. /\ EndPass /\ pc = "unhook" /\ step = "work"
        /\ UNCHANGED <<api, budget, controlPlane>>
    BY <1>9 DEF RemoveHook, env, Sections, Patching
  <2> QED
    BY <2>1, EndPassHook DEF HookInv, HookPass
<1>10. CASE UpdateFails \/ GetClientFails \/ StopAtGate
              \/ GetOwnerMachineFails \/ CallFails
  BY <1>10, SpendMisread, EndPassHook
     DEF UpdateFails, GetClientFails, StopAtGate, GetOwnerMachineFails,
         CallFails, Abort, env, HookInv
<1>11. CASE GetClient
  <2>1. /\ step = "work"
        /\ budget.misread => budget'.misread
    BY <1>11, SpendMisread DEF GetClient, Sections, Patching
  <2> QED
    BY <1>11, <2>1, MoveHook DEF GetClient, env
<1>12. CASE PassGate
  BY <1>12, MoveHook DEF PassGate, env, Sections, Patching
<1>13. CASE GetOwnerMachine
  <2>1. CASE mcached # machine
    BY <1>13, <2>1, SpendMisread DEF GetOwnerMachine, HookInv
  <2>2. CASE mcached = machine
    <3>1. /\ mcopy' = machine /\ pc = "owner" /\ pc' = "withdraw"
          /\ step = "work"
          /\ UNCHANGED <<api, machine, obj, before, budget, controlPlane,
                         step>>
      BY <1>13, <2>2 DEF GetOwnerMachine, After, env, Sections, Patching
    <3>2. obj.deleting
      BY <3>1 DEF FinInv, PassInv, Deleting
    <3> QED
      BY <3>1, <3>2 DEF HookInv, HookPass
  <2> QED
    BY <2>1, <2>2
<1>14. CASE SkipSection
  <2>1. /\ step = "work" /\ ~CallDue /\ pc' = Following
        /\ pc \in {"flavor", "image", "instance", "route", "withdraw",
                   "destroy"}
        /\ UNCHANGED <<api, machine, obj, before, mcopy, budget,
                       controlPlane, step>>
    BY <1>14 DEF SkipSection, env
  <2>2. pc = "withdraw" /\ ~budget.misread => ~obj.attached
    BY <2>1 DEF CallDue, HookInv
  <2>3. /\ Following \notin {"hook", "withdraw"}
        /\ Following \in {"unhook", "destroy", "finish"} =>
             pc \in {"withdraw", "destroy"}
    BY <2>1 DEF Following, After
  <2> QED
    BY <2>1, <2>2, <2>3, MoveHook
<1>15. CASE LookUp \/ CheckRunning
  <2>1. ASSUME NEW o \in {[obj EXCEPT !.flavor = TRUE],
                          [obj EXCEPT !.image = TRUE],
                          [obj EXCEPT !.ready = TRUE]}
        PROVE  o.deleting = obj.deleting /\ o.attached = obj.attached
    BY DEF TypeOK, Objects
  <2>2. CASE Abort /\ UNCHANGED <<env, api, machine, budget>>
    BY <2>2, EndPassHook DEF Abort, env, HookInv
  <2> QED
    BY <1>15, <2>1, <2>2, AnsweredHook DEF LookUp, CheckRunning, Patching
<1>16. CASE AnswerLost
  BY <1>16, SpendMisread, EndPassHook DEF AnswerLost, Abort, env, HookInv
<1>17. CASE CreateInstance
  <2>1. /\ Launched(obj, next).deleting = obj.deleting
        /\ Launched(obj, next).attached = obj.attached
    BY DEF Launched, TypeOK, Objects
  <2> QED
    BY <1>16, <1>17, <2>1, AnsweredHook DEF CreateInstance, Patching
<1>18. CASE Attach
  <2>1. CASE Answered([obj EXCEPT !.attached = TRUE]) /\ UNCHANGED budget
    <3>1. /\ obj'.deleting = obj.deleting /\ obj'.attached
          /\ UNCHANGED <<env, api, machine, pc, before, mcopy, budget>>
          /\ step' = "main"
      BY <2>1 DEF Answered, TypeOK, Objects
    <3>2. /\ pc = "route" /\ controlPlane /\ ~obj.attached
          /\ step = "work"
      BY <1>18 DEF Attach, CallDue
    <3>3. ~obj.deleting
      BY <3>2 DEF FinInv, PassInv, Normal
    <3> QED
      BY <3>1, <3>2, <3>3 DEF HookInv, HookPass, env, TypeOK, Objects
  <2> QED
    BY <1>16, <1>18, <2>1 DEF Attach
<1>19. CASE Withdraw
  <2>1. CASE Answered([obj EXCEPT !.attached = FALSE])
    <3>1. /\ obj'.deleting = obj.deleting /\ ~obj'.attached
          /\ UNCHANGED <<env, api, machine, pc, before, mcopy>>
          /\ step' = "main"
      BY <2>1 DEF Answered, TypeOK, Objects
    <3>2. /\ pc = "withdraw" /\ obj.attached /\ step = "work"
          /\ budget.misread => budget'.misread
      BY <1>19, <2>1, SpendMisread DEF Withdraw, CallDue, AnswerLost
    <3>3. obj.deleting
      BY <3>2 DEF FinInv, PassInv, Deleting
    <3> QED
      BY <3>1, <3>2, <3>3 DEF HookInv, HookPass, env, TypeOK, Objects
  <2> QED
    BY <1>16, <1>19, <2>1 DEF Withdraw
<1>20. CASE Destroy
  <2>1. CASE Answered([obj EXCEPT !.instance = None])
    <3>1. /\ obj'.deleting = obj.deleting /\ obj'.attached = obj.attached
          /\ UNCHANGED <<env, api, machine, pc, before, mcopy>>
          /\ step' = "main"
      BY <2>1 DEF Answered, TypeOK, Objects
    <3>2. /\ pc = "destroy"
          /\ budget.misread => budget'.misread
      BY <1>20, <2>1, SpendMisread DEF Destroy, AnswerLost
    <3> QED
      BY <3>1, <3>2 DEF HookInv, HookPass, env, TypeOK, Objects
  <2> QED
    BY <1>16, <1>20, <2>1 DEF Destroy
<1>21. CASE Finish
  <2>1. /\ [obj EXCEPT !.fin = FALSE].deleting = obj.deleting
        /\ [obj EXCEPT !.fin = FALSE].attached = obj.attached
    BY DEF TypeOK, Objects
  <2> QED
    BY <1>21, <2>1, AnsweredHook DEF Finish, Patching
<1>22. CASE PatchMain
  <2>1. /\ UNCHANGED <<before, obj, mcopy, pc, machine, controlPlane>>
        /\ pc \in Patching /\ step = "main" /\ step' = "status"
        /\ budget.misread => budget'.misread
    BY <1>22, SpendMisread DEF PatchMain, Sections, env
  <2>2. \/ api' = api
        \/ api'.exists = api.exists /\ api'.attached = api.attached
        \/ ~api'.exists /\ ~api'.attached
    BY <1>22, GoneType DEF PatchMain, MergeMain, TypeOK, Objects
  <2> QED
    BY <2>1, <2>2 DEF HookInv, HookPass, Patching
<1>23. ASSUME step = "status", StatusDiffers, api.exists,
              api' = MergeStatus(api)
       PROVE  ~budget.misread =>
                /\ api'.attached = obj.attached /\ api'.exists
                /\ obj.attached => machine.hook /\ controlPlane
  <2>1. api'.attached = Merged(before.attached, obj.attached, api.attached)
    BY <1>23 DEF MergeStatus, TypeOK, Objects
  <2>2. pc \in Patching /\ api'.exists
    BY <1>23, MergeStatusFields DEF Sections
  <2>3. obj.attached => pc \in Normal \/ budget.misread
    BY <1>23, <2>2 DEF HookInv, HookPass, Patching, Normal
  <2> QED
    BY <1>23, <2>1, <2>2, <2>3
       DEF HookInv, HookPass, FinInv, PassInv, Merged, Patching, Normal
<1>24. CASE PatchStatus
  <2>1. /\ step = "status" /\ pc \in Patching
        /\ UNCHANGED <<machine, controlPlane, budget>>
    BY <1>24 DEF PatchStatus, Sections, env
  <2>2. api.exists /\ ~budget.misread
          => /\ api'.attached = obj.attached /\ api'.exists
             /\ obj.attached => machine.hook /\ controlPlane
    <3>1. CASE StatusDiffers
      BY <1>23, <1>24, <2>1, <3>1 DEF PatchStatus
    <3>2. CASE ~StatusDiffers
      <4>1. before.attached = obj.attached
        BY <3>2 DEF StatusDiffers, MergeStatus, Merged, TypeOK, Objects
      <4> QED
        BY <1>24, <2>1, <3>2, <4>1
           DEF PatchStatus, HookInv, HookPass, Patching
    <3> QED
      BY <3>1, <3>2
  <2>3. ~api.exists => api' = api
    BY <1>24 DEF PatchStatus
  <2>4. CASE Following = "idle"
    BY <1>24, <2>1, <2>2, <2>3, <2>4, EndPassHook DEF PatchStatus, HookInv
  <2>5. CASE Following # "idle"
    <3>1. UNCHANGED <<obj, before, mcopy>> /\ step' = "work"
          /\ pc' = Following
      BY <1>24, <2>5 DEF PatchStatus
    <3>2. /\ Following \notin {"hook", "withdraw"}
          /\ Following \in {"unhook", "destroy", "finish"} =>
               pc \in {"withdraw", "destroy"}
      BY <2>1 DEF Following, After, Patching
    <3> QED
      BY <2>1, <2>2, <2>3, <3>1, <3>2 DEF HookInv, HookPass, Patching
  <2> QED
    BY <2>4, <2>5
<1>25. CASE PatchStatusFails
  <2>1. /\ step = "status" /\ pc \in Patching /\ EndPass
        /\ UNCHANGED <<machine, controlPlane>>
        /\ budget.misread => budget'.misread
    BY <1>25, SpendMisread DEF PatchStatusFails, Sections, Abort, env
  <2>2. CASE api' = api
    BY <2>1, <2>2, EndPassHook DEF HookInv
  <2>3. CASE StatusDiffers /\ api.exists /\ api' = MergeStatus(api)
    BY <1>23, <2>1, <2>3, EndPassHook
  <2> QED
    BY <1>25, <2>2, <2>3 DEF PatchStatusFails
<1>26. CASE UNCHANGED vars
  BY <1>26, OutsideHook DEF vars, env
<1> QED
  BY <1>1, <1>2, <1>3, <1>4, <1>5, <1>6, <1>7, <1>8, <1>9, <1>10, <1>11,
     <1>12, <1>13, <1>14, <1>15, <1>17, <1>18, <1>19, <1>20, <1>21, <1>22,
     <1>24, <1>25, <1>26
     DEF Next, Environment, ClusterAPI, PassStep

(* How the hook, what the object records of the route and what the pass    *)
(* knows of both fit together, with any kind of disturbance.               *)
THEOREM HookInvariant == Spec => []HookInv
  BY HookInit, HookStep, TypeCorrect, FinalizerInvariant, PTL DEF Spec

(* As long as what is read is fresh, nothing else that goes wrong, a crash *)
(* between the steps of the deletion or a failed half of a patch, takes    *)
(* the hook off while the floating group's entry is recorded.              *)
THEOREM HookBeforeRoute == Spec => []HookGuardsRoute
<1>1. HookInv => HookGuardsRoute
  BY DEF HookInv, HookGuardsRoute
<1> QED
  BY <1>1, HookInvariant, PTL

-----------------------------------------------------------------------------
(* What exists in WX-ONE, as long as only reads, logins and cloud calls    *)
(* fail                                                                    *)

Benign == {"read", "auth", "me", "call"}

(* What there is in WX-ONE, by the records of an object                    *)
CloudIs(o) ==
    /\ vms = IF o.instance = 0 THEN {} ELSE {o.instance}
    /\ routes = IF o.attached THEN {o.instance} ELSE {}

(* What the records promise: a route has an instance, the provider id is   *)
(* that of the instance, and what is announced ready serves.               *)
Serving(o) ==
    /\ o.attached => o.instance # 0
    /\ ~o.deleting => o.providerID = o.instance
    /\ ~o.deleting /\ o.ready => /\ o.instance \in running
                                 /\ controlPlane => o.attached

IdsInv == next > 0 /\ \A v \in vms : v > 0 /\ v < next

(* Between passes the object knows everything that exists, and without     *)
(* the finalizer there is nothing to know.                                 *)
IdleInv ==
    /\ pc = "idle" /\ api.exists => CloudIs(api) /\ Serving(api)
    /\ ~api.exists \/ ~api.fin => vms = {} /\ routes = {} /\ ~api.ready
    /\ failed => ~api.exists
    /\ ~budget.misread

(* In a pass its copy knows everything.  A normal pass only adds to what   *)
(* it has read, a pass that deletes only takes away.                       *)
CopyInv ==
    /\ CloudIs(obj) /\ Serving(obj)
    /\ obj.deleting = before.deleting
    /\ obj.deleting => /\ obj.providerID = before.providerID
                       /\ obj.ready = before.ready
                       /\ obj.instance \in {0, before.instance}
                       /\ obj.attached => before.attached
                       /\ ~obj.fin => obj.instance = 0
    /\ ~obj.deleting => /\ before.providerID = before.instance
                        /\ before.instance \in {0, obj.instance}
                        /\ before.attached => obj.attached
                        /\ before.ready => obj.ready

(* The object differs from the copy by what has not been patched yet.      *)
SyncInv ==
    api.exists =>
      /\ api.providerID \in {obj.providerID, before.providerID}
      /\ api.instance \in {obj.instance, before.instance}
      /\ api.attached \in {obj.attached, before.attached}
      /\ api.ready \in {obj.ready, before.ready}
      /\ step # "main" => api.providerID = obj.providerID
      /\ step = "work" => /\ api.instance = obj.instance
                          /\ api.attached = obj.attached
                          /\ api.ready = obj.ready
      /\ ~obj.deleting =>
           /\ api.instance # 0 => api.providerID = api.instance
           /\ obj.ready => /\ api.instance = obj.instance
                           /\ api.attached = obj.attached

(* What the sections before have achieved                                  *)
DoneInv ==
    /\ pc \in {"route", "running"} \/ (pc = "instance" /\ step # "work")
         => obj.instance # 0
    /\ pc = "running" \/ (pc = "route" /\ step # "work")
         => (controlPlane => obj.attached)

OwnInv == /\ IdsInv /\ IdleInv
          /\ pc # "idle" => CopyInv /\ SyncInv /\ DoneInv

(* None of the other disturbances happens, and nothing old is read. *)
LEMMA BenignSpend ==
    ASSUME Disturbances \subseteq Benign
    PROVE  /\ ~Spend("crash") /\ ~Spend("stale") /\ ~Spend("lost")
           /\ ~Spend("inband") /\ ~Spend("patch")
           /\ \A d : TypeOK /\ Spend(d) => budget'.misread = budget.misread
  BY DEF Spend, Benign, TypeOK, Budgets

(* A pass that ends with everything patched, or whose object is gone,      *)
(* loses nothing.                                                          *)
LEMMA EndPassOwn ==
    ASSUME TypeOK, FinInv, OwnInv, EndPass, pc # "idle",
           UNCHANGED <<controlPlane, vms, running, routes, next, api, cached>>,
           budget'.misread = budget.misread,
           ~api.exists \/ step = "work"
    PROVE  OwnInv'
<1>1. api.exists => CloudIs(api) /\ Serving(api)
  BY DEF FinInv, CacheInv, PassInv, OwnInv, CopyInv, SyncInv, CloudIs, Serving,
         TypeOK, Objects
<1>2. IdsInv' /\ IdleInv'
  BY <1>1 DEF OwnInv, IdsInv, IdleInv, EndPass, CloudIs, Serving
<1> QED
  BY <1>2 DEF OwnInv, EndPass

(* A step that only moves on, if the sections left have done their part.   *)
LEMMA MoveOwn ==
    ASSUME OwnInv, pc # "idle", pc' # "idle", step = "work",
           UNCHANGED <<controlPlane, vms, running, routes, next, api, obj,
                       before, step, failed>>,
           budget'.misread = budget.misread,
           DoneInv'
    PROVE  OwnInv'
<1>1. IdsInv' /\ IdleInv'
  BY DEF OwnInv, IdsInv, IdleInv
<1>2. CopyInv' /\ SyncInv'
  BY DEF OwnInv, CopyInv, SyncInv, CloudIs, Serving
<1> QED
  BY <1>1, <1>2 DEF OwnInv

(* Steps of others: they change the object's deletion timestamp at most,   *)
(* or let it go if it has no finalizer.                                    *)
LEMMA OutsideOwn ==
    ASSUME TypeOK, OwnInv,
           UNCHANGED <<controlPlane, pass, vms, routes, next>>,
           running \subseteq running', budget'.misread = budget.misread,
           \/ /\ api'.exists = api.exists /\ api'.fin = api.fin
              /\ api'.instance = api.instance /\ api'.attached = api.attached
              /\ api'.providerID = api.providerID /\ api'.ready = api.ready
              /\ api.deleting => api'.deleting
           \/ ~api.fin /\ ~api'.exists /\ ~api'.ready
    PROVE  OwnInv'
<1>1. IdsInv' /\ IdleInv'
  BY DEF OwnInv, IdsInv, IdleInv, CloudIs, Serving, pass
<1>2. pc' # "idle" => CopyInv' /\ DoneInv'
  BY DEF OwnInv, CopyInv, DoneInv, CloudIs, Serving, pass
<1>3. pc' # "idle" => SyncInv'
  BY DEF OwnInv, SyncInv, pass
<1> QED
  BY <1>1, <1>2, <1>3 DEF OwnInv

(* An answer that brings nothing into WX-ONE nor takes it out.             *)
LEMMA AnsweredOwn ==
    ASSUME TypeOK, OwnInv, NEW o, Answered(o), step = "work",
           pc \in Patching \ {"instance", "route"},
           UNCHANGED <<cloud, budget>>,
           o.deleting = obj.deleting, o.instance = obj.instance,
           o.providerID = obj.providerID, o.attached = obj.attached,
           o.ready = obj.ready, o.fin = obj.fin \/ obj.instance = 0
    PROVE  OwnInv'
<1>1. /\ UNCHANGED <<controlPlane, vms, running, routes, next, api, budget>>
      /\ UNCHANGED <<pc, before, failed>> /\ obj' = o /\ step' = "main"
      /\ pc # "idle"
  BY DEF Answered, env, cloud, Patching
<1>2. IdsInv' /\ IdleInv'
  BY <1>1 DEF OwnInv, IdsInv, IdleInv
<1>3. CopyInv'
  BY <1>1 DEF OwnInv, CopyInv, CloudIs, Serving
<1>4. SyncInv'
  BY <1>1 DEF OwnInv, SyncInv
<1>5. DoneInv'
  BY <1>1 DEF OwnInv, DoneInv
<1> QED
  BY <1>2, <1>3, <1>4, <1>5 DEF OwnInv

(* If only reads, logins and cloud calls fail, what exists in WX-ONE is    *)
(* exactly what the object records, or what the pass is about to record.   *)
THEOREM OwnershipInvariant ==
    ASSUME Disturbances \subseteq Benign
    PROVE  Spec => []OwnInv
<1>1. Init => OwnInv
  BY GoneType, NewObjectType
     DEF Init, OwnInv, IdsInv, IdleInv, CloudIs, Serving
<1>2. TypeOK /\ Sections /\ FinInv /\ HookInv /\ OwnInv /\ [Next]_vars
        => OwnInv'
  <2> SUFFICES ASSUME TypeOK, Sections, FinInv, HookInv, OwnInv, [Next]_vars
               PROVE  OwnInv'
    OBVIOUS
  <2>1. CASE SetOwner
    <3>1. /\ api'.exists = api.exists /\ api'.fin = api.fin
          /\ api'.instance = api.instance /\ api'.attached = api.attached
          /\ api'.providerID = api.providerID /\ api'.ready = api.ready
          /\ api'.deleting = api.deleting
      BY <2>1 DEF SetOwner, TypeOK, Objects
    <3> QED
      BY <2>1, <3>1, OutsideOwn DEF SetOwner, env, cloud
  <2>2. CASE InfraReady \/ Deliver \/ Resync \/ Boot \/ SetBootstrap
               \/ NodeJoins \/ DeleteMachine \/ Drain \/ RemoveMachine
               \/ StartFails
    <3>1. /\ UNCHANGED <<controlPlane, pass, vms, routes, next, api>>
          /\ running \subseteq running' /\ budget'.misread = budget.misread
      BY <2>2, BenignSpend
         DEF InfraReady, Deliver, Resync, Boot, SetBootstrap, NodeJoins,
             DeleteMachine, Drain, RemoveMachine, ChangeMachine, StartFails,
             env, cloud
    <3> QED
      BY <3>1, OutsideOwn
  <2>3. CASE DeleteInfra \/ DeleteDirect
    <3>1. /\ api' = Marked(api)
          /\ UNCHANGED <<controlPlane, pass, vms, running, routes, next,
                         budget>>
      BY <2>3 DEF DeleteInfra, DeleteDirect, env, cloud
    <3>2. \/ /\ api'.exists = api.exists /\ api'.fin = api.fin
             /\ api'.instance = api.instance /\ api'.attached = api.attached
             /\ api'.providerID = api.providerID /\ api'.ready = api.ready
             /\ api'.deleting
          \/ ~api.fin /\ ~api'.exists /\ ~api'.ready
      BY <3>1, GoneType DEF Marked, TypeOK, Objects
    <3> QED
      BY <3>1, <3>2, OutsideOwn
  <2>4. ~Crash /\ ~AnswerLost
    BY BenignSpend DEF Crash, AnswerLost
  <2>5. CASE Start
    <3>1. /\ Fresh /\ pc = "idle" /\ cached = api
          /\ UNCHANGED <<api, vms, running, routes, next, budget,
                         controlPlane>>
      BY <2>5, BenignSpend DEF Start, Fresh, cloud, env
    <3>2. CASE ~cached.exists \/ ~cached.owned
      BY <2>5, <3>1, <3>2, OutsideOwn DEF Start
    <3>3. CASE ~(~cached.exists \/ ~cached.owned)
      <4>1. /\ obj' = api /\ before' = api /\ failed' = failed
            /\ step' = "work" /\ pc' \in {"client", "hook"}
        BY <2>5, <3>1, <3>3 DEF Start, FirstSection, Sections, Patching
      <4>2. IdsInv' /\ IdleInv'
        BY <3>1, <4>1 DEF OwnInv, IdsInv, IdleInv
      <4>3. ~api.fin => api.instance = 0 /\ ~api.deleting
        BY <3>1, <3>3 DEF OwnInv, IdleInv, CloudIs, FinInv, CacheInv,
                          KeptByFin, TypeOK, Objects
      <4>4. CopyInv'
        BY <3>1, <3>3, <4>1, <4>3
           DEF OwnInv, IdleInv, CopyInv, CloudIs, Serving, TypeOK, Objects
      <4>5. SyncInv' /\ DoneInv'
        BY <3>1, <3>3, <4>1
           DEF OwnInv, IdleInv, Serving, SyncInv, DoneInv, TypeOK, Objects
      <4> QED
        BY <4>2, <4>4, <4>5 DEF OwnInv
    <3> QED
      BY <3>2, <3>3
  <2>6. CASE AddHook
    <3>1. /\ obj'.attached = obj.attached /\ obj'.deleting = obj.deleting
          /\ obj'.instance = obj.instance /\ obj'.ready = obj.ready
          /\ obj'.providerID = obj.providerID /\ obj'.fin
      BY <2>6 DEF AddHook, TypeOK, Objects
    <3>2. /\ UNCHANGED <<controlPlane, vms, running, routes, next, api, before,
                         failed, budget>>
          /\ pc = "hook" /\ pc' = "finalizer" /\ step' = "main"
          /\ step = "work"
      BY <2>6 DEF AddHook, env, cloud, Sections, Patching
    <3>3. IdsInv' /\ IdleInv'
      BY <3>2 DEF OwnInv, IdsInv, IdleInv
    <3>4. CopyInv'
      BY <3>1, <3>2 DEF OwnInv, CopyInv, CloudIs, Serving
    <3>5. SyncInv' /\ DoneInv'
      BY <3>1, <3>2 DEF OwnInv, SyncInv, DoneInv
    <3> QED
      BY <3>3, <3>4, <3>5 DEF OwnInv
  <2>7. CASE RemoveHook \/ UpdateFails \/ GetClientFails \/ StopAtGate
               \/ GetOwnerMachineFails \/ CallFails
    <3>1. /\ EndPass /\ pc # "idle" /\ step = "work"
          /\ UNCHANGED <<controlPlane, vms, running, routes, next, api,
                         cached>>
          /\ budget'.misread = budget.misread
      BY <2>7, BenignSpend
         DEF RemoveHook, UpdateFails, GetClientFails, StopAtGate,
             GetOwnerMachineFails, CallFails, CallDue, Abort, env, cloud,
             Sections, Patching
    <3> QED
      BY <3>1, EndPassOwn
  <2>8. CASE GetClient \/ PassGate \/ GetOwnerMachine
    <3>1. /\ pc # "idle" /\ step = "work"
          /\ pc' \in {"owner", "gate", "flavor", "withdraw"}
          /\ UNCHANGED <<controlPlane, vms, running, routes, next, api, obj,
                         before, step, failed>>
          /\ budget'.misread = budget.misread
      BY <2>8, BenignSpend
         DEF GetClient, PassGate, GetOwnerMachine, After, env, cloud,
             Sections, Patching
    <3>2. DoneInv'
      BY <3>1 DEF DoneInv
    <3> QED
      BY <3>1, <3>2, MoveOwn
  <2>9. CASE SkipSection
    <3>1. /\ step = "work" /\ ~CallDue /\ pc' = Following
          /\ pc \in {"flavor", "image", "instance", "route", "withdraw",
                     "destroy"}
          /\ UNCHANGED <<controlPlane, vms, running, routes, next, api, obj,
                         before, step, failed, budget>>
      BY <2>9 DEF SkipSection, env, cloud
    <3>2. /\ Following # "idle"
          /\ Following = "route" => pc = "instance"
          /\ Following = "running" => pc = "route"
      BY <3>1 DEF Following, After
    <3>3. pc = "instance" => obj.instance # 0
      BY <3>1 DEF CallDue, FinInv, PassInv, Normal, None, TypeOK, Objects
    <3>4. DoneInv'
      BY <3>1, <3>2, <3>3 DEF OwnInv, DoneInv, CallDue, None
    <3> QED
      BY <3>1, <3>2, <3>4, MoveOwn
  <2>10. CASE LookUp
    <3>1. ASSUME NEW o \in {[obj EXCEPT !.flavor = TRUE],
                            [obj EXCEPT !.image = TRUE]}
          PROVE  /\ o.deleting = obj.deleting /\ o.instance = obj.instance
                 /\ o.providerID = obj.providerID
                 /\ o.attached = obj.attached
                 /\ o.ready = obj.ready /\ o.fin = obj.fin
      BY DEF TypeOK, Objects
    <3> QED
      BY <2>10, <3>1, AnsweredOwn DEF LookUp, CallDue, Patching
  <2>11. CASE CreateInstance
    <3>1. /\ Answered(Launched(obj, next))
          /\ UNCHANGED <<budget, running, routes>>
          /\ vms' = vms \cup {next} /\ next' = next + 1
          /\ pc = "instance" /\ step = "work" /\ CallDue
      BY <2>4, <2>11 DEF CreateInstance, CallDue
    <3>2. /\ obj'.attached = obj.attached /\ obj'.deleting = obj.deleting
          /\ obj'.instance = next /\ obj'.providerID = next
          /\ obj'.ready = obj.ready /\ obj'.fin = obj.fin
      BY <3>1 DEF Answered, Launched, TypeOK, Objects
    <3>3. /\ UNCHANGED <<controlPlane, api, before, failed, pc>>
          /\ step' = "main"
      BY <3>1 DEF Answered, env
    <3>4. ~obj.deleting /\ obj.instance = 0 /\ api.exists /\ api.fin
      BY <3>1 DEF CallDue, None, FinInv, PassInv, Normal, Guarded, TypeOK,
                  Objects
    <3>5. vms = {} /\ ~obj.attached /\ ~obj.ready
      BY <3>1, <3>4 DEF OwnInv, CopyInv, CloudIs, Serving, TypeOK
    <3>6. next \in Nat /\ next > 0
      BY DEF TypeOK, OwnInv, IdsInv
    <3>7. IdsInv' /\ IdleInv'
      BY <3>1, <3>3, <3>4, <3>5, <3>6 DEF OwnInv, IdsInv, IdleInv
    <3>8. CopyInv'
      BY <3>1, <3>2, <3>3, <3>4, <3>5, <3>6
         DEF OwnInv, CopyInv, CloudIs, Serving
    <3>9. SyncInv'
      BY <3>1, <3>2, <3>3, <3>4, <3>5
         DEF OwnInv, CopyInv, SyncInv, Serving, TypeOK, Objects
    <3>10. DoneInv'
      BY <3>1, <3>2, <3>3, <3>6 DEF OwnInv, DoneInv
    <3> QED
      BY <3>7, <3>8, <3>9, <3>10 DEF OwnInv
  <2>12. CASE Attach
    <3>1. /\ Answered([obj EXCEPT !.attached = TRUE])
          /\ UNCHANGED <<budget, vms, running, next>>
          /\ routes' = routes \cup {obj.instance}
          /\ pc = "route" /\ step = "work" /\ CallDue
      BY <2>4, <2>12 DEF Attach, CallDue
    <3>2. /\ obj'.attached /\ obj'.deleting = obj.deleting
          /\ obj'.instance = obj.instance /\ obj'.ready = obj.ready
          /\ obj'.providerID = obj.providerID /\ obj'.fin = obj.fin
      BY <3>1 DEF Answered, TypeOK, Objects
    <3>3. /\ UNCHANGED <<controlPlane, api, before, failed, pc>>
          /\ step' = "main"
      BY <3>1 DEF Answered, env
    <3>4. /\ ~obj.deleting /\ obj.instance # 0 /\ ~obj.attached
          /\ controlPlane /\ api.exists /\ api.fin
      BY <3>1 DEF CallDue, None, FinInv, PassInv, Normal, Guarded
    <3>5. routes = {} /\ ~obj.ready
      BY <3>1, <3>4 DEF OwnInv, CopyInv, CloudIs, Serving
    <3>6. IdsInv' /\ IdleInv'
      BY <3>1, <3>3, <3>4 DEF OwnInv, IdsInv, IdleInv
    <3>7. CopyInv'
      BY <3>1, <3>2, <3>3, <3>4, <3>5 DEF OwnInv, CopyInv, CloudIs, Serving
    <3>8. SyncInv'
      BY <3>1, <3>2, <3>3, <3>4, <3>5
         DEF OwnInv, CopyInv, SyncInv, TypeOK, Objects
    <3>9. DoneInv'
      BY <3>1, <3>2, <3>3 DEF OwnInv, DoneInv
    <3> QED
      BY <3>6, <3>7, <3>8, <3>9 DEF OwnInv
  <2>13. CASE CheckRunning
    <3>1. /\ pc = "running" /\ step = "work"
          /\ UNCHANGED <<vms, running, routes, next, budget>>
      BY <2>13 DEF CheckRunning, CallDue, cloud
    <3>2. CASE Answered([obj EXCEPT !.ready = TRUE])
      <4>1. obj.instance \in running
        BY <2>13, <3>2 DEF CheckRunning, Answered, Abort, EndPass
      <4>2. /\ obj'.attached = obj.attached /\ obj'.deleting = obj.deleting
            /\ obj'.instance = obj.instance /\ obj'.ready
            /\ obj'.providerID = obj.providerID /\ obj'.fin = obj.fin
        BY <3>2 DEF Answered, TypeOK, Objects
      <4>3. /\ UNCHANGED <<controlPlane, api, before, failed, pc>>
            /\ step' = "main"
        BY <3>2 DEF Answered, env
      <4>4. ~obj.deleting /\ (controlPlane => obj.attached)
        BY <3>1 DEF FinInv, PassInv, Normal, OwnInv, DoneInv
      <4>5. IdsInv' /\ IdleInv'
        BY <3>1, <4>3 DEF OwnInv, IdsInv, IdleInv
      <4>6. CopyInv'
        BY <3>1, <4>1, <4>2, <4>3, <4>4
           DEF OwnInv, CopyInv, CloudIs, Serving
      <4>7. SyncInv'
        BY <3>1, <4>2, <4>3, <4>4
           DEF OwnInv, CopyInv, SyncInv, TypeOK, Objects
      <4>8. DoneInv'
        BY <3>1, <4>2, <4>3 DEF OwnInv, DoneInv
      <4> QED
        BY <4>5, <4>6, <4>7, <4>8 DEF OwnInv
    <3>3. CASE Abort /\ UNCHANGED <<env, api, cached, machine, mcached>>
      BY <3>1, <3>3, EndPassOwn DEF Abort, env
    <3> QED
      BY <2>13, <3>2, <3>3 DEF CheckRunning
  <2>14. CASE Withdraw
    <3>1. pc = "withdraw" /\ step = "work" /\ obj.attached
      BY <2>14 DEF Withdraw, CallDue
    <3>2. obj.instance # 0 /\ routes = {obj.instance} /\ api.exists
      BY <3>1 DEF OwnInv, IdleInv, CopyInv, CloudIs, Serving
    <3>3. mcopy.hook
      BY <3>1, <3>2 DEF HookInv, HookPass, OwnInv, IdleInv
    <3>4. /\ Answered([obj EXCEPT !.attached = FALSE])
          /\ UNCHANGED <<budget, vms, running, next>> /\ routes' = {}
      BY <2>4, <2>14, <3>2, <3>3, BenignSpend DEF Withdraw
    <3>5. /\ ~obj'.attached /\ obj'.deleting = obj.deleting
          /\ obj'.instance = obj.instance /\ obj'.ready = obj.ready
          /\ obj'.providerID = obj.providerID /\ obj'.fin = obj.fin
      BY <3>4 DEF Answered, TypeOK, Objects
    <3>6. /\ UNCHANGED <<controlPlane, api, before, failed, pc>>
          /\ step' = "main"
      BY <3>4 DEF Answered, env
    <3>7. obj.deleting
      BY <3>1 DEF FinInv, PassInv, Deleting
    <3>8. IdsInv' /\ IdleInv'
      BY <3>1, <3>4, <3>6 DEF OwnInv, IdsInv, IdleInv
    <3>9. CopyInv'
      BY <3>1, <3>4, <3>5, <3>6, <3>7 DEF OwnInv, CopyInv, CloudIs, Serving
    <3>10. SyncInv' /\ DoneInv'
      BY <3>1, <3>4, <3>5, <3>6, <3>7
         DEF OwnInv, CopyInv, SyncInv, DoneInv, TypeOK, Objects
    <3> QED
      BY <3>8, <3>9, <3>10 DEF OwnInv
  <2>15. CASE Destroy
    <3>1. pc = "destroy" /\ step = "work" /\ obj.deleting /\ obj.instance # 0
      BY <2>15 DEF Destroy, CallDue, None, FinInv, PassInv, Deleting
    <3>2. vms = {obj.instance} /\ api.exists
      BY <3>1 DEF OwnInv, IdleInv, CopyInv, CloudIs
    <3>3. ~obj.attached /\ routes = {}
      BY <3>1, <3>2
         DEF HookInv, HookPass, OwnInv, IdleInv, CopyInv, CloudIs
    <3>4. /\ Answered([obj EXCEPT !.instance = None])
          /\ UNCHANGED <<budget, routes, next>> /\ vms' = {}
      BY <2>4, <2>15, <3>2, BenignSpend DEF Destroy
    <3>5. /\ obj'.attached = obj.attached /\ obj'.deleting = obj.deleting
          /\ obj'.instance = 0 /\ obj'.ready = obj.ready
          /\ obj'.providerID = obj.providerID /\ obj'.fin = obj.fin
      BY <3>3, <3>4 DEF Answered, TypeOK, Objects, None
    <3>6. /\ UNCHANGED <<controlPlane, api, before, failed, pc>>
          /\ step' = "main"
      BY <3>4 DEF Answered, env
    <3>7. IdsInv' /\ IdleInv'
      BY <3>1, <3>4, <3>6 DEF OwnInv, IdsInv, IdleInv
    <3>8. CopyInv'
      BY <3>1, <3>3, <3>4, <3>5, <3>6 DEF OwnInv, CopyInv, CloudIs, Serving
    <3>9. SyncInv'
      BY <3>1, <3>3, <3>5, <3>6
         DEF OwnInv, CopyInv, SyncInv, TypeOK, Objects
    <3>10. DoneInv'
      BY <3>1, <3>5, <3>6 DEF OwnInv, DoneInv
    <3> QED
      BY <3>7, <3>8, <3>9, <3>10 DEF OwnInv
  <2>16. CASE Finish
    <3>1. /\ [obj EXCEPT !.fin = FALSE].deleting = obj.deleting
          /\ [obj EXCEPT !.fin = FALSE].instance = obj.instance
          /\ [obj EXCEPT !.fin = FALSE].providerID = obj.providerID
          /\ [obj EXCEPT !.fin = FALSE].attached = obj.attached
          /\ [obj EXCEPT !.fin = FALSE].ready = obj.ready
      BY DEF TypeOK, Objects
    <3> QED
      BY <2>16, <3>1, AnsweredOwn DEF Finish, Patching, None
  <2>17. CASE PatchMain
    <3>1. /\ UNCHANGED <<controlPlane, vms, running, routes, next, before, obj,
                         pc>>
          /\ pc \in Patching /\ step = "main" /\ step' = "status"
          /\ budget'.misread = budget.misread /\ pc # "idle"
      BY <2>17, BenignSpend DEF PatchMain, Sections, Patching, env, cloud
    <3>2. IdsInv' /\ CopyInv' /\ DoneInv'
      BY <3>1
         DEF OwnInv, IdsInv, CopyInv, DoneInv, CloudIs, Serving
    <3>3. CASE api' = MergeMain(api) /\ api.exists /\ failed' = failed
      <4>1. CASE /\ MergeMain(api) = Gone /\ api.deleting
                 /\ before.fin /\ ~obj.fin
        <5>1. obj.deleting
          BY <3>1, <4>1 DEF FinInv, PassInv, Patching
        <5>2. vms = {} /\ routes = {}
          BY <3>1, <5>1, <4>1 DEF OwnInv, CopyInv, CloudIs, Serving
        <5>3. IdleInv' /\ SyncInv'
          BY <3>1, <3>3, <4>1, <5>2, GoneType DEF OwnInv, IdleInv, SyncInv
        <5> QED
          BY <3>1, <3>2, <5>3 DEF OwnInv
      <4>2. CASE MergeMain(api) # Gone
        <5>1. /\ api'.exists = api.exists /\ api'.instance = api.instance
              /\ api'.attached = api.attached /\ api'.ready = api.ready
              /\ api'.providerID = Merged(before.providerID, obj.providerID,
                                          api.providerID)
          BY <3>3, <4>2 DEF MergeMain, TypeOK, Objects
        <5>2. /\ api'.fin = Merged(before.fin, obj.fin, api.fin)
              /\ api.deleting => api'.fin
          BY <3>3, <4>2, MergeMainFields DEF FinInv, CacheInv
        <5>3. api.fin => api'.fin
          BY <3>1, <3>3, <5>2
             DEF Merged, FinInv, CacheInv, PassInv, TypeOK, Objects, Patching
        <5>4. api'.providerID = obj.providerID
          BY <3>1, <3>3, <5>1 DEF Merged, OwnInv, SyncInv
        <5>5. IdleInv'
          BY <3>1, <3>3, <5>1, <5>3 DEF OwnInv, IdleInv
        <5>6. SyncInv'
          BY <3>1, <3>3, <5>1, <5>4 DEF OwnInv, SyncInv, CopyInv, Serving
        <5> QED
          BY <3>1, <3>2, <5>5, <5>6 DEF OwnInv
      <4> QED
        BY <3>3, <4>1, <4>2, MergeMainFields, GoneType DEF FinInv, CacheInv
    <3>4. CASE api' = api /\ ~MainDiffers /\ failed' = failed
      <4>1. before.providerID = obj.providerID
        <5>1. MergeMain(before) = before
          BY <3>4 DEF MainDiffers
        <5>2. before # Gone => before.providerID = obj.providerID
          BY <5>1 DEF MergeMain, Merged, TypeOK, Objects
        <5>3. before = Gone => before.providerID = obj.providerID
          BY <5>1, GoneType DEF MergeMain, Merged, TypeOK, Objects
        <5> QED
          BY <5>2, <5>3
      <4>2. IdleInv' /\ SyncInv'
        BY <3>1, <3>4, <4>1 DEF OwnInv, IdleInv, SyncInv
      <4> QED
        BY <3>1, <3>2, <4>2 DEF OwnInv
    <3>5. CASE api' = api /\ ~api.exists
      BY <3>1, <3>2, <3>5 DEF OwnInv, IdleInv, SyncInv
    <3> QED
      BY <2>17, <3>3, <3>4, <3>5, BenignSpend, GoneType DEF PatchMain
  <2>18. CASE PatchStatus
    <3>1. /\ UNCHANGED <<controlPlane, vms, running, routes, next, budget,
                         cached>>
          /\ pc \in Patching /\ step = "status" /\ ~failed /\ pc # "idle"
      BY <2>18 DEF PatchStatus, Sections, Patching, env, cloud
    <3>2. /\ api'.exists = api.exists /\ api'.fin = api.fin
          /\ api'.deleting = api.deleting
          /\ api'.providerID = api.providerID
      BY <2>18, MergeStatusFields DEF PatchStatus
    <3>3. ~api.exists => api' = api
      BY <2>18 DEF PatchStatus
    <3>4. ASSUME api.exists
          PROVE  /\ api'.instance = obj.instance
                 /\ api'.attached = obj.attached /\ api'.ready = obj.ready
      <4>1. CASE StatusDiffers
        <5>1. /\ api'.instance = Merged(before.instance, obj.instance,
                                        api.instance)
              /\ api'.attached = Merged(before.attached, obj.attached,
                                        api.attached)
              /\ api'.ready = Merged(before.ready, obj.ready, api.ready)
          BY <2>18, <3>4, <4>1 DEF PatchStatus, MergeStatus, TypeOK, Objects
        <5> QED
          BY <3>1, <3>4, <5>1 DEF Merged, OwnInv, SyncInv
      <4>2. CASE ~StatusDiffers
        <5>1. /\ before.instance = obj.instance
              /\ before.attached = obj.attached /\ before.ready = obj.ready
          BY <4>2 DEF StatusDiffers, MergeStatus, Merged, TypeOK, Objects
        <5>2. api' = api
          BY <2>18, <4>2 DEF PatchStatus
        <5> QED
          BY <3>1, <3>4, <5>1, <5>2 DEF OwnInv, SyncInv
      <4> QED
        BY <4>1, <4>2
    <3>5. api.exists => api.fin
      <4>1. obj.deleting => ~api.exists \/ (api.deleting /\ api.fin)
        BY <3>1 DEF FinInv, CacheInv, PassInv, KeptByFin
      <4>2. ~obj.deleting => api.fin
        BY <3>1 DEF FinInv, PassInv, Guarded
      <4> QED
        BY <4>1, <4>2
    <3>6. IdsInv' /\ (pc' # "idle" => failed' = failed)
      BY <2>18, <3>1 DEF PatchStatus, OwnInv, IdsInv, EndPass
    <3>7. api.exists => (CloudIs(api) /\ Serving(api))'
      <4>1. obj.deleting => ~api.exists \/ api.deleting
        BY <3>1 DEF FinInv, CacheInv, PassInv
      <4> QED
        BY <3>1, <3>2, <3>4, <4>1
           DEF OwnInv, CopyInv, SyncInv, CloudIs, Serving
    <3>8. IdleInv'
      <4>1. failed' => ~api'.exists
        BY <2>18, <3>1 DEF PatchStatus, EndPass
      <4> QED
        BY <3>1, <3>2, <3>3, <3>5, <3>7, <4>1 DEF OwnInv, IdleInv
    <3>9. CASE Following = "idle"
      BY <2>18, <3>6, <3>8, <3>9 DEF PatchStatus, EndPass, OwnInv
    <3>10. CASE Following # "idle"
      <4>1. /\ UNCHANGED <<obj, before>> /\ step' = "work"
            /\ pc' = Following
        BY <2>18, <3>10 DEF PatchStatus
      <4>2. CopyInv'
        BY <3>1, <4>1 DEF OwnInv, CopyInv, CloudIs, Serving
      <4>3. SyncInv'
        BY <3>1, <3>2, <3>4, <4>1 DEF OwnInv, CopyInv, SyncInv, Serving
      <4>4. /\ Following = "route" => pc = "instance"
            /\ Following = "running" => pc = "route"
            /\ Following # "instance" \/ step' = "work"
        BY <3>1, <4>1 DEF Following, After, Patching
      <4>5. DoneInv'
        BY <3>1, <4>1, <4>4 DEF OwnInv, DoneInv
      <4> QED
        BY <3>6, <3>8, <4>2, <4>3, <4>5 DEF OwnInv
    <3> QED
      BY <3>9, <3>10
  <2>19. CASE PatchStatusFails
    <3>1. ~api.exists
      BY <2>19, BenignSpend DEF PatchStatusFails, OwnInv, IdleInv
    <3>2. pc # "idle" /\ budget' = budget /\ api' = api
      BY <2>19, <3>1, BenignSpend DEF PatchStatusFails, Sections, Patching
    <3> QED
      BY <2>19, <3>1, <3>2, EndPassOwn DEF PatchStatusFails, Abort, env, cloud
  <2>20. CASE UNCHANGED vars
    BY <2>20, OutsideOwn DEF vars, env, cloud
  <2> QED
    BY <2>1, <2>2, <2>3, <2>4, <2>5, <2>6, <2>7, <2>8, <2>9, <2>10, <2>11,
       <2>12, <2>13, <2>14, <2>15, <2>16, <2>17, <2>18, <2>19, <2>20
       DEF Next, Environment, ClusterAPI, PassStep
<1> QED
  BY <1>1, <1>2, TypeCorrect, FinalizerInvariant, HookInvariant, PTL DEF Spec

(* Failing reads, logins and cloud calls leave nothing behind: no instance *)
(* that nobody knows, and no traffic for one that was deleted.             *)
THEOREM NothingOrphaned ==
    ASSUME Disturbances \subseteq Benign
    PROVE  Spec => []NothingLeftBehind
<1>1. TypeOK /\ OwnInv => NothingLeftBehind
  BY DEF OwnInv, IdleInv, CopyInv, CloudIs, Serving, NothingLeftBehind,
         LeftBehind, TypeOK, Objects
<1> QED
  BY <1>1, OwnershipInvariant, TypeCorrect, PTL

(* A machine that is announced ready serves: also in the middle of a pass, *)
(* with any part of it patched.                                            *)
THEOREM ReadyServes ==
    ASSUME Disturbances \subseteq Benign
    PROVE  Spec => []ReadyIsServing
<1>1. TypeOK /\ FinInv /\ OwnInv => ReadyIsServing
  <2> SUFFICES ASSUME TypeOK, FinInv, OwnInv, api.ready, ~api.deleting
               PROVE  /\ api.instance \in running
                      /\ api.providerID = api.instance
                      /\ controlPlane => api.instance \in routes
    BY DEF ReadyIsServing
  <2>1. api.exists
    BY DEF OwnInv, IdleInv
  <2>2. CASE pc = "idle"
    BY <2>1, <2>2 DEF OwnInv, IdleInv, CloudIs, Serving
  <2>3. CASE pc # "idle"
    <3>1. ~obj.deleting
      BY <2>1, <2>3 DEF FinInv, CacheInv, PassInv
    <3>2. obj.ready
      BY <2>1, <2>3, <3>1 DEF OwnInv, CopyInv, SyncInv, TypeOK, Objects
    <3>3. /\ obj.instance \in running
          /\ controlPlane => obj.attached
      BY <2>3, <3>1, <3>2 DEF OwnInv, CopyInv, Serving
    <3>4. api.instance = obj.instance /\ api.attached = obj.attached
      BY <2>1, <2>3, <3>1, <3>2 DEF OwnInv, SyncInv
    <3>5. obj.instance # 0
      BY <2>3, <3>3 DEF OwnInv, CopyInv, CloudIs, TypeOK
    <3> QED
      BY <2>1, <2>3, <3>1, <3>2, <3>3, <3>4, <3>5
         DEF OwnInv, CopyInv, SyncInv, CloudIs, Serving
  <2> QED
    BY <2>2, <2>3
<1> QED
  BY <1>1, OwnershipInvariant, FinalizerInvariant, TypeCorrect, PTL

(* Only a deletion takes an instance away, and only while the object, its  *)
(* finalizer and the instance are there.                                   *)
LEMMA DestroyFacts ==
    ASSUME Disturbances \subseteq Benign, TypeOK, FinInv, HookInv, OwnInv,
           Destroy
    PROVE  /\ api.exists /\ api.fin /\ api.deleting
           /\ vms' = {} /\ routes = {} /\ routes' = {}
           /\ UNCHANGED <<controlPlane, api>>
<1>1. pc = "destroy" /\ obj.deleting /\ obj.instance # 0
  BY DEF Destroy, CallDue, None, FinInv, PassInv, Deleting
<1>2. vms = {obj.instance} /\ api.exists /\ api.fin
  BY <1>1 DEF OwnInv, IdleInv, CopyInv, CloudIs
<1>3. api.deleting
  BY <1>1, <1>2 DEF FinInv, CacheInv, PassInv
<1>4. routes = {}
  BY <1>1, <1>2 DEF HookInv, HookPass, OwnInv, IdleInv, CopyInv, CloudIs
<1>5. vms' = {} /\ routes' = routes /\ UNCHANGED <<controlPlane, api>>
  BY <1>2, BenignSpend DEF Destroy, Answered, AnswerLost, env
<1> QED
  BY <1>2, <1>3, <1>4, <1>5

(* Traffic of the control plane is withdrawn from an instance before it is *)
(* deleted, however many calls fail on the way.                            *)
THEOREM WithdrawnFirst ==
    ASSUME Disturbances \subseteq Benign
    PROVE  Spec => RouteWithdrawnFirst
<1>1. TypeOK /\ FinInv /\ HookInv /\ OwnInv /\ [Next]_vars
        => [routes' \cap (vms \ vms') = {}]_vars
  <2> SUFFICES ASSUME TypeOK, FinInv, HookInv, OwnInv, [Next]_vars
               PROVE  routes' \cap (vms \ vms') = {}
    OBVIOUS
  <2>1. CASE Destroy
    BY <2>1, DestroyFacts
  <2>2. CASE CreateInstance \/ Attach \/ Withdraw \/ Boot
    BY <2>2 DEF CreateInstance, Attach, Withdraw, Boot
  <2>3. CASE UNCHANGED vars \/ Start \/ StartFails \/ SetOwner \/ InfraReady
               \/ SetBootstrap \/ NodeJoins \/ Drain \/ DeleteInfra
               \/ RemoveMachine \/ DeleteMachine \/ DeleteDirect \/ Deliver
               \/ Resync \/ Crash
    BY <2>3 DEF vars, cloud, Start, StartFails, SetOwner, InfraReady,
                SetBootstrap, NodeJoins, Drain, DeleteInfra, RemoveMachine,
                DeleteMachine, DeleteDirect, ChangeMachine, Deliver, Resync,
                Crash
  <2>4. CASE AddHook \/ RemoveHook \/ UpdateFails \/ GetClient
               \/ GetClientFails \/ PassGate \/ StopAtGate \/ GetOwnerMachine
               \/ GetOwnerMachineFails \/ SkipSection \/ LookUp \/ CallFails
               \/ CheckRunning \/ Finish \/ PatchMain \/ PatchStatus
               \/ PatchStatusFails
    BY <2>4 DEF cloud, AddHook, RemoveHook, UpdateFails, GetClient,
                GetClientFails, PassGate, StopAtGate, GetOwnerMachine,
                GetOwnerMachineFails, SkipSection, LookUp, CallFails,
                CheckRunning, Finish, PatchMain, PatchStatus, PatchStatusFails
  <2> QED
    BY <2>1, <2>2, <2>3, <2>4 DEF Next, Environment, ClusterAPI, PassStep
<1> QED
  BY <1>1, OwnershipInvariant, HookInvariant, FinalizerInvariant, TypeCorrect,
     PTL DEF Spec, RouteWithdrawnFirst

(* A provider id that is written is final. *)
THEOREM ProviderIDFinal ==
    ASSUME Disturbances \subseteq Benign
    PROVE  Spec => ProviderIDStable
<1>1. TypeOK /\ Sections /\ FinInv /\ OwnInv /\ [Next]_vars
        => [api.providerID # None /\ api'.exists
              => api'.providerID = api.providerID]_vars
  <2> SUFFICES ASSUME TypeOK, Sections, FinInv, OwnInv, [Next]_vars,
                      api.providerID # 0, api'.exists
               PROVE  api'.providerID = api.providerID
    BY DEF None
  <2>1. CASE PatchMain
    <3>1. \/ api' = api
          \/ /\ api' = MergeMain(api) /\ api' # Gone /\ api.exists
      BY <2>1, GoneType DEF PatchMain, MergeMain, TypeOK, Objects
    <3>2. CASE api' = MergeMain(api) /\ api' # Gone /\ api.exists
      <4>1. api'.providerID = Merged(before.providerID, obj.providerID,
                                     api.providerID)
        BY <3>2 DEF MergeMain, TypeOK, Objects
      <4>2. pc # "idle"
        BY <2>1 DEF PatchMain, Sections, Patching
      <4>3. obj.providerID # before.providerID => before.providerID = 0
        BY <4>2 DEF OwnInv, CopyInv, Serving
      <4> QED
        BY <3>2, <4>1, <4>2, <4>3 DEF Merged, OwnInv, SyncInv
    <3> QED
      BY <3>1, <3>2
  <2>2. CASE PatchStatus \/ PatchStatusFails
    BY <2>2, MergeStatusFields DEF PatchStatus, PatchStatusFails
  <2>3. CASE SetOwner \/ DeleteInfra \/ DeleteDirect
    BY <2>3, GoneType
       DEF SetOwner, DeleteInfra, DeleteDirect, Marked, TypeOK, Objects
  <2>4. CASE UNCHANGED vars \/ Start \/ StartFails \/ InfraReady
               \/ SetBootstrap \/ NodeJoins \/ Drain \/ RemoveMachine
               \/ DeleteMachine \/ Deliver \/ Resync \/ Crash \/ Boot
    BY <2>4 DEF vars, Start, StartFails, InfraReady, SetBootstrap, NodeJoins,
                Drain, RemoveMachine, DeleteMachine, ChangeMachine, Deliver,
                Resync, Crash, Boot
  <2>5. CASE AddHook \/ RemoveHook \/ UpdateFails \/ GetClient
               \/ GetClientFails \/ PassGate \/ StopAtGate \/ GetOwnerMachine
               \/ GetOwnerMachineFails \/ SkipSection \/ LookUp \/ CallFails
               \/ CheckRunning \/ Finish \/ CreateInstance \/ Attach
               \/ Withdraw \/ Destroy
    BY <2>5 DEF AddHook, RemoveHook, UpdateFails, GetClient, GetClientFails,
                PassGate, StopAtGate, GetOwnerMachine, GetOwnerMachineFails,
                SkipSection, LookUp, CallFails, CheckRunning, Finish,
                CreateInstance, Attach, Withdraw, Destroy, Answered,
                AnswerLost
  <2> QED
    BY <2>1, <2>2, <2>3, <2>4, <2>5 DEF Next, Environment, ClusterAPI, PassStep
<1> QED
  BY <1>1, OwnershipInvariant, FinalizerInvariant, TypeCorrect, PTL
     DEF Spec, ProviderIDStable

-----------------------------------------------------------------------------
(* The reconciler implements ResourceLifecycle. *)

Phase(o) == IF ~o.exists THEN "gone"
            ELSE IF ~o.fin THEN "open"
            ELSE IF o.deleting THEN "leaving" ELSE "guarded"

(* What no part of the abstract state shows is a stutter. *)
LEMMA LifecycleStutter ==
    ASSUME UNCHANGED <<controlPlane, vms, routes>>,
           Phase(api') = Phase(api), api'.ready = api.ready
    PROVE  UNCHANGED Lifecycle!vars
  BY DEF Lifecycle!vars, Phase

(* A deletion is asked for: it marks the object, or lets it go. *)
LEMMA LifecycleMarked ==
    ASSUME TypeOK, OwnInv, api.exists, ~api.deleting, api' = Marked(api),
           UNCHANGED <<controlPlane, vms, routes>>
    PROVE  Lifecycle!Next
<1>1. CASE api.fin
  <2>1. /\ Phase(api) = "guarded" /\ Phase(api') = "leaving"
        /\ api'.ready = api.ready
    BY <1>1 DEF Marked, Phase, TypeOK, Objects
  <2> QED
    BY <2>1 DEF Lifecycle!Next, Lifecycle!Leave, Phase
<1>2. CASE ~api.fin
  <2>1. /\ Phase(api) = "open" /\ Phase(api') = "gone"
        /\ api'.ready = api.ready
    BY <1>2, GoneType
       DEF Marked, Phase, OwnInv, IdleInv, TypeOK, Objects, Gone, NewObject
  <2> QED
    BY <2>1 DEF Lifecycle!Next, Lifecycle!Drop, Phase
<1> QED
  BY <1>1, <1>2
(* A resource appears under the finalizer, or goes during the deletion. *)
LEMMA LifecycleHeld ==
    ASSUME api.exists, api.fin, UNCHANGED <<controlPlane, api>>,
           \/ vms = {} /\ UNCHANGED routes /\ \E v \in vms' : vms' = {v}
           \/ /\ controlPlane
              /\ routes = {} /\ UNCHANGED vms
              /\ \E r \in routes' : routes' = {r}
           \/ api.deleting /\ vms' = {} /\ UNCHANGED routes
           \/ api.deleting /\ controlPlane /\ routes' = {} /\ UNCHANGED vms
    PROVE  Lifecycle!Next
<1> DEFINE Kind == {"instance", "route"}
           held == [k \in Kind |-> IF k = "instance" THEN vms ELSE routes]
           heldNext == [k \in Kind |-> IF k = "instance" THEN vms'
                                                         ELSE routes']
<1>1. /\ held["instance"] = vms /\ held["route"] = routes
      /\ heldNext["instance"] = vms' /\ heldNext["route"] = routes'
  OBVIOUS
<1>2. ASSUME NEW s, vms' = s, UNCHANGED routes
      PROVE  heldNext = [held EXCEPT !["instance"] = s]
  BY <1>2
<1>3. ASSUME NEW s, routes' = s, UNCHANGED vms
      PROVE  heldNext = [held EXCEPT !["route"] = s]
  BY <1>3
<1>4. CASE vms = {} /\ UNCHANGED routes /\ \E v \in vms' : vms' = {v}
  <2>1. PICK v \in vms' : vms' = {v}
    BY <1>4
  <2>2. heldNext = [held EXCEPT !["instance"] = {v}]
    BY <1>4, <2>1, <1>2
  <2>3. Lifecycle!Acquire("instance")
    BY <1>1, <1>4, <2>1, <2>2 DEF Lifecycle!Acquire
  <2> QED
    BY <2>3 DEF Lifecycle!Next
<1>5. CASE /\ controlPlane
           /\ routes = {} /\ UNCHANGED vms /\ \E r \in routes' : routes' = {r}
  <2>1. PICK r \in routes' : routes' = {r}
    BY <1>5
  <2>2. heldNext = [held EXCEPT !["route"] = {r}]
    BY <1>5, <2>1, <1>3
  <2>3. Lifecycle!Acquire("route")
    BY <1>1, <1>5, <2>1, <2>2 DEF Lifecycle!Acquire
  <2> QED
    BY <1>5, <2>3 DEF Lifecycle!Next
<1>6. CASE api.deleting /\ vms' = {} /\ UNCHANGED routes
  <2>1. Lifecycle!Release("instance")
    BY <1>2, <1>6 DEF Lifecycle!Release
  <2> QED
    BY <2>1 DEF Lifecycle!Next
<1>7. CASE api.deleting /\ controlPlane /\ routes' = {} /\ UNCHANGED vms
  <2>1. Lifecycle!Release("route")
    BY <1>3, <1>7 DEF Lifecycle!Release
  <2> QED
    BY <1>7, <2>1 DEF Lifecycle!Next
<1> QED
  BY <1>4, <1>5, <1>6, <1>7

(* A patch of the metadata sets the finalizer or lets the object go. *)
LEMMA LifecyclePatchMain ==
    ASSUME Disturbances \subseteq Benign, TypeOK, Sections, FinInv, OwnInv,
           PatchMain
    PROVE  Lifecycle!Next \/ UNCHANGED Lifecycle!vars
<1>1. /\ UNCHANGED <<controlPlane, vms, routes>>
      /\ pc \in Patching /\ pc # "idle"
  BY DEF PatchMain, Sections, Patching, env, cloud
<1>2. api' = api \/ (api' = MergeMain(api) /\ api.exists)
  BY DEF PatchMain
<1>3. CASE api' = api
  BY <1>1, <1>3, LifecycleStutter
<1>4. CASE /\ api' = Gone /\ api.exists
           /\ api.deleting /\ before.fin /\ ~obj.fin
  <2>1. obj.deleting
    BY <1>1, <1>4 DEF FinInv, PassInv, Patching
  <2>2. vms = {} /\ routes = {} /\ api.fin
    BY <1>1, <1>4, <2>1
       DEF OwnInv, CopyInv, CloudIs, Serving, FinInv, CacheInv, KeptByFin
  <2>3. Lifecycle!Remove
    BY <1>1, <1>4, <2>2, GoneType DEF Lifecycle!Remove
  <2> QED
    BY <2>3 DEF Lifecycle!Next
<1>5. CASE /\ api' = MergeMain(api) /\ api' # Gone /\ api.exists
  <2>1. /\ api'.exists = api.exists /\ api'.deleting = api.deleting
        /\ api'.fin = Merged(before.fin, obj.fin, api.fin)
        /\ api.deleting => api'.fin
    BY <1>5, MergeMainFields DEF FinInv, CacheInv
  <2>2. api'.ready = api.ready
    BY <1>5 DEF MergeMain, TypeOK, Objects
  <2>3. api.fin => api'.fin
    BY <1>1, <1>5, <2>1
       DEF Merged, FinInv, CacheInv, PassInv, TypeOK, Objects, Patching
  <2>4. CASE api'.fin /\ ~api.fin
    <3>1. ~api.deleting
      BY <1>5, <2>4 DEF FinInv, CacheInv, KeptByFin
    <3>2. Lifecycle!Guard
      BY <1>1, <1>5, <2>1, <2>2, <2>4, <3>1 DEF Lifecycle!Guard
    <3> QED
      BY <3>2 DEF Lifecycle!Next
  <2>5. CASE api'.fin <=> api.fin
    BY <1>1, <2>1, <2>2, <2>5, LifecycleStutter DEF Phase
  <2> QED
    BY <2>3, <2>4, <2>5
<1>6. CASE api' = MergeMain(api) /\ api' = Gone /\ api.exists
  <2>1. ~api'.exists
    BY <1>6, GoneType
  <2>2. api.deleting /\ before.fin /\ ~obj.fin
    BY <1>6, <2>1, MergeMainFields DEF FinInv, CacheInv
  <2> QED
    BY <1>4, <1>6, <2>2
<1> QED
  BY <1>2, <1>3, <1>5, <1>6

(* A patch of the status announces at most, and only what is there. *)
LEMMA LifecyclePatchStatus ==
    ASSUME Disturbances \subseteq Benign, TypeOK, Sections, FinInv, OwnInv,
           PatchStatus \/ PatchStatusFails
    PROVE  Lifecycle!Next \/ UNCHANGED Lifecycle!vars
<1>1. /\ UNCHANGED <<controlPlane, vms, routes>>
      /\ pc \in Patching /\ pc # "idle" /\ step = "status"
  BY DEF PatchStatus, PatchStatusFails, Sections, Patching, env, cloud
<1>2. api' = api \/ (api' = MergeStatus(api) /\ api.exists /\ PatchStatus)
  BY DEF PatchStatus, PatchStatusFails, OwnInv, IdleInv
<1>3. CASE api' = api
  BY <1>1, <1>3, LifecycleStutter
<1>4. CASE api' = MergeStatus(api) /\ api.exists /\ PatchStatus
  <2>1. /\ api'.exists = api.exists /\ api'.deleting = api.deleting
        /\ api'.fin = api.fin
    BY <1>4, MergeStatusFields
  <2>2. Phase(api') = Phase(api)
    BY <2>1 DEF Phase
  <2>3. api'.ready = Merged(before.ready, obj.ready, api.ready)
    BY <1>4 DEF MergeStatus, TypeOK, Objects
  <2>4. api'.ready = obj.ready
    BY <1>1, <1>4, <2>3 DEF Merged, OwnInv, SyncInv
  <2>5. CASE api'.ready = api.ready
    BY <1>1, <2>2, <2>5, LifecycleStutter
  <2>6. CASE api'.ready # api.ready
    <3>1. ~obj.deleting
      BY <1>1, <1>4, <2>4, <2>6 DEF OwnInv, CopyInv, SyncInv, TypeOK, Objects
    <3>2. obj.ready
      BY <1>1, <1>4, <2>4, <2>6, <3>1
         DEF OwnInv, CopyInv, SyncInv, TypeOK, Objects
    <3>3. obj.instance # 0 /\ (controlPlane => obj.attached)
      BY <1>1, <3>1, <3>2 DEF OwnInv, CopyInv, CloudIs, Serving, TypeOK
    <3>4. vms # {} /\ (controlPlane => routes # {})
      BY <1>1, <3>3 DEF OwnInv, CopyInv, CloudIs
    <3>5. api.fin
      BY <1>1, <1>4, <3>1
         DEF FinInv, PassInv, Guarded, PatchStatus
    <3>6. Lifecycle!Announce
      BY <1>1, <1>4, <2>1, <2>4, <3>2, <3>4, <3>5 DEF Lifecycle!Announce
    <3> QED
      BY <3>6 DEF Lifecycle!Next
  <2> QED
    BY <2>5, <2>6
<1> QED
  BY <1>2, <1>3, <1>4

(* If only reads, logins and cloud calls fail, the reconciler keeps what   *)
(* ResourceLifecycle promises of an object and its resources.              *)
THEOREM LifecycleImplemented ==
    ASSUME Disturbances \subseteq Benign
    PROVE  Spec => ImplementsLifecycle
<1>1. TypeOK /\ Init => Lifecycle!Init
  BY GoneType, NewObjectType DEF TypeOK, Init, Lifecycle!Init
<1>2. TypeOK /\ Sections /\ FinInv /\ HookInv /\ OwnInv /\ [Next]_vars
        => Lifecycle!Next \/ UNCHANGED Lifecycle!vars
  <2> SUFFICES ASSUME TypeOK, Sections, FinInv, HookInv, OwnInv, [Next]_vars
               PROVE  Lifecycle!Next \/ UNCHANGED Lifecycle!vars
    OBVIOUS
  <2>1. CASE CreateInstance
    <3>1. CallDue /\ pc = "instance" /\ vms' = vms \cup {next}
      BY <2>1 DEF CreateInstance
    <3>2. ~obj.deleting /\ obj.instance = 0 /\ api.exists /\ api.fin
      BY <3>1 DEF CallDue, None, FinInv, PassInv, Normal, Guarded, TypeOK,
                  Objects
    <3>3. vms = {} /\ vms' = {next}
      BY <3>1, <3>2 DEF OwnInv, CopyInv, CloudIs
    <3>4. UNCHANGED <<controlPlane, api, routes>>
      BY <2>1 DEF CreateInstance, Answered, AnswerLost, env
    <3> QED
      BY <3>2, <3>3, <3>4, LifecycleHeld
  <2>2. CASE Attach
    <3>1. CallDue /\ pc = "route" /\ routes' = routes \cup {obj.instance}
      BY <2>2 DEF Attach
    <3>2. /\ ~obj.deleting /\ ~obj.attached /\ controlPlane
          /\ api.exists /\ api.fin
      BY <3>1 DEF CallDue, FinInv, PassInv, Normal, Guarded
    <3>3. routes = {} /\ routes' = {obj.instance}
      BY <3>1, <3>2 DEF OwnInv, CopyInv, CloudIs
    <3>4. UNCHANGED <<controlPlane, api, vms>>
      BY <2>2 DEF Attach, Answered, AnswerLost, env
    <3> QED
      BY <3>2, <3>3, <3>4, LifecycleHeld
  <2>3. CASE Withdraw
    <3>1. pc = "withdraw" /\ controlPlane /\ obj.attached
      BY <2>3 DEF Withdraw, CallDue
    <3>2. routes = {obj.instance} /\ api.exists /\ api.fin
      BY <3>1 DEF OwnInv, IdleInv, CopyInv, CloudIs
    <3>3. api.deleting
      BY <3>1, <3>2 DEF FinInv, CacheInv, PassInv, Deleting
    <3>4. /\ UNCHANGED <<controlPlane, api, vms>>
          /\ routes' = {} \/ routes' = routes
      BY <2>3, <3>2 DEF Withdraw, Answered, AnswerLost, env
    <3> QED
      BY <3>1, <3>2, <3>3, <3>4, LifecycleHeld, LifecycleStutter
  <2>4. CASE Destroy
    BY <2>4, DestroyFacts, LifecycleHeld
  <2>5. CASE DeleteInfra \/ DeleteDirect
    BY <2>5, LifecycleMarked DEF DeleteInfra, DeleteDirect, env, cloud
  <2>6. CASE PatchMain \/ PatchStatus \/ PatchStatusFails
    BY <2>6, LifecyclePatchMain, LifecyclePatchStatus
  <2>7. CASE SetOwner
    <3>1. Phase(api') = Phase(api) /\ api'.ready = api.ready
      BY <2>7 DEF SetOwner, Phase, TypeOK, Objects
    <3> QED
      BY <2>7, <3>1, LifecycleStutter DEF SetOwner, env, cloud
  <2>8. CASE UNCHANGED vars \/ Start \/ StartFails \/ InfraReady
               \/ SetBootstrap \/ NodeJoins \/ Drain \/ RemoveMachine
               \/ DeleteMachine \/ Deliver \/ Resync \/ Crash \/ Boot
    <3>1. UNCHANGED <<controlPlane, vms, routes, api>>
      BY <2>8 DEF vars, env, cloud, Start, StartFails, InfraReady,
                  SetBootstrap, NodeJoins, Drain, RemoveMachine,
                  DeleteMachine, ChangeMachine, Deliver, Resync, Crash, Boot
    <3> QED
      BY <3>1, LifecycleStutter
  <2>9. CASE AddHook \/ RemoveHook \/ UpdateFails \/ GetClient
               \/ GetClientFails \/ PassGate \/ StopAtGate \/ GetOwnerMachine
               \/ GetOwnerMachineFails \/ SkipSection \/ LookUp \/ CallFails
               \/ CheckRunning \/ Finish
    <3>1. UNCHANGED <<controlPlane, vms, routes, api>>
      BY <2>9 DEF env, cloud, AddHook, RemoveHook, UpdateFails, GetClient,
                  GetClientFails, PassGate, StopAtGate, GetOwnerMachine,
                  GetOwnerMachineFails, SkipSection, LookUp, CallFails,
                  CheckRunning, Finish, Answered
    <3> QED
      BY <3>1, LifecycleStutter
  <2> QED
    BY <2>1, <2>2, <2>3, <2>4, <2>5, <2>6, <2>7, <2>8, <2>9
       DEF Next, Environment, ClusterAPI, PassStep
<1> QED
  BY <1>1, <1>2, OwnershipInvariant, HookInvariant, FinalizerInvariant,
     TypeCorrect, PTL DEF Spec, ImplementsLifecycle, Lifecycle!Spec

-----------------------------------------------------------------------------
(* What is left behind, whatever goes wrong                                *)

(* An entry of the floating group that is recorded has its instance, and   *)
(* so has an instance that is recorded until the machine is deleted.       *)
Kept(o) ==
    /\ o.attached => controlPlane /\ o.instance \in vms
    /\ ~o.deleting => o.instance \in vms \cup {0}

(* What was recorded or cleared differs from what was read, so that the    *)
(* patch sends it; the object and the copy differ in the sections that     *)
(* record only.                                                            *)
Patched ==
    /\ obj.deleting => /\ obj.instance \in {0, before.instance}
                       /\ obj.attached => before.attached
    /\ ~obj.deleting => /\ before.instance \in {0, obj.instance}
                        /\ before.attached => obj.attached
    /\ obj.instance = before.instance => api.instance = before.instance
    /\ obj.attached = before.attached => api.attached = before.attached
    /\ step = "work" \/ pc \notin {"instance", "destroy"} =>
         api.instance = obj.instance
    /\ step = "work" \/ pc \notin {"route", "withdraw"} =>
         api.attached = obj.attached

(* Without the finalizer nothing is recorded, and it is taken off at the   *)
(* end only, with nothing recorded any more; until then the object stays.  *)
Trail ==
    /\ IdsInv
    /\ Kept(api)
    /\ ~api.fin => api.instance = 0 /\ ~api.attached
    /\ pc # "idle" => Patched /\ Kept(obj)
    /\ \/ pc \in {"unhook", "destroy", "finish"}
       \/ pc = "withdraw" /\ step # "work"
       => ~obj.attached
    /\ pc \notin {"idle", "hook"} /\ ~obj.fin =>
         pc = "finish" /\ step # "work" /\ obj.instance = 0
    /\ pc \notin {"idle", "hook", "finalizer"} =>
         api.exists \/ (step = "status" /\ ~obj.fin)

TrailInv == ~budget.misread => Trail

(* As long as the object has no finalizer no pass gets anywhere, and an    *)
(* object that a pass deletes is being deleted.                            *)
LEMMA PassOfObject ==
    ASSUME TypeOK, FinInv, pc # "idle", api.exists
    PROVE  /\ ~api.fin => pc \in {"hook", "finalizer"}
           /\ obj.deleting => api.deleting
  BY DEF FinInv, CacheInv, PassInv, KeptByFin, Guarded, TypeOK, Objects

(* A pass that ends leaves the records as they were, or as it has them.    *)
LEMMA EndPassTrail ==
    ASSUME TypeOK, FinInv, Trail, EndPass, IdsInv', UNCHANGED controlPlane,
           api'.exists = api.exists, api'.fin = api.fin,
           api'.deleting = api.deleting,
           \/ vms \subseteq vms'
           \/ ~api'.attached /\ api.deleting,
           \/ api'.instance = api.instance /\ api'.attached = api.attached
           \/ /\ pc # "idle" /\ api.exists
              /\ api'.instance = obj.instance /\ api'.attached = obj.attached
    PROVE  Trail'
<1>1. Kept(api)'
  BY PassOfObject DEF Trail, Kept
<1>2. ~api'.fin => api'.instance = 0 /\ ~api'.attached
  BY PassOfObject DEF Trail, Patched
<1> QED
  BY <1>1, <1>2 DEF Trail, EndPass

(* A step of a pass that touches neither records nor resources.            *)
LEMMA MoveTrail ==
    ASSUME Trail, pc \notin {"idle", "hook", "finalizer", "finish"},
           pc' \notin {"idle", "hook", "finalizer"}, step = "work",
           UNCHANGED <<controlPlane, vms, next, before, step, api, obj>>,
           pc' \in {"unhook", "destroy", "finish"} => ~obj.attached
    PROVE  Trail'
  BY DEF Trail, IdsInv, Patched, Kept

(* An answer that changes no record of a resource                          *)
LEMMA AnsweredTrail ==
    ASSUME Trail, NEW o, Answered(o), step = "work",
           pc \in {"flavor", "image", "running"}, UNCHANGED <<vms, next>>,
           o.instance = obj.instance, o.attached = obj.attached,
           o.fin = obj.fin, o.deleting = obj.deleting
    PROVE  Trail'
  BY DEF Answered, env, Trail, IdsInv, Patched, Kept

(* What happens to the object from outside, and around it                  *)
LEMMA OutsideTrail ==
    ASSUME TypeOK, FinInv, Trail,
           UNCHANGED <<controlPlane, vms, next, pass>>,
           \/ /\ api'.exists = api.exists /\ api'.fin = api.fin
              /\ api'.instance = api.instance /\ api'.attached = api.attached
              /\ api.deleting => api'.deleting
           \/ api.exists /\ ~api.fin /\ api' = Gone
    PROVE  Trail'
<1>1. CASE /\ api'.exists = api.exists /\ api'.fin = api.fin
           /\ api'.instance = api.instance /\ api'.attached = api.attached
           /\ api.deleting => api'.deleting
  <2>1. IdsInv'
    BY DEF Trail, IdsInv
  <2>2. Kept(api)' /\ (pc # "idle" => Kept(obj)')
    BY <1>1 DEF Trail, Kept, pass
  <2> QED
    BY <1>1, <2>1, <2>2 DEF Trail, Patched, pass
<1>2. CASE api.exists /\ ~api.fin /\ api' = Gone
  <2>1. pc \in {"idle", "hook", "finalizer"}
    BY <1>2, PassOfObject
  <2>2. api'.instance = api.instance /\ api'.attached = api.attached
    BY <1>2, GoneType DEF Trail, TypeOK, Objects
  <2>3. IdsInv' /\ Kept(api)' /\ (pc # "idle" => Kept(obj)')
    BY <1>2, GoneType DEF Trail, Kept, pass, IdsInv
  <2> QED
    BY <1>2, <2>1, <2>2, <2>3, GoneType DEF Trail, Patched, pass
<1> QED
  BY <1>1, <1>2

(* A pass that begins has the records of the object it has read.           *)
LEMMA StartTrail ==
    ASSUME TypeOK, FinInv, Trail, Start, cached = api
    PROVE  Trail'
<1>1. /\ pc = "idle" /\ UNCHANGED <<controlPlane, api, vms, next>>
  BY DEF Start, env, cloud
<1>2. CASE ~cached.exists \/ ~cached.owned
  BY <1>1, <1>2 DEF Start, pass, Trail, IdsInv, Patched, Kept
<1>3. CASE cached.exists /\ cached.owned
  <2>1. /\ before' = api /\ obj' = api
        /\ pc' = IF api.deleting THEN "client" ELSE "hook"
    BY <1>3 DEF Start, FirstSection
  <2>2. api.deleting => api.fin
    BY <1>3 DEF FinInv, CacheInv, KeptByFin
  <2>3. IdsInv' /\ Kept(api)' /\ Kept(obj)'
    BY <1>1, <2>1 DEF Trail, Kept, IdsInv
  <2>4. Patched'
    BY <1>1, <2>1 DEF Patched, TypeOK, Objects
  <2> QED
    BY <1>1, <1>3, <2>1, <2>2, <2>3, <2>4 DEF Trail
<1> QED
  BY <1>2, <1>3 DEF TypeOK, Objects

(* In the sections of the calls the object and the copy agree.             *)
LEMMA CallFacts ==
    ASSUME TypeOK, FinInv, Trail, CallDue,
           pc \in {"instance", "route", "withdraw", "destroy"}
    PROVE  /\ pc # "idle" /\ step = "work" /\ obj.fin /\ api.exists
           /\ api.instance = obj.instance /\ api.attached = obj.attached
           /\ obj.deleting <=> pc \in {"withdraw", "destroy"}
           /\ api.instance \in Nat /\ obj.instance \in Nat
           /\ before.instance \in Nat /\ next \in Nat
           /\ 0 \notin vms /\ next \notin vms /\ next # 0
           /\ pc = "instance" => obj.instance = 0 /\ ~obj.attached
           /\ pc \in {"route", "destroy"} =>
                obj.instance # 0 /\ ~obj.attached
           /\ pc \in {"route", "withdraw"} => controlPlane
           /\ pc \in {"route", "withdraw"} => obj.instance \in vms
           /\ pc = "withdraw" => obj.attached
<1>1. /\ pc # "idle" /\ step = "work"
      /\ obj.deleting <=> pc \in {"withdraw", "destroy"}
  BY DEF CallDue, FinInv, PassInv, Deleting, Normal, TypeOK, Objects
<1>2. /\ obj.fin /\ api.exists
      /\ api.instance = obj.instance /\ api.attached = obj.attached
  BY <1>1 DEF Trail, Patched
<1>3. /\ obj.deleting \in BOOLEAN /\ obj.attached \in BOOLEAN
      /\ api.instance \in Nat /\ obj.instance \in Nat
      /\ before.instance \in Nat /\ next \in Nat
      /\ 0 \notin vms /\ next \notin vms /\ next # 0
  BY DEF Trail, IdsInv, TypeOK, Objects
<1>4. /\ pc = "instance" => obj.instance = 0
      /\ pc \in {"route", "destroy"} => obj.instance # 0
      /\ pc \in {"route", "withdraw"} => controlPlane
      /\ pc = "route" => ~obj.attached
      /\ pc = "withdraw" => obj.attached
  BY <1>1, <1>3 DEF CallDue, None
<1> QED
  BY <1>1, <1>2, <1>3, <1>4 DEF Trail, Kept

(* An instance that is created has an id no other has had.                 *)
LEMMA NextId ==
    ASSUME TypeOK, IdsInv,
           \/ next' = next /\ vms' \subseteq vms
           \/ next' = next + 1 /\ vms' = vms \cup {next}
    PROVE  IdsInv'
<1>1. next \in Nat /\ vms \subseteq Nat
  BY DEF TypeOK
<1>2. next > 0 /\ \A v \in vms : v \in Nat /\ v > 0 /\ v < next
  BY <1>1 DEF IdsInv
<1>3. CASE next' = next /\ vms' \subseteq vms
  BY <1>2, <1>3 DEF IdsInv
<1>4. CASE next' = next + 1 /\ vms' = vms \cup {next}
  BY <1>1, <1>2, <1>4 DEF IdsInv
<1> QED
  BY <1>3, <1>4

(* A call that is answered records or clears what its section is about.    *)
LEMMA CallTrail ==
    ASSUME TypeOK, FinInv, Trail, CallDue, NEW o, Answered(o),
           o.fin = obj.fin, o.deleting = obj.deleting,
           \/ /\ pc = "instance" /\ o.instance = next
              /\ o.attached = obj.attached
              /\ next' = next + 1 /\ vms' = vms \cup {next}
           \/ /\ pc = "route" /\ o.attached /\ o.instance = obj.instance
              /\ UNCHANGED <<next, vms>>
           \/ /\ pc = "withdraw" /\ ~o.attached /\ o.instance = obj.instance
              /\ UNCHANGED <<next, vms>>
           \/ /\ pc = "destroy" /\ o.instance = 0
              /\ o.attached = obj.attached
              /\ next' = next /\ vms' \in {vms, vms \ {obj.instance}}
    PROVE  Trail'
<1>1. /\ obj' = o /\ step' = "main"
      /\ UNCHANGED <<controlPlane, api, pc, before>>
  BY DEF Answered, env
<1>2. IdsInv'
  BY NextId DEF Trail
<1>3. Kept(obj)'
  BY <1>1, CallFacts DEF Trail, Kept
<1>4. Kept(api)'
  BY <1>1, CallFacts, PassOfObject DEF Trail, Kept
<1>5. Patched'
  BY <1>1, CallFacts DEF Trail, Patched
<1> QED
  BY <1>1, <1>2, <1>3, <1>4, <1>5, CallFacts DEF Trail

(* So does a call of which the answer is lost, but for the record.         *)
LEMMA LostTrail ==
    ASSUME TypeOK, FinInv, Trail, CallDue, AnswerLost,
           \/ /\ pc = "instance" /\ next' = next + 1
              /\ vms' = vms \cup {next}
           \/ pc \in {"route", "withdraw"} /\ UNCHANGED <<next, vms>>
           \/ /\ pc = "destroy" /\ next' = next
              /\ vms' \in {vms, vms \ {obj.instance}}
    PROVE  Trail'
<1>1. EndPass /\ UNCHANGED <<controlPlane, api>>
  BY DEF AnswerLost, Abort, env
<1>2. IdsInv'
  BY NextId DEF Trail
<1>3. vms \subseteq vms' \/ (~api'.attached /\ api.deleting)
  BY <1>1, CallFacts, PassOfObject
<1> QED
  BY <1>1, <1>2, <1>3, EndPassTrail

(* The first call of Patch writes no record of a resource.                 *)
LEMMA PatchMainTrail ==
    ASSUME TypeOK, Sections, FinInv, Trail, PatchMain
    PROVE  Trail'
<1>1. /\ UNCHANGED <<controlPlane, vms, next, before, obj, pc>>
      /\ pc \notin {"idle", "hook"} /\ step = "main" /\ step' = "status"
  BY DEF PatchMain, Sections, Patching, env, cloud
<1>2. CASE api' = MergeMain(api) /\ api.exists
  <2>1. CASE MergeMain(api) = Gone /\ ~obj.fin
    <3>1. /\ pc = "finish" /\ obj.instance = 0 /\ obj.attached = FALSE
          /\ api'.instance = 0 /\ api'.attached = FALSE
          /\ before.attached \in BOOLEAN
      BY <1>1, <1>2, <2>1, GoneType DEF Trail, TypeOK, Objects
    <3>2. Patched'
      BY <1>1, <3>1 DEF Trail, Patched
    <3> QED
      BY <1>1, <2>1, <3>1, <3>2 DEF Trail, IdsInv, Kept
  <2>2. CASE MergeMain(api) # Gone
    <3>1. /\ api'.exists = api.exists /\ api'.instance = api.instance
          /\ api'.attached = api.attached /\ api'.deleting = api.deleting
      BY <1>2, <2>2 DEF MergeMain, TypeOK, Objects
    <3>2. api'.fin = Merged(before.fin, obj.fin, api.fin)
      BY <1>2, <2>2, MergeMainFields DEF FinInv, CacheInv
    <3>3. ~api'.fin => ~api.fin \/ ~obj.fin
      BY <1>1, <3>2 DEF Merged, TypeOK, Objects
    <3>4. ~obj.fin => api.instance = 0 /\ ~api.attached
      BY <1>1 DEF Trail, Patched
    <3> QED
      BY <1>1, <1>2, <3>1, <3>3, <3>4 DEF Trail, IdsInv, Patched, Kept
  <2> QED
    BY <1>2, <2>1, <2>2, MergeMainFields, GoneType DEF FinInv, CacheInv
<1>3. CASE api' = api
  BY <1>1, <1>3 DEF Trail, IdsInv, Patched, Kept
<1> QED
  BY <1>2, <1>3 DEF PatchMain

(* The second call of Patch writes every record that differs.              *)
LEMMA StatusWrites ==
    ASSUME TypeOK, Trail, pc # "idle"
    PROVE  /\ MergeStatus(api).instance = obj.instance
           /\ MergeStatus(api).attached = obj.attached
           /\ ~StatusDiffers => /\ api.instance = obj.instance
                                /\ api.attached = obj.attached
<1>1. /\ obj.instance = before.instance => api.instance = obj.instance
      /\ obj.attached = before.attached => api.attached = obj.attached
  BY DEF Trail, Patched
<1>2. ASSUME NEW a \in Objects
      PROVE  /\ MergeStatus(a).instance
                  = Merged(before.instance, obj.instance, a.instance)
             /\ MergeStatus(a).attached
                  = Merged(before.attached, obj.attached, a.attached)
  BY DEF MergeStatus, Objects
<1> QED
  BY <1>1, <1>2 DEF Merged, StatusDiffers, TypeOK

(* After a patch the object records what the copy does.                    *)
LEMMA PatchStatusRecords ==
    ASSUME TypeOK, Sections, FinInv, Trail, PatchStatus
    PROVE  /\ pc \notin {"idle", "hook"} /\ api'.exists = api.exists
           /\ api'.fin = api.fin /\ api'.deleting = api.deleting
           /\ api'.instance = obj.instance /\ api'.attached = obj.attached
           /\ ~api.exists => api' = api
<1>1. pc \notin {"idle", "hook"} /\ step = "status"
  BY DEF PatchStatus, Sections, Patching
<1>2. CASE ~api.exists
  <2>1. api.instance = obj.instance /\ api.attached = obj.attached
    BY <1>1, <1>2 DEF Trail, Patched, FinInv, PassInv
  <2> QED
    BY <1>1, <1>2, <2>1 DEF PatchStatus
<1>3. CASE api.exists
  BY <1>1, <1>3, StatusWrites, MergeStatusFields DEF PatchStatus
<1> QED
  BY <1>2, <1>3

(* A patch that succeeds leaves nothing unpatched.                         *)
LEMMA PatchStatusTrail ==
    ASSUME TypeOK, Sections, FinInv, Trail, PatchStatus
    PROVE  Trail'
<1>1. /\ pc \in Patching /\ UNCHANGED <<controlPlane, vms, next>>
      /\ step = "status" /\ ~failed
  BY DEF PatchStatus, Sections, env, cloud
<1>2. CASE Following = "idle"
  <2>1. \/ api'.instance = api.instance /\ api'.attached = api.attached
        \/ /\ pc # "idle" /\ api.exists
           /\ api'.instance = obj.instance /\ api'.attached = obj.attached
    BY PatchStatusRecords
  <2>2. IdsInv'
    BY <1>1 DEF Trail, IdsInv
  <2> QED
    BY <1>1, <1>2, <2>1, <2>2, EndPassTrail, PatchStatusRecords
       DEF PatchStatus
<1>3. CASE Following # "idle"
  <2>1. UNCHANGED <<obj, before>> /\ step' = "work" /\ pc' = Following
    BY <1>3 DEF PatchStatus
  <2>2. pc # "finish" /\ pc' \notin {"idle", "hook", "finalizer"}
    BY <1>1, <1>3, <2>1 DEF Patching, Following, After
  <2>3. obj.fin /\ api.exists
    BY <1>1, <2>2, PatchStatusRecords
       DEF Trail, FinInv, PassInv, Guarded, Normal
  <2>4. pc' \in {"unhook", "destroy", "finish"} => ~obj.attached
    BY <1>1, <2>1, <2>2 DEF Trail, Following, After, Patching
  <2>5. api'.fin \/ (obj.instance = 0 /\ ~obj.attached)
    BY <1>1, <2>3, PatchStatusRecords, PassOfObject DEF Trail, Patched
  <2>6. IdsInv' /\ Kept(api)' /\ Kept(obj)'
    BY <1>1, <2>1, <2>3, PatchStatusRecords, PassOfObject
       DEF Trail, IdsInv, Kept
  <2>7. Patched'
    BY <1>1, <2>1, PatchStatusRecords DEF Trail, Patched
  <2> QED
    BY <1>1, <2>1, <2>2, <2>3, <2>4, <2>5, <2>6, <2>7, PatchStatusRecords
       DEF Trail
<1> QED
  BY <1>2, <1>3

(* That an object was read that is behind is not forgotten by any step.    *)
LEMMA MisreadStays ==
    ASSUME TypeOK, [Next]_vars, budget.misread
    PROVE  budget'.misread
<1>1. CASE UNCHANGED budget
  BY <1>1
<1>2. ASSUME NEW d, Spend(d) PROVE budget'.misread
  BY <1>2, SpendMisread
<1> QED
  BY <1>1, <1>2
     DEF Next, Environment, ClusterAPI, SetOwner, InfraReady, SetBootstrap,
         NodeJoins, Drain, DeleteInfra, RemoveMachine, ChangeMachine,
         DeleteMachine, DeleteDirect, Deliver, Resync, Crash, Boot, Start,
         StartFails, PassStep, AddHook, RemoveHook, UpdateFails, GetClient,
         GetClientFails, PassGate, StopAtGate, GetOwnerMachine,
         GetOwnerMachineFails, SkipSection, LookUp, CallFails,
         CreateInstance, Attach, CheckRunning, Withdraw, Destroy, AnswerLost,
         Finish, PatchMain, PatchStatus, PatchStatusFails, vars

(* The steps in which neither the object nor a pass takes part             *)
Around == \/ InfraReady \/ SetBootstrap \/ NodeJoins \/ DeleteMachine
          \/ Drain \/ RemoveMachine \/ Deliver \/ Resync \/ Boot
          \/ StartFails \/ UNCHANGED vars

(* The steps that change the object from outside                           *)
Outside == SetOwner \/ DeleteInfra \/ DeleteDirect

(* The steps in which a pass only moves on                                 *)
Moves == \/ GetClient \/ PassGate \/ GetOwnerMachine \/ SkipSection

(* The steps in which a pass ends without having done anything             *)
Stops == \/ Crash \/ UpdateFails \/ RemoveHook \/ GetClientFails
         \/ StopAtGate \/ GetOwnerMachineFails \/ CallFails
         \/ CheckRunning /\ EndPass

(* What such steps leave alone                                             *)
LEMMA AroundFrame ==
    ASSUME TypeOK, Around
    PROVE  UNCHANGED <<controlPlane, vms, routes, next, pass, api>>
  BY DEF Around, InfraReady, SetBootstrap, NodeJoins, DeleteMachine, Drain,
         RemoveMachine, ChangeMachine, Deliver, Resync, Boot, StartFails,
         vars, env, cloud

(* The object keeps what it records, or goes if it has no finalizer.       *)
LEMMA OutsideFrame ==
    ASSUME TypeOK, Outside
    PROVE  /\ UNCHANGED <<controlPlane, vms, routes, next, pass, budget>>
           /\ \/ /\ api'.exists = api.exists /\ api'.fin = api.fin
                 /\ api'.instance = api.instance
                 /\ api'.attached = api.attached
                 /\ api.deleting => api'.deleting
              \/ api.exists /\ ~api.fin /\ api' = Gone
<1>1. CASE SetOwner
  BY <1>1 DEF SetOwner, env, cloud, TypeOK, Objects
<1>2. CASE DeleteInfra \/ DeleteDirect
  <2>1. /\ api.exists /\ api' = Marked(api)
        /\ UNCHANGED <<controlPlane, vms, routes, next, pass, budget>>
    BY <1>2 DEF DeleteInfra, DeleteDirect, env, cloud
  <2> QED
    BY <2>1 DEF Marked, TypeOK, Objects
<1> QED
  BY <1>1, <1>2 DEF Outside

(* A pass that moves on is behind its first patch and changes no copy.     *)
LEMMA MovesFrame ==
    ASSUME TypeOK, Sections, Moves
    PROVE  /\ UNCHANGED <<controlPlane, vms, routes, next, before, step, api,
                          obj, failed>>
           /\ step = "work"
           /\ pc \notin {"idle", "hook", "finalizer", "finish"}
           /\ pc' \notin {"idle", "hook", "finalizer"}
           /\ pc' \in {"unhook", "destroy", "finish"} =>
                \/ pc = "destroy"
                \/ pc = "withdraw" /\ (~controlPlane \/ ~obj.attached)
<1>1. CASE GetClient \/ PassGate \/ GetOwnerMachine
  BY <1>1 DEF GetClient, PassGate, GetOwnerMachine, After, Sections, Patching,
              env, cloud
<1>2. CASE SkipSection
  BY <1>2 DEF SkipSection, CallDue, Following, After, env, cloud
<1> QED
  BY <1>1, <1>2 DEF Moves

(* Only a crash ends a pass in the middle of a patch like that.            *)
LEMMA StopsFrame ==
    ASSUME TypeOK, Sections, Stops
    PROVE  /\ EndPass /\ UNCHANGED <<controlPlane, vms, routes, next, api>>
           /\ Crash \/ step = "work"
<1>1. CASE Crash \/ GetClientFails \/ GetOwnerMachineFails \/ UpdateFails
  BY <1>1 DEF Crash, UpdateFails, GetClientFails, GetOwnerMachineFails, Abort,
              Sections, Patching, env, cloud
<1>2. CASE StopAtGate \/ RemoveHook
  BY <1>2 DEF StopAtGate, RemoveHook, Sections, Patching, env, cloud
<1>3. CASE CallFails
  BY <1>3 DEF CallFails, CallDue, Abort, env, cloud
<1>4. CASE CheckRunning /\ EndPass
  BY <1>4 DEF CheckRunning, CallDue, Answered, Abort, EndPass, env, cloud
<1> QED
  BY <1>1, <1>2, <1>3, <1>4 DEF Stops

(* Every step of the specification leaves the trail in order, unless an    *)
(* old copy has been read.                                                 *)
LEMMA TrailStep ==
    ASSUME TypeOK, Sections, FinInv, TrailInv, [Next]_vars
    PROVE  TrailInv'
<1> SUFFICES ASSUME ~budget'.misread PROVE Trail'
  BY DEF TrailInv
<1>1. ~budget.misread
  BY MisreadStays
<1>2. Trail
  BY <1>1 DEF TrailInv
<1>3. CASE Around \/ Outside
  BY <1>2, <1>3, AroundFrame, OutsideFrame, OutsideTrail
<1>4. CASE Start
  BY <1>2, <1>4, StartTrail, SpendMisread DEF Start, Fresh
<1>5. CASE Moves
  <2>1. pc' \in {"unhook", "destroy", "finish"} => ~obj.attached
    BY <1>2, <1>5, MovesFrame DEF Trail, Kept
  <2> QED
    BY <1>2, <1>5, <2>1, MovesFrame, MoveTrail
<1>6. CASE Stops
  <2>1. IdsInv'
    BY <1>2, <1>6, StopsFrame DEF Trail, IdsInv
  <2> QED
    BY <1>2, <1>6, <2>1, StopsFrame, EndPassTrail
<1>7. CASE AddHook
  <2>1. /\ pc = "hook" /\ pc' = "finalizer" /\ step' = "main"
        /\ UNCHANGED <<controlPlane, api, before, vms, next>>
        /\ obj'.instance = obj.instance /\ obj'.attached = obj.attached
        /\ obj'.deleting = obj.deleting /\ obj'.fin
    BY <1>7 DEF AddHook, env, cloud, TypeOK, Objects
  <2> QED
    BY <1>2, <2>1 DEF Trail, IdsInv, Patched, Kept
<1>8. CASE LookUp
  <2>1. /\ step = "work" /\ pc \in {"flavor", "image"}
        /\ UNCHANGED <<vms, next>>
        /\ \/ Answered([obj EXCEPT !.flavor = TRUE])
           \/ Answered([obj EXCEPT !.image = TRUE])
    BY <1>8 DEF LookUp, CallDue, cloud
  <2> QED
    BY <1>2, <2>1, AnsweredTrail DEF TypeOK, Objects
<1>9. CASE CheckRunning
  <2>1. CASE Answered([obj EXCEPT !.ready = TRUE])
    BY <1>2, <1>9, <2>1, AnsweredTrail
       DEF CheckRunning, CallDue, cloud, TypeOK, Objects
  <2> QED
    BY <1>6, <1>9, <2>1 DEF CheckRunning, Stops, Abort
<1>10. CASE CreateInstance
  BY <1>2, <1>10, CallTrail, LostTrail
     DEF CreateInstance, Launched, TypeOK, Objects
<1>11. CASE Attach
  BY <1>2, <1>11, CallTrail, LostTrail DEF Attach, TypeOK, Objects
<1>12. CASE Withdraw
  BY <1>2, <1>12, CallTrail, LostTrail DEF Withdraw, TypeOK, Objects
<1>13. CASE Destroy
  BY <1>2, <1>13, CallTrail, LostTrail DEF Destroy, None, TypeOK, Objects
<1>14. CASE Finish
  <2>1. /\ pc = "finish" /\ pc' = pc /\ step = "work" /\ step' = "main"
        /\ UNCHANGED <<controlPlane, api, before, vms, next>>
        /\ obj'.instance = obj.instance /\ obj'.attached = obj.attached
        /\ obj'.deleting = obj.deleting /\ obj.instance = 0
    BY <1>14 DEF Finish, Answered, env, cloud, None, TypeOK, Objects
  <2> QED
    BY <1>2, <2>1 DEF Trail, IdsInv, Patched, Kept
<1>15. CASE PatchMain
  BY <1>2, <1>15, PatchMainTrail
<1>16. CASE PatchStatus
  BY <1>2, <1>16, PatchStatusTrail
<1>17. CASE PatchStatusFails
  <2>1. /\ pc # "idle" /\ EndPass
        /\ UNCHANGED <<controlPlane, vms, next>>
        /\ api' = api \/ (api.exists /\ api' = MergeStatus(api))
    BY <1>17 DEF PatchStatusFails, Abort, Sections, Patching, env, cloud
  <2>2. IdsInv'
    BY <1>2, <2>1 DEF Trail, IdsInv
  <2> QED
    BY <1>2, <2>1, <2>2, StatusWrites, MergeStatusFields, EndPassTrail
<1> QED
  BY <1>3, <1>4, <1>5, <1>6, <1>7, <1>8, <1>9, <1>10, <1>11, <1>12, <1>13,
     <1>14, <1>15, <1>16, <1>17
     DEF Next, Environment, ClusterAPI, PassStep, Around, Outside, Moves,
         Stops

(* In the beginning nothing is recorded.                                   *)
LEMMA TrailInit == Init => TrailInv
  BY NewObjectType, GoneType
     DEF Init, TrailInv, Trail, IdsInv, Kept

(* As long as passes read fresh copies the object, and the pass that is    *)
(* about to record, agree on the instance and on the route but for what is *)
(* not patched yet.                                                        *)
THEOREM TrailInvariant == Spec => []TrailInv
  BY TrailInit, TrailStep, TypeCorrect, FinalizerInvariant, PTL DEF Spec

-----------------------------------------------------------------------------
(* Counting it *)

(* What counts: the records of the pass, or of the object between passes.  *)
Holder == IF pc = "idle" THEN api ELSE obj

(* What will be left behind if nothing else goes wrong: all that is not    *)
(* recorded                                                                *)
Forgotten == (vms \ {Holder.instance})
               \cup IF Holder.attached THEN routes \ {Holder.instance}
                                       ELSE routes

(* What is forgotten has been paid for; a patch of which the first call    *)
(* failed has been paid for in advance.                                    *)
Paid ==
    /\ IsFiniteSet(Forgotten)
    /\ Cardinality(Forgotten) + budget.left <= MaxDisturb
    /\ failed /\ pc # "finalizer" =>
         Cardinality(Forgotten) + budget.left < MaxDisturb

PaidInv == ~budget.misread => Paid

(* A step forgets nothing, or forgets one thing and pays for it, or it has *)
(* been paid for.                                                          *)
LEMMA Paying ==
    ASSUME TypeOK, TypeOK', Paid, NEW x,
           Forgotten' \subseteq Forgotten \cup {x},
           budget'.left <= budget.left,
           \/ Forgotten' \subseteq Forgotten
           \/ budget'.left < budget.left
           \/ failed /\ pc # "finalizer" /\ ~failed',
           failed' /\ pc' # "finalizer" =>
             \/ failed /\ pc # "finalizer"
             \/ Forgotten' \subseteq Forgotten /\ budget'.left < budget.left
    PROVE  Paid'
<1>1. /\ IsFiniteSet(Forgotten') /\ Cardinality(Forgotten') \in Nat
      /\ Cardinality(Forgotten) \in Nat
      /\ Cardinality(Forgotten') <= Cardinality(Forgotten) + 1
      /\ Forgotten' \subseteq Forgotten =>
           Cardinality(Forgotten') <= Cardinality(Forgotten)
  BY OneMore DEF Paid
<1>2. budget.left \in Nat /\ budget'.left \in Nat /\ MaxDisturb \in Nat
  BY ConstantsAssumption DEF TypeOK, Budgets
<1> QED
  BY <1>1, <1>2 DEF Paid

(* What is spent is one disturbance.                                       *)
LEMMA SpendOne ==
    ASSUME TypeOK, NEW d, Spend(d)
    PROVE  budget'.left < budget.left /\ budget'.left <= budget.left
  BY DEF Spend, TypeOK, Budgets

(* No step gives any back.                                                 *)
LEMMA BudgetFalls ==
    ASSUME TypeOK, [Next]_vars
    PROVE  budget'.left <= budget.left
<1>1. CASE UNCHANGED budget
  BY <1>1 DEF TypeOK, Budgets
<1>2. ASSUME NEW d, Spend(d) PROVE budget'.left <= budget.left
  BY <1>2, SpendOne
<1> QED
  BY <1>1, <1>2
     DEF Next, Environment, ClusterAPI, SetOwner, InfraReady, SetBootstrap,
         NodeJoins, Drain, DeleteInfra, RemoveMachine, ChangeMachine,
         DeleteMachine, DeleteDirect, Deliver, Resync, Crash, Boot, Start,
         StartFails, PassStep, AddHook, RemoveHook, UpdateFails, GetClient,
         GetClientFails, PassGate, StopAtGate, GetOwnerMachine,
         GetOwnerMachineFails, SkipSection, LookUp, CallFails,
         CreateInstance, Attach, CheckRunning, Withdraw, Destroy, AnswerLost,
         Finish, PatchMain, PatchStatus, PatchStatusFails, vars

(* A pass that ends forgets at most the instance it is about, and that     *)
(* only if a record is not patched.                                        *)
LEMMA EndPassForgets ==
    ASSUME TypeOK, Sections, Trail, EndPass,
           vms' \subseteq vms, routes' \subseteq routes,
           api'.instance \in {api.instance, Holder.instance},
           api'.attached \in {api.attached, Holder.attached}
    PROVE  /\ Forgotten' \subseteq Forgotten \cup {Holder.instance}
           /\ \/ pc \in {"idle", "finalizer"} \/ step = "work"
              \/ /\ api'.instance = Holder.instance
                 /\ api'.attached = Holder.attached
              => Forgotten' \subseteq Forgotten
<1>1. Holder' = api'
  BY DEF Holder, EndPass
<1>2. Forgotten' \subseteq Forgotten \cup {Holder.instance}
  BY <1>1 DEF Forgotten
<1>3. pc \in {"idle", "finalizer"} \/ step = "work" =>
        /\ api'.instance = Holder.instance
        /\ api'.attached = Holder.attached
  BY DEF Holder, Trail, Patched
<1>4. /\ api'.instance = Holder.instance
      /\ api'.attached = Holder.attached
      => Forgotten' \subseteq Forgotten
  BY <1>1 DEF Forgotten
<1> QED
  BY <1>2, <1>3, <1>4

(* A step that leaves the records and WX-ONE alone, or takes from WX-ONE,  *)
(* forgets nothing.                                                        *)
LEMMA SameForgotten ==
    ASSUME vms' \subseteq vms, routes' \subseteq routes,
           Holder'.instance = Holder.instance,
           Holder'.attached = Holder.attached
    PROVE  Forgotten' \subseteq Forgotten
  BY DEF Forgotten

(* An instance that is not recorded has been paid for.                     *)
LEMMA CreatePays ==
    ASSUME TypeOK, TypeOK', Sections, FinInv, Trail, Paid, CreateInstance
    PROVE  Paid'
<1>1. /\ CallDue /\ pc = "instance" /\ vms' = vms \cup {next}
      /\ routes' = routes
  BY DEF CreateInstance
<1>2. /\ Holder = obj /\ obj.instance = 0 /\ ~obj.attached
      /\ api.instance = obj.instance /\ api.attached = obj.attached
      /\ 0 \notin vms
  BY <1>1, CallFacts DEF Holder
<1>3. CASE Answered(Launched(obj, next)) /\ UNCHANGED budget
  <2>1. /\ obj'.instance = next /\ ~obj'.attached /\ pc' # "idle"
        /\ failed' = failed /\ pc' = pc
    BY <1>1, <1>2, <1>3 DEF Answered, Launched, TypeOK, Objects
  <2>2. Forgotten' \subseteq Forgotten
    BY <1>1, <1>2, <2>1 DEF Forgotten, Holder
  <2> QED
    BY <1>3, <2>1, <2>2, Paying DEF TypeOK, Budgets
<1>4. CASE AnswerLost
  <2>1. /\ EndPass /\ api' = api /\ ~failed' /\ budget'.left < budget.left
        /\ budget'.left <= budget.left
    BY <1>4, SpendOne DEF AnswerLost, Abort, EndPass
  <2>2. Forgotten' \subseteq Forgotten \cup {next}
    BY <1>1, <1>2, <2>1 DEF Forgotten, Holder, EndPass
  <2> QED
    BY <2>1, <2>2, Paying
<1> QED
  BY <1>3, <1>4 DEF CreateInstance

(* An entry that is not recorded has been paid for.                        *)
LEMMA AttachPays ==
    ASSUME TypeOK, TypeOK', Sections, FinInv, Trail, Paid, Attach
    PROVE  Paid'
<1>1. /\ CallDue /\ pc = "route" /\ vms' = vms
      /\ routes' = routes \cup {obj.instance}
  BY DEF Attach
<1>2. /\ Holder = obj /\ ~obj.attached
      /\ api.instance = obj.instance /\ api.attached = obj.attached
  BY <1>1, CallFacts DEF Holder
<1>3. CASE Answered([obj EXCEPT !.attached = TRUE]) /\ UNCHANGED budget
  <2>1. /\ obj'.instance = obj.instance /\ obj'.attached /\ pc' # "idle"
        /\ failed' = failed /\ pc' = pc
    BY <1>1, <1>3 DEF Answered, TypeOK, Objects
  <2>2. Forgotten' \subseteq Forgotten
    BY <1>1, <1>2, <2>1 DEF Forgotten, Holder
  <2> QED
    BY <1>3, <2>1, <2>2, Paying DEF TypeOK, Budgets
<1>4. CASE AnswerLost
  <2>1. /\ EndPass /\ api' = api /\ ~failed' /\ budget'.left < budget.left
        /\ budget'.left <= budget.left
    BY <1>4, SpendOne DEF AnswerLost, Abort, EndPass
  <2>2. Forgotten' \subseteq Forgotten \cup {obj.instance}
    BY <1>1, <1>2, <2>1 DEF Forgotten, Holder, EndPass
  <2> QED
    BY <2>1, <2>2, Paying
<1> QED
  BY <1>3, <1>4 DEF Attach

(* An entry that is cleared has gone, or an error has been ignored.        *)
LEMMA WithdrawPays ==
    ASSUME TypeOK, TypeOK', Sections, FinInv, Trail, Paid, Withdraw
    PROVE  Paid'
<1>1. /\ CallDue /\ pc = "withdraw" /\ vms' = vms
  BY DEF Withdraw
<1>2. /\ Holder = obj /\ obj.attached /\ step = "work"
      /\ api.instance = obj.instance /\ api.attached = obj.attached
  BY <1>1, CallFacts DEF Holder
<1>3. CASE AnswerLost /\ routes' = routes \ {obj.instance}
  <2>1. /\ EndPass /\ api' = api /\ ~failed' /\ budget'.left < budget.left
        /\ budget'.left <= budget.left
    BY <1>3, SpendOne DEF AnswerLost, Abort, EndPass
  <2>2. Forgotten' \subseteq Forgotten
    BY <1>1, <1>2, <1>3, <2>1, EndPassForgets
  <2> QED
    BY <2>1, <2>2, Paying
<1>4. CASE Answered([obj EXCEPT !.attached = FALSE])
  <2>1. /\ obj'.instance = obj.instance /\ ~obj'.attached /\ pc' # "idle"
        /\ failed' = failed /\ pc' = pc
    BY <1>1, <1>4 DEF Answered, TypeOK, Objects
  <2>2. Holder'.instance = obj.instance /\ ~Holder'.attached
    BY <2>1 DEF Holder
  <2>3. CASE routes' = routes \ {obj.instance} /\ UNCHANGED budget
    <3>1. Forgotten' \subseteq Forgotten
      BY <1>1, <1>2, <2>2, <2>3 DEF Forgotten
    <3> QED
      BY <2>1, <2>3, <3>1, Paying DEF TypeOK, Budgets
  <2>4. CASE /\ routes' = routes
             /\ \/ budget'.left < budget.left
                \/ obj.instance \notin routes /\ budget' = budget
    <3>1. /\ Forgotten' \subseteq Forgotten \cup {obj.instance}
          /\ obj.instance \notin routes => Forgotten' \subseteq Forgotten
      BY <1>1, <1>2, <2>2, <2>4 DEF Forgotten
    <3> QED
      BY <2>1, <2>4, <3>1, Paying DEF TypeOK, Budgets
  <2> QED
    BY <1>2, <1>4, <2>3, <2>4, SpendOne
       DEF Withdraw, Missing, Answered, AnswerLost, Abort, EndPass
<1> QED
  BY <1>3, <1>4 DEF Withdraw

(* An instance that is cleared has gone, or an error has been ignored.     *)
LEMMA DestroyPays ==
    ASSUME TypeOK, TypeOK', Sections, FinInv, Trail, Paid, Destroy
    PROVE  Paid'
<1>1. /\ CallDue /\ pc = "destroy" /\ routes' = routes
  BY DEF Destroy
<1>2. /\ Holder = obj /\ ~obj.attached /\ step = "work"
      /\ api.instance = obj.instance /\ api.attached = obj.attached
  BY <1>1, CallFacts DEF Holder
<1>3. CASE AnswerLost /\ vms' = vms \ {obj.instance}
  <2>1. /\ EndPass /\ api' = api /\ ~failed' /\ budget'.left < budget.left
        /\ budget'.left <= budget.left
    BY <1>3, SpendOne DEF AnswerLost, Abort, EndPass
  <2>2. Forgotten' \subseteq Forgotten
    BY <1>1, <1>2, <1>3, <2>1, EndPassForgets
  <2> QED
    BY <2>1, <2>2, Paying
<1>4. CASE Answered([obj EXCEPT !.instance = None])
  <2>1. /\ obj'.instance = 0 /\ ~obj'.attached /\ pc' # "idle"
        /\ failed' = failed /\ pc' = pc
    BY <1>1, <1>2, <1>4 DEF Answered, None, TypeOK, Objects
  <2>2. Holder'.instance = 0 /\ ~Holder'.attached
    BY <2>1 DEF Holder
  <2>3. CASE vms' = vms \ {obj.instance} /\ UNCHANGED budget
    <3>1. Forgotten' \subseteq Forgotten
      BY <1>1, <1>2, <2>2, <2>3 DEF Forgotten
    <3> QED
      BY <2>1, <2>3, <3>1, Paying DEF TypeOK, Budgets
  <2>4. CASE vms' = vms /\ budget'.left < budget.left
    <3>1. Forgotten' \subseteq Forgotten \cup {obj.instance}
      BY <1>1, <1>2, <2>2, <2>4 DEF Forgotten
    <3> QED
      BY <2>1, <2>4, <3>1, Paying DEF TypeOK, Budgets
  <2> QED
    BY <1>4, <2>3, <2>4, SpendOne DEF Destroy, Answered, AnswerLost, Abort,
                                      EndPass
<1> QED
  BY <1>3, <1>4 DEF Destroy

(* A patch that fails forgets what it has not written, and the failure is  *)
(* paid for by then.                                                       *)
LEMMA PatchPays ==
    ASSUME TypeOK, TypeOK', Sections, FinInv, Trail, Paid,
           PatchMain \/ PatchStatus \/ PatchStatusFails
    PROVE  Paid'
<1>1. CASE PatchMain
  <2>1. /\ pc' = pc /\ pc \notin {"idle", "hook"}
        /\ UNCHANGED <<vms, routes, obj>> /\ step = "main"
        /\ budget'.left <= budget.left
        /\ \/ UNCHANGED <<failed, budget>>
           \/ ~api.exists /\ budget' = budget
           \/ budget'.left < budget.left
    BY <1>1, SpendOne
       DEF PatchMain, Sections, Patching, cloud, TypeOK, Budgets
  <2>2. Forgotten' \subseteq Forgotten
    BY <2>1 DEF Forgotten, Holder
  <2>3. api.exists \/ pc = "finalizer"
    BY <2>1 DEF Trail
  <2> QED
    BY <2>1, <2>2, <2>3, Paying
<1>2. CASE PatchStatus
  <2>1. /\ pc # "idle" /\ UNCHANGED <<vms, routes, budget>> /\ ~failed
        /\ api'.instance = obj.instance /\ api'.attached = obj.attached
    BY <1>2, PatchStatusRecords DEF PatchStatus, cloud
  <2>2. \/ EndPass
        \/ UNCHANGED <<obj, failed>> /\ pc' # "idle"
    BY <1>2 DEF PatchStatus
  <2>3. Forgotten' \subseteq Forgotten /\ ~failed'
    BY <2>1, <2>2, EndPassForgets DEF Forgotten, Holder, EndPass
  <2> QED
    BY <2>1, <2>3, Paying DEF TypeOK, Budgets
<1>3. CASE PatchStatusFails
  <2>1. /\ pc # "idle" /\ step = "status" /\ EndPass
        /\ UNCHANGED <<vms, routes>> /\ ~failed'
        /\ budget'.left <= budget.left
        /\ \/ failed /\ budget' = budget
           \/ /\ StatusDiffers /\ ~api.exists /\ ~(obj.deleting /\ ~obj.fin)
              /\ budget' = budget
           \/ budget'.left < budget.left
        /\ \/ api' = api
           \/ api' = MergeStatus(api)
    BY <1>3, SpendOne DEF PatchStatusFails, Abort, EndPass, Sections,
                          Patching, cloud, TypeOK, Budgets
  <2>2. /\ api'.instance \in {api.instance, Holder.instance}
        /\ api'.attached \in {api.attached, Holder.attached}
    BY <2>1, StatusWrites DEF Holder
  <2>3. /\ Forgotten' \subseteq Forgotten \cup {Holder.instance}
        /\ pc = "finalizer" => Forgotten' \subseteq Forgotten
    BY <2>1, <2>2, EndPassForgets
  <2>4. CASE pc = "finalizer"
    BY <2>1, <2>3, <2>4, Paying
  <2>5. CASE pc # "finalizer"
    <3>1. api.exists \/ (obj.deleting /\ ~obj.fin)
      BY <1>3, <2>1, <2>5
         DEF PatchStatusFails, Trail, FinInv, PassInv, Sections, Patching
    <3> QED
      BY <2>1, <2>3, <2>5, <3>1, Paying
  <2> QED
    BY <2>4, <2>5
<1> QED
  BY <1>1, <1>2, <1>3

(* What exists beyond what is known has been paid for at every step.       *)
LEMMA PaidStep ==
    ASSUME TypeOK, TypeOK', Sections, FinInv, Trail, Paid,
           ~budget'.misread, [Next]_vars
    PROVE  Paid'
<1>1. budget'.left <= budget.left
  BY BudgetFalls
<1>2. CASE Around \/ Outside
  <2>1. UNCHANGED <<vms, routes, pass>>
    BY <1>2, AroundFrame, OutsideFrame
  <2>2. api'.instance = api.instance /\ api'.attached = api.attached
    BY <1>2, AroundFrame, OutsideFrame, GoneType
       DEF Trail, TypeOK, Objects
  <2>3. Forgotten' \subseteq Forgotten /\ failed' = failed /\ pc' = pc
    BY <2>1, <2>2 DEF Forgotten, Holder, pass
  <2> QED
    BY <1>1, <2>3, Paying
<1>3. CASE Start
  <2>1. /\ cached = api /\ pc = "idle"
        /\ UNCHANGED <<vms, routes, failed, api>>
    BY <1>3, SpendMisread DEF Start, Fresh, pass, cloud
  <2>2. pc' = "idle" \/ obj' = api
    BY <1>3, <2>1 DEF Start, pass
  <2>3. Forgotten' \subseteq Forgotten
    BY <2>1, <2>2 DEF Forgotten, Holder
  <2> QED
    BY <1>1, <2>1, <2>3, Paying
<1>4. CASE Moves
  <2>1. Forgotten' \subseteq Forgotten
    BY <1>4, MovesFrame DEF Forgotten, Holder
  <2> QED
    BY <1>1, <1>4, <2>1, MovesFrame, Paying
<1>5. CASE Stops
  <2>1. /\ EndPass /\ ~failed' /\ UNCHANGED <<api, vms, routes>>
        /\ step = "work" \/ budget'.left < budget.left
    BY <1>5, StopsFrame, SpendOne DEF EndPass, Crash
  <2>2. /\ Forgotten' \subseteq Forgotten \cup {Holder.instance}
        /\ step = "work" => Forgotten' \subseteq Forgotten
    BY <2>1, EndPassForgets
  <2> QED
    BY <1>1, <2>1, <2>2, Paying
<1>6. CASE AddHook \/ LookUp \/ Finish
            \/ (CheckRunning /\ Answered([obj EXCEPT !.ready = TRUE]))
  <2>1. /\ UNCHANGED <<vms, routes, failed>> /\ pc # "idle" /\ pc' # "idle"
        /\ pc' # "finalizer" => pc # "finalizer"
        /\ obj'.instance = obj.instance /\ obj'.attached = obj.attached
    BY <1>6 DEF AddHook, LookUp, Finish, CheckRunning, Answered, CallDue,
                cloud, TypeOK, Objects
  <2>2. Forgotten' \subseteq Forgotten
    BY <2>1 DEF Forgotten, Holder
  <2> QED
    BY <1>1, <2>1, <2>2, Paying
<1>7. CASE CheckRunning
  BY <1>5, <1>6, <1>7 DEF CheckRunning, Stops, Abort
<1>8. CASE CreateInstance \/ Attach \/ Withdraw \/ Destroy
  BY <1>8, CreatePays, AttachPays, WithdrawPays, DestroyPays
<1>9. CASE PatchMain \/ PatchStatus \/ PatchStatusFails
  BY <1>9, PatchPays
<1> QED
  BY <1>2, <1>3, <1>4, <1>5, <1>6, <1>7, <1>8, <1>9
     DEF Next, Environment, ClusterAPI, PassStep, Around, Outside, Moves,
         Stops

(* In the beginning there is nothing to forget.                            *)
LEMMA PaidInit == Init => PaidInv
<1> SUFFICES ASSUME Init PROVE Paid
  BY DEF PaidInv
<1>1. Forgotten = {}
  BY DEF Init, Forgotten
<1>2. /\ budget.left = MaxDisturb /\ ~failed /\ MaxDisturb \in Nat
  BY ConstantsAssumption DEF Init
<1> QED
  BY <1>1, <1>2, FS_EmptySet DEF Paid

(* What is forgotten never exceeds what has gone wrong.                    *)
THEOREM PaidInvariant == Spec => []PaidInv
<1>1. TypeOK /\ TypeOK' /\ Sections /\ FinInv /\ TrailInv /\ PaidInv
        /\ [Next]_vars => PaidInv'
  <2> SUFFICES ASSUME TypeOK, TypeOK', Sections, FinInv, TrailInv, PaidInv,
                      [Next]_vars, ~budget'.misread
               PROVE  Paid'
    BY DEF PaidInv
  <2>1. ~budget.misread
    BY MisreadStays
  <2> QED
    BY <2>1, PaidStep DEF TrailInv, PaidInv
<1> QED
  BY PaidInit, <1>1, TypeCorrect, FinalizerInvariant, TrailInvariant, PTL
     DEF Spec

(* As long as passes read fresh copies, every crash, lost answer, failed   *)
(* patch and ignored error leaves one instance or one entry of the         *)
(* floating group behind at most, for any number of them in any order.     *)
THEOREM LeaksBounded == Spec => []LeakBounded
<1>1. TypeOK /\ TrailInv /\ PaidInv => LeakBounded
  <2> SUFFICES ASSUME TypeOK, TrailInv, PaidInv, ~budget.misread
               PROVE  Cardinality(LeftBehind) <= MaxDisturb - budget.left
    BY DEF LeakBounded
  <2>1. LeftBehind \subseteq Forgotten
    BY DEF LeftBehind, Forgotten, Holder, TrailInv, Trail, Kept
  <2>2. /\ Cardinality(LeftBehind) \in Nat /\ Cardinality(Forgotten) \in Nat
        /\ Cardinality(LeftBehind) <= Cardinality(Forgotten)
        /\ Cardinality(Forgotten) + budget.left <= MaxDisturb
    BY <2>1, OneMore DEF PaidInv, Paid
  <2>3. budget.left \in Nat /\ MaxDisturb \in Nat
    BY ConstantsAssumption DEF TypeOK, Budgets
  <2> QED
    BY <2>2, <2>3
<1> QED
  BY <1>1, TypeCorrect, TrailInvariant, PaidInvariant, PTL

-----------------------------------------------------------------------------
(* What others rely on                                                     *)

(* Where no copy that is behind is ever read, none has been.               *)
LEMMA StaysFresh ==
    ASSUME "stale" \notin Disturbances, TypeOK, [Next]_vars, ~budget.misread
    PROVE  ~budget'.misread
<1>1. CASE UNCHANGED budget
  BY <1>1
<1>2. ASSUME NEW d, Spend(d) PROVE ~budget'.misread
  BY <1>2 DEF Spend, TypeOK, Budgets
<1> QED
  BY <1>1, <1>2
     DEF Next, Environment, ClusterAPI, SetOwner, InfraReady, SetBootstrap,
         NodeJoins, Drain, DeleteInfra, RemoveMachine, ChangeMachine,
         DeleteMachine, DeleteDirect, Deliver, Resync, Crash, Boot, Start,
         StartFails, PassStep, AddHook, RemoveHook, UpdateFails, GetClient,
         GetClientFails, PassGate, StopAtGate, GetOwnerMachine,
         GetOwnerMachineFails, SkipSection, LookUp, CallFails,
         CreateInstance, Attach, CheckRunning, Withdraw, Destroy, AnswerLost,
         Answered, Finish, PatchMain, PatchStatus, PatchStatusFails, vars

(* The ids that were handed out stay so.                                   *)
LEMMA NextGrows ==
    ASSUME TypeOK, [Next]_vars
    PROVE  next' \in {next, next + 1}
  BY DEF Next, Environment, ClusterAPI, SetOwner, InfraReady, SetBootstrap,
         NodeJoins, Drain, DeleteInfra, RemoveMachine, ChangeMachine,
         DeleteMachine, DeleteDirect, Deliver, Resync, Crash, Boot, Start,
         StartFails, PassStep, AddHook, RemoveHook, UpdateFails, GetClient,
         GetClientFails, PassGate, StopAtGate, GetOwnerMachine,
         GetOwnerMachineFails, SkipSection, LookUp, CallFails,
         CreateInstance, Attach, CheckRunning, Withdraw, Destroy, AnswerLost,
         Answered, Finish, PatchMain, PatchStatus, PatchStatusFails, vars, cloud

(* The Machine goes after its WXOneMachine, which keeps no finalizer.      *)
OwnerInv == /\ api.exists => machine.exists
            /\ ~api.exists => ~api.fin

(* In the beginning both exist.                                            *)
LEMMA OwnerInit == Init => OwnerInv
  BY DEF Init, OwnerInv, NewObject, NewMachine

(* What the steps of the API server and of Patch make of the object        *)
LEMMA ObjectWrites ==
    ASSUME TypeOK, Marked(api) = api' \/ MergeMain(api) = api'
                     \/ MergeStatus(api) = api'
                     \/ [api EXCEPT !.owned = TRUE] = api'
    PROVE  /\ api'.exists => api.exists
           /\ api.exists => api'.exists \/ ~api'.fin
<1>1. CASE Marked(api) = api'
  BY <1>1, GoneType DEF Marked, TypeOK, Objects
<1>2. CASE MergeMain(api) = api'
  BY <1>2, GoneType DEF MergeMain, TypeOK, Objects
<1>3. CASE MergeStatus(api) = api'
  BY <1>3, MergeStatusFields
<1>4. CASE [api EXCEPT !.owned = TRUE] = api'
  BY <1>4 DEF TypeOK, Objects
<1> QED
  BY <1>1, <1>2, <1>3, <1>4

(* What has gone does not come back, and the Machine goes after its        *)
(* WXOneMachine.                                                           *)
LEMMA GoneStaysGone ==
    ASSUME TypeOK, [Next]_vars
    PROVE  /\ api'.exists => api.exists
           /\ machine'.exists => machine.exists
           /\ machine.exists /\ api.exists => machine'.exists
           /\ ~api'.exists => ~api'.fin \/ (~api.exists /\ api.fin)
<1>1. \/ UNCHANGED api
      \/ /\ api.exists
         /\ \/ Marked(api) = api' \/ MergeMain(api) = api'
            \/ MergeStatus(api) = api'
            \/ [api EXCEPT !.owned = TRUE] = api'
  <2>1. CASE Around \/ Start \/ Moves
    BY <2>1, AroundFrame DEF Start, Moves, GetClient, PassGate,
       GetOwnerMachine, SkipSection
  <2>2. CASE SetOwner \/ DeleteInfra \/ DeleteDirect
    BY <2>2 DEF SetOwner, DeleteInfra, DeleteDirect
  <2>3. CASE Crash \/ UpdateFails \/ RemoveHook \/ GetClientFails
               \/ StopAtGate \/ GetOwnerMachineFails \/ CallFails \/ AddHook
    BY <2>3 DEF Crash, UpdateFails, RemoveHook, GetClientFails, StopAtGate,
                GetOwnerMachineFails, CallFails, AddHook
  <2>4. CASE LookUp \/ CreateInstance \/ Attach \/ CheckRunning \/ Withdraw
               \/ Destroy \/ Finish
    BY <2>4 DEF LookUp, CreateInstance, Attach, CheckRunning, Withdraw,
                Destroy, Finish, Answered, AnswerLost
  <2>5. CASE PatchMain \/ PatchStatus \/ PatchStatusFails
    BY <2>5 DEF PatchMain, PatchStatus, PatchStatusFails
  <2> QED
    BY <2>1, <2>2, <2>3, <2>4, <2>5
       DEF Next, Environment, ClusterAPI, PassStep, Around, Moves
<1>2. \/ machine'.exists = machine.exists
      \/ ~machine'.exists /\ ~api.exists
  <2>1. CASE SetBootstrap \/ NodeJoins \/ DeleteMachine \/ Drain
               \/ RemoveMachine
    BY <2>1, MachineTypes
       DEF SetBootstrap, NodeJoins, DeleteMachine, Drain, RemoveMachine,
           ChangeMachine, TypeOK, Machines
  <2>2. CASE AddHook \/ RemoveHook
    BY <2>2 DEF AddHook, RemoveHook, UpdateHook, TypeOK, Machines
  <2>3. CASE SetOwner \/ InfraReady \/ DeleteInfra \/ DeleteDirect \/ Deliver
               \/ Resync \/ Crash \/ Boot \/ Start \/ StartFails
               \/ UpdateFails \/ GetClient \/ GetClientFails \/ PassGate
               \/ StopAtGate \/ GetOwnerMachine \/ GetOwnerMachineFails
               \/ SkipSection \/ UNCHANGED vars
    BY <2>3 DEF SetOwner, InfraReady, DeleteInfra, DeleteDirect, Deliver,
       Resync, Crash, Boot, Start, StartFails, UpdateFails, GetClient,
       GetClientFails, PassGate, StopAtGate, GetOwnerMachine,
       GetOwnerMachineFails, SkipSection, vars
  <2>4. CASE LookUp \/ CallFails \/ CreateInstance \/ Attach \/ CheckRunning
               \/ Withdraw \/ Destroy \/ Finish \/ PatchMain
               \/ PatchStatus \/ PatchStatusFails
    BY <2>4 DEF LookUp, CallFails, CreateInstance, Attach, CheckRunning,
       Withdraw, Destroy, Finish, PatchMain, PatchStatus, PatchStatusFails,
       Answered, AnswerLost
  <2> QED
    BY <2>1, <2>2, <2>3, <2>4 DEF Next, Environment, ClusterAPI, PassStep
<1> QED
  BY <1>1, <1>2, ObjectWrites

(* The Machine outlives its WXOneMachine.                                  *)
LEMMA OwnerStep ==
    ASSUME TypeOK, OwnerInv, [Next]_vars
    PROVE  OwnerInv'
  BY GoneStaysGone DEF OwnerInv

(* Instances are created in one section, routes change in two.             *)
LEMMA CallsOfPass ==
    ASSUME PassStep
    PROVE  /\ vms' \subseteq vms \/ CreateInstance
           /\ routes' = routes \/ Attach \/ Withdraw
<1>1. CASE AddHook \/ RemoveHook \/ UpdateFails \/ GetClient
             \/ GetClientFails \/ PassGate \/ StopAtGate \/ GetOwnerMachine
             \/ GetOwnerMachineFails \/ SkipSection \/ CallFails
             \/ LookUp \/ CheckRunning \/ Finish \/ PatchMain
             \/ PatchStatus \/ PatchStatusFails
  BY <1>1 DEF AddHook, RemoveHook, UpdateFails, GetClient, GetClientFails,
     PassGate, StopAtGate, GetOwnerMachine, GetOwnerMachineFails,
     SkipSection, CallFails, LookUp, CheckRunning, Finish, PatchMain,
     PatchStatus, PatchStatusFails, cloud
<1>2. CASE CreateInstance \/ Attach \/ Withdraw \/ Destroy
  BY <1>2 DEF CreateInstance, Attach, Withdraw, Destroy
<1> QED
  BY <1>1, <1>2 DEF PassStep

(* Once the Machine has gone, all that is left has been paid for.          *)
LEMMA LeftWithoutMachine ==
    ASSUME TypeOK, FinInv, Trail, Paid, OwnerInv, ~machine.exists
    PROVE  /\ Cardinality(vms) <= MaxDisturb - budget.left
           /\ Cardinality(routes) <= MaxDisturb - budget.left
<1>1. ~api.exists /\ api.instance = 0 /\ ~api.attached
  BY DEF OwnerInv, Trail
<1>2. Holder.instance = 0 /\ ~Holder.attached
  <2>1. CASE pc = "idle"
    BY <1>1, <2>1 DEF Holder
  <2>2. CASE pc \in {"hook", "finalizer"}
    BY <1>1, <2>2 DEF Holder, Trail, Patched
  <2>3. CASE pc \notin {"idle", "hook", "finalizer"}
    BY <1>1, <2>3 DEF Holder, Trail
  <2> QED
    BY <2>1, <2>2, <2>3
<1>3. vms \subseteq Forgotten /\ routes \subseteq Forgotten
  BY <1>2 DEF Forgotten, Trail, IdsInv
<1>4. /\ Cardinality(vms) \in Nat /\ Cardinality(routes) \in Nat
      /\ Cardinality(Forgotten) \in Nat
      /\ Cardinality(vms) <= Cardinality(Forgotten)
      /\ Cardinality(routes) <= Cardinality(Forgotten)
      /\ Cardinality(Forgotten) + budget.left <= MaxDisturb
  BY <1>3, OneMore DEF Paid
<1>5. budget.left \in Nat /\ MaxDisturb \in Nat
  BY ConstantsAssumption DEF TypeOK, Budgets
<1> QED
  BY <1>4, <1>5
=============================================================================
