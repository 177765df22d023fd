---------------------- MODULE ClusterController_proofs ----------------------
(***************************************************************************)
(* Theorems about ClusterController, for every set of disturbances, every  *)
(* bound on them and every answer of WX-ONE to a repeated deletion.        *)
(***************************************************************************)
EXTENDS ClusterController, Counting, TLAPS

(* Where a pass can be: only these sections patch, and the first one only  *)
(* patches.                                                                *)
Sections ==
    /\ step # "work" => pc \in {"finalizer", "finish"} \cup Kinds
    /\ pc = "finalizer" => step # "work"

-----------------------------------------------------------------------------
(* The objects *)

(* The object that is gone has no finalizer, no deletion timestamp, no ids. *)
LEMMA GoneType ==
    /\ Gone \in Objects /\ ~Gone.exists /\ ~Gone.deleting /\ ~Gone.fin
    /\ Gone.ids = [k \in Kinds |-> 0] /\ ~Gone.ready
  BY DEF Gone, NewObject, NoIds, None, Objects

(* Neither has the object that was just applied. *)
LEMMA NewObjectType ==
    /\ NewObject \in Objects /\ NewObject.exists /\ ~NewObject.deleting
    /\ ~NewObject.fin /\ NewObject.ids = [k \in Kinds |-> 0]
    /\ ~NewObject.ready
  BY DEF NewObject, NoIds, None, Objects

(* The first call of Patch makes an object of an object. *)
LEMMA MergeMainType ==
    ASSUME TypeOK
    PROVE  MergeMain(api) \in Objects
<1> DEFINE m == [api EXCEPT !.fin = Merged(before.fin, obj.fin, @),
                            !.endpoint = Merged(before.endpoint,
                                                obj.endpoint, @)]
<1>1. /\ Merged(before.fin, obj.fin, api.fin) \in BOOLEAN
      /\ Merged(before.endpoint, obj.endpoint, api.endpoint) \in Nat
  BY DEF TypeOK, Objects, Merged
<1>2. m \in Objects
  BY <1>1 DEF TypeOK, Objects
<1> QED
  BY <1>2, GoneType DEF MergeMain

(* So does the second. *)
LEMMA MergeStatusType ==
    ASSUME TypeOK
    PROVE  MergeStatus(api) \in Objects
<1>1. /\ Merged(before.project, obj.project, api.project) \in BOOLEAN
      /\ Merged(before.ready, obj.ready, api.ready) \in BOOLEAN
      /\ [k \in Kinds |-> Merged(before.ids[k], obj.ids[k], api.ids[k])]
           \in [Kinds -> Nat]
  BY DEF TypeOK, Objects, Merged
<1> QED
  BY <1>1 DEF MergeStatus, TypeOK, Objects

(* What is left of a budget is a budget. *)
LEMMA SpendType == ASSUME TypeOK, NEW d, Spend(d) PROVE budget' \in Budgets
  BY DEF TypeOK, Spend, Budgets

(* A section is followed by one that exists, the last one by the end. *)
LEMMA AfterType ==
    /\ \A p \in Kinds \cup {"project", "finalizer"} :
         After[p] \in Phases \ {"idle", "finalizer"}
    /\ After["finish"] = "idle"
  BY DEF After, Phases, Kinds

(* A pass that ends leaves a well-typed idle controller. *)
LEMMA EndPassType ==
    ASSUME TypeOK, EndPass, api' \in Objects, cached' \in Objects,
           queued' \in BOOLEAN, cloud' \in [Kinds -> SUBSET Nat],
           next' \in Nat, budget' \in Budgets
    PROVE  TypeOK' /\ Sections'
<1>1. TypeOK'
  BY GoneType DEF EndPass, TypeOK, Phases
<1>2. Sections'
  BY DEF EndPass, Sections
<1> QED
  BY <1>1, <1>2

-----------------------------------------------------------------------------
(* At the beginning everything has its shape.                              *)
LEMMA TypeInit == Init => TypeOK /\ Sections
<1> SUFFICES ASSUME Init PROVE TypeOK /\ Sections
  OBVIOUS
<1>1. budget \in Budgets
  BY ConstantsAssumption DEF Init, Budgets
<1>2. cloud \in [Kinds -> SUBSET Nat]
  BY DEF Init
<1>3. /\ api \in Objects /\ cached \in Objects
      /\ obj \in Objects /\ before \in Objects
  BY NewObjectType, GoneType DEF Init
<1> QED
  BY <1>1, <1>2, <1>3 DEF Init, TypeOK, Sections, Phases

(* Every step leaves it so.                                                *)
LEMMA TypeStep ==
    ASSUME TypeOK, Sections, [Next]_vars
    PROVE  TypeOK' /\ Sections'
<1>1. CASE SetOwner
  <2>1. [api EXCEPT !.owned = TRUE] \in Objects
    BY DEF TypeOK, Objects
  <2> QED
    BY <1>1, <2>1 DEF SetOwner, pass, TypeOK, Sections
<1>2. CASE RequestDelete
  <2>1. [api EXCEPT !.deleting = TRUE] \in Objects
    BY DEF TypeOK, Objects
  <2> QED
    BY <1>2, <2>1, GoneType DEF RequestDelete, pass, TypeOK, Sections
<1>3. CASE Deliver
  BY <1>3 DEF Deliver, pass, TypeOK, Sections
<1>4. CASE Resync
  BY <1>4 DEF Resync, pass, TypeOK, Sections
<1>5. CASE Crash
  BY <1>5, SpendType, EndPassType DEF Crash, Abort, TypeOK
<1>6. CASE Start
  <2>1. budget' \in Budgets
    BY <1>6, SpendType DEF Start, TypeOK
  <2>2. CASE ~cached.exists \/ ~cached.owned
    BY <1>6, <2>1, <2>2 DEF Start, pass, TypeOK, Sections
  <2>3. CASE ~(~cached.exists \/ ~cached.owned)
    <3>1. [cached EXCEPT !.fin = @ \/ ~cached.deleting] \in Objects
      BY DEF TypeOK, Objects
    <3>2. /\ before' = cached /\ obj' \in Objects
          /\ pc' \in {"client", "finalizer"}
          /\ step' = IF pc' = "finalizer" THEN "main" ELSE "work"
          /\ UNCHANGED <<client, failed>>
      BY <1>6, <2>3, <3>1 DEF Start, FirstSection
    <3> QED
      BY <1>6, <2>1, <3>2 DEF Start, TypeOK, Sections, Phases
  <2> QED
    BY <2>2, <2>3
<1>7. CASE StartFails
  BY <1>7, SpendType DEF StartFails, pass, TypeOK, Sections
<1>8. CASE GetClient
  <2>1. budget' \in Budgets /\ client' \in BOOLEAN
    BY <1>8, SpendType DEF GetClient, TypeOK
  <2> QED
    BY <1>8, <2>1 DEF GetClient, TypeOK, Sections, Phases, Kinds
<1>9. CASE GetClientFails
  BY <1>9, SpendType, EndPassType DEF GetClientFails, Abort, TypeOK
<1>10. CASE SkipSection
  BY <1>10, AfterType DEF SkipSection, TypeOK, Sections
<1>11. CASE GetProject
  <2>1. [obj EXCEPT !.project = TRUE] \in Objects
    BY DEF TypeOK, Objects
  <2> QED
    BY <1>11, <2>1, AfterType DEF GetProject, CallDue, TypeOK, Sections
<1>12. ASSUME NEW k \in Kinds, Create(k)
       PROVE  TypeOK' /\ Sections'
  <2>1. [obj EXCEPT !.ids[k] = next] \in Objects
    BY DEF TypeOK, Objects
  <2>2. [cloud EXCEPT ![k] = @ \cup {next}] \in [Kinds -> SUBSET Nat]
    BY DEF TypeOK
  <2> QED
    BY <1>12, <2>1, <2>2 DEF Create, Recorded, TypeOK, Sections
<1>13. ASSUME NEW k \in Kinds, CreateLost(k)
       PROVE  TypeOK' /\ Sections'
  <2>1. [cloud EXCEPT ![k] = @ \cup {next}] \in [Kinds -> SUBSET Nat]
    BY DEF TypeOK
  <2> QED
    BY <1>13, <2>1, SpendType, EndPassType DEF CreateLost, Abort, TypeOK
<1>14. ASSUME NEW k \in Kinds, Delete(k)
       PROVE  TypeOK' /\ Sections'
  <2>1. [obj EXCEPT !.ids[k] = None] \in Objects
    BY DEF TypeOK, Objects, None
  <2>2. [cloud EXCEPT ![k] = @ \ {obj.ids[k]}] \in [Kinds -> SUBSET Nat]
    BY DEF TypeOK
  <2>3. budget' \in Budgets /\ cloud' \in [Kinds -> SUBSET Nat]
    BY <1>14, <2>2, SpendType DEF Delete, TypeOK
  <2> QED
    BY <1>14, <2>1, <2>3 DEF Delete, Recorded, TypeOK, Sections
<1>15. ASSUME NEW k \in Kinds, DeleteLost(k)
       PROVE  TypeOK' /\ Sections'
  <2>1. [cloud EXCEPT ![k] = @ \ {obj.ids[k]}] \in [Kinds -> SUBSET Nat]
    BY DEF TypeOK
  <2> QED
    BY <1>15, <2>1, SpendType, EndPassType DEF DeleteLost, Abort, TypeOK
<1>16. CASE CallFails
  <2>1. budget' \in Budgets
    BY <1>16, SpendType DEF CallFails, TypeOK
  <2> QED
    BY <1>16, <2>1, EndPassType DEF CallFails, Abort, TypeOK
<1>17. CASE Finish
  <2>1. /\ [obj EXCEPT !.endpoint = obj.ids["floatingIP"], !.ready = TRUE]
             \in Objects
        /\ [obj EXCEPT !.fin = FALSE] \in Objects
    BY DEF TypeOK, Objects, Kinds
  <2> QED
    BY <1>17, <2>1 DEF Finish, TypeOK, Sections
<1>18. CASE PatchMain
  <2>1. api' \in Objects /\ failed' \in BOOLEAN /\ budget' \in Budgets
    BY <1>18, MergeMainType, SpendType DEF PatchMain, TypeOK
  <2> QED
    BY <1>18, <2>1 DEF PatchMain, TypeOK, Sections
<1>19. CASE PatchStatus
  <2>1. api' \in Objects
    BY <1>19, MergeStatusType DEF PatchStatus, TypeOK
  <2>2. CASE pc = "finish"
    BY <1>19, <2>1, <2>2, EndPassType DEF PatchStatus, TypeOK
  <2>3. CASE pc # "finish"
    <3>1. pc \in Kinds \cup {"project", "finalizer"}
      BY <1>19, <2>3 DEF PatchStatus, Sections
    <3> QED
      BY <1>19, <2>1, <2>3, <3>1, AfterType DEF PatchStatus, TypeOK, Sections
  <2> QED
    BY <2>2, <2>3
<1>20. CASE PatchStatusFails
  <2>1. api' \in Objects /\ budget' \in Budgets
    BY <1>20, MergeStatusType, SpendType DEF PatchStatusFails, TypeOK
  <2> QED
    BY <1>20, <2>1, EndPassType DEF PatchStatusFails, Abort, TypeOK
<1>21. CASE UNCHANGED vars
  BY <1>21 DEF vars, TypeOK, Sections
<1> QED
  BY <1>1, <1>2, <1>3, <1>4, <1>5, <1>6, <1>7, <1>8, <1>9, <1>10, <1>11,
     <1>12, <1>13, <1>14, <1>15, <1>16, <1>17, <1>18, <1>19, <1>20, <1>21
     DEF Next, Environment, PassStep

(* Whatever goes wrong, all objects keep their shape and a pass is always  *)
(* in a section that exists, about to patch only where the code patches.   *)
THEOREM TypeCorrect == Spec => [](TypeOK /\ Sections)
  BY TypeInit, TypeStep, PTL DEF Spec

-----------------------------------------------------------------------------
(* The finalizer *)

(* The API server keeps a deleted object exactly as long as its finalizer. *)
Marked(o) == o.exists /\ o.deleting => o.fin

(* What an informer copy tells about the object although it may be behind: *)
(* gone and deleting are final, and so is the finalizer until then.        *)
CacheInv ==
    /\ Marked(api) /\ Marked(cached)
    /\ ~cached.exists => ~api.exists
    /\ cached.deleting => ~api.exists \/ api.deleting
    /\ cached.exists /\ cached.fin /\ ~cached.deleting => api.exists /\ api.fin

(* The finalizer is on the API server's object from the end of the first   *)
(* section on, or from the start if the copy that was read had it.         *)
Guarded ==
    pc # "finalizer" \/ before.fin \/ (step = "status" /\ ~failed)

PassInv ==
    pc # "idle" =>
      /\ obj.deleting => before.fin /\ (~cached.exists \/ cached.deleting)
      /\ ~obj.deleting => obj.fin
      /\ ~obj.deleting /\ Guarded => api.exists /\ api.fin

FinInv == CacheInv /\ PassInv

(* A patch of the metadata only takes the finalizer off if the pass did.   *)
LEMMA MergeMainFields ==
    ASSUME TypeOK, Marked(api)
    PROVE  \/ /\ MergeMain(api) = Gone
              /\ api.deleting /\ before.fin /\ ~obj.fin
           \/ /\ MergeMain(api).exists = api.exists
              /\ MergeMain(api).deleting = api.deleting
              /\ MergeMain(api).fin = Merged(before.fin, obj.fin, api.fin)
              /\ api.deleting => MergeMain(api).fin
           \/ ~api.exists
<1> DEFINE f == Merged(before.fin, obj.fin, api.fin)
           e == Merged(before.endpoint, obj.endpoint, api.endpoint)
           m == [api EXCEPT !.fin = f, !.endpoint = e]
<1>1. /\ m.exists = api.exists /\ m.deleting = api.deleting /\ m.fin = f
  BY DEF TypeOK, Objects
<1>2. MergeMain(api) = IF m.deleting /\ ~m.fin THEN Gone ELSE m
  BY DEF MergeMain
<1> HIDE DEF m
<1>3. CASE m.deleting /\ ~m.fin /\ api.exists
  <2>1. ~f /\ api.deleting
    BY <1>1, <1>3
  <2>2. api.fin
    BY <1>3, <2>1 DEF Marked
  <2>3. before.fin /\ ~obj.fin
    BY <2>1, <2>2 DEF Merged, TypeOK, Objects
  <2> QED
    BY <1>2, <1>3, <2>1, <2>3
<1>4. CASE ~(m.deleting /\ ~m.fin)
  BY <1>1, <1>2, <1>4
<1> QED
  BY <1>3, <1>4

(* A patch of the status changes nothing else. *)
LEMMA MergeStatusFields ==
    ASSUME TypeOK
    PROVE  /\ MergeStatus(api).exists = api.exists
           /\ MergeStatus(api).deleting = api.deleting
           /\ MergeStatus(api).fin = api.fin
  BY DEF MergeStatus, TypeOK, Objects

(* A pass that ends does no harm. *)
LEMMA EndPassFin ==
    ASSUME CacheInv, EndPass, cached' = cached, api'.exists = api.exists,
           api'.deleting = api.deleting, api'.fin = api.fin
    PROVE  FinInv'
<1>1. CacheInv'
  BY DEF CacheInv, Marked
<1>2. PassInv'
  BY DEF PassInv, EndPass
<1> QED
  BY <1>1, <1>2 DEF FinInv

(* Nor does a pass that goes on behind its first section. *)
LEMMA MoveFin ==
    ASSUME FinInv, pc # "idle", Guarded, cached' = cached, before' = before,
           api'.exists = api.exists, api'.deleting = api.deleting,
           api'.fin = api.fin, obj'.deleting = obj.deleting,
           obj'.fin = obj.fin \/ obj.deleting
    PROVE  FinInv'
<1>1. CacheInv'
  BY DEF FinInv, CacheInv, Marked
<1>2. PassInv'
  BY DEF FinInv, PassInv, Guarded
<1> QED
  BY <1>1, <1>2 DEF FinInv

(* The object that was just applied has neither a deletion timestamp nor   *)
(* a finalizer.                                                            *)
LEMMA FinInit == Init => FinInv
  BY NewObjectType DEF Init, FinInv, CacheInv, PassInv, Marked

(* Every step leaves the two in order.                                     *)
LEMMA FinStep ==
    ASSUME TypeOK, Sections, FinInv, [Next]_vars
    PROVE  FinInv'
<1> USE DEF FinInv
<1>1. CASE SetOwner
  <2>1. /\ api'.exists = api.exists /\ api'.deleting = api.deleting
        /\ api'.fin = api.fin
    BY <1>1 DEF SetOwner, TypeOK, Objects
  <2> QED
    BY <1>1, <2>1 DEF SetOwner, pass, CacheInv, PassInv, Marked, Guarded
<1>2. CASE RequestDelete
  <2>1. CASE api.fin
    <3>1. /\ api'.exists /\ api'.deleting /\ api'.fin
      BY <1>2, <2>1 DEF RequestDelete, TypeOK, Objects
    <3> QED
      BY <1>2, <3>1 DEF RequestDelete, pass, CacheInv, PassInv, Marked,
                        Guarded
  <2>2. CASE ~api.fin
    <3>1. api' = Gone
      BY <1>2, <2>2 DEF RequestDelete
    <3> QED
      BY <1>2, <2>2, <3>1, GoneType
         DEF RequestDelete, pass, CacheInv, PassInv, Marked, Guarded
  <2> QED
    BY <2>1, <2>2
<1>3. CASE Deliver
  BY <1>3 DEF Deliver, pass, CacheInv, PassInv, Marked, Guarded
<1>4. CASE Resync
  BY <1>4 DEF Resync, pass, CacheInv, PassInv, Marked, Guarded
<1>5. CASE Crash
  BY <1>5 DEF Crash, Abort, EndPass, CacheInv, PassInv, Marked
<1>6. CASE Start
  <2>1. CASE ~cached.exists \/ ~cached.owned
    BY <1>6, <2>1 DEF Start, pass, CacheInv, PassInv, Marked, Guarded
  <2>2. CASE cached.exists /\ cached.owned
    <3>1. /\ obj'.deleting = cached.deleting
          /\ obj'.fin = (cached.fin \/ ~cached.deleting)
      BY <1>6, <2>2 DEF Start, TypeOK, Objects
    <3>2. /\ before' = cached /\ cached' = cached /\ api' = api
          /\ failed' = failed
          /\ ~cached.deleting => pc' = "finalizer" /\ step' = "main"
      BY <1>6, <2>2 DEF Start, FirstSection
    <3> QED
      BY <2>2, <3>1, <3>2 DEF CacheInv, PassInv, Marked, Guarded
  <2> QED
    BY <2>1, <2>2 DEF TypeOK, Objects
<1>7. CASE StartFails
  BY <1>7 DEF StartFails, pass, CacheInv, PassInv, Marked, Guarded
<1>8. CASE GetClient
  BY <1>8, MoveFin DEF GetClient, Guarded
<1>9. CASE GetClientFails
  BY <1>9, EndPassFin DEF GetClientFails, Abort
<1>10. CASE SkipSection
  BY <1>10, MoveFin DEF SkipSection, Guarded, Kinds
<1>11. CASE GetProject
  <2>1. obj'.deleting = obj.deleting /\ obj'.fin = obj.fin
    BY <1>11 DEF GetProject, TypeOK, Objects
  <2> QED
    BY <1>11, <2>1, MoveFin DEF GetProject, Guarded
<1>12. ASSUME NEW k \in Kinds, Create(k) \/ Delete(k)
       PROVE  FinInv'
  <2>1. obj'.deleting = obj.deleting /\ obj'.fin = obj.fin
    BY <1>12 DEF Create, Delete, Recorded, TypeOK, Objects
  <2>2. pc = k /\ UNCHANGED <<api, cached, before>>
    BY <1>12 DEF Create, Delete
  <2> QED
    BY <2>1, <2>2, MoveFin DEF Guarded, Kinds
<1>13. ASSUME NEW k \in Kinds, CreateLost(k) \/ DeleteLost(k)
       PROVE  FinInv'
  BY <1>13, EndPassFin DEF CreateLost, DeleteLost, Abort
<1>14. CASE CallFails
  BY <1>14, EndPassFin DEF CallFails, Abort
<1>15. CASE Finish
  <2>1. /\ obj'.deleting = obj.deleting
        /\ obj'.fin = obj.fin \/ obj.deleting
    BY <1>15 DEF Finish, TypeOK, Objects
  <2> QED
    BY <1>15, <2>1, MoveFin DEF Finish, Guarded
<1>16. CASE PatchMain
  <2>1. /\ UNCHANGED <<cached, before, obj, pc>>
        /\ pc # "idle" /\ step' = "status"
    BY <1>16 DEF PatchMain, Sections, Kinds
  <2>2. CASE api' = MergeMain(api) /\ api.exists /\ failed' = failed
    <3>1. CASE /\ MergeMain(api) = Gone
               /\ api.deleting /\ before.fin /\ ~obj.fin
      BY <2>1, <2>2, <3>1, GoneType DEF CacheInv, PassInv, Marked, Guarded
    <3>2. CASE /\ MergeMain(api).exists = api.exists
               /\ MergeMain(api).deleting = api.deleting
               /\ MergeMain(api).fin = Merged(before.fin, obj.fin, api.fin)
               /\ api.deleting => MergeMain(api).fin
      <4>1. ~obj.fin => api.deleting
        BY <2>1, <2>2 DEF CacheInv, PassInv
      <4>2. api'.fin = api.fin \/ (api'.fin /\ obj.fin)
        BY <2>2, <3>2, <4>1 DEF Merged, TypeOK, Objects, Marked, CacheInv
      <4>3. before.fin # obj.fin /\ obj.fin => api'.fin
        BY <2>2, <3>2 DEF Merged
      <4>4. api'.exists /\ api'.deleting = api.deleting
        BY <2>2, <3>2
      <4>5. CacheInv'
        BY <2>1, <2>2, <3>2, <4>2, <4>4 DEF CacheInv, Marked, TypeOK, Objects
      <4>6. PassInv'
        BY <2>1, <2>2, <4>2, <4>3, <4>4 DEF PassInv, Guarded, TypeOK, Objects
      <4> QED
        BY <4>5, <4>6
    <3> QED
      BY <2>2, <3>1, <3>2, MergeMainFields DEF CacheInv
  <2>3. CASE api' = api /\ ~MainDiffers /\ failed' = failed
    BY <2>1, <2>3 DEF MainDiffers, CacheInv, PassInv, Marked, Guarded
  <2>4. CASE api' = api /\ failed'
    BY <2>1, <2>4 DEF CacheInv, PassInv, Marked, Guarded
  <2> QED
    BY <1>16, <2>2, <2>3, <2>4 DEF PatchMain
<1>17. CASE PatchStatus
  <2>1. /\ api'.exists = api.exists /\ api'.deleting = api.deleting
        /\ api'.fin = api.fin
    BY <1>17, MergeStatusFields DEF PatchStatus
  <2>2. CASE pc = "finish"
    BY <1>17, <2>1, <2>2, EndPassFin DEF PatchStatus
  <2>3. CASE pc # "finish"
    <3>1. pc # "idle" /\ Guarded /\ UNCHANGED <<cached, before, obj>>
      BY <1>17, <2>3 DEF PatchStatus, Sections, Guarded, Kinds
    <3> QED
      BY <2>1, <3>1, MoveFin
  <2> QED
    BY <2>2, <2>3
<1>18. CASE PatchStatusFails
  <2>1. /\ api'.exists = api.exists /\ api'.deleting = api.deleting
        /\ api'.fin = api.fin
    BY <1>18, MergeStatusFields DEF PatchStatusFails
  <2> QED
    BY <1>18, <2>1, EndPassFin DEF PatchStatusFails, Abort
<1>19. CASE UNCHANGED vars
  BY <1>19 DEF vars, CacheInv, PassInv, Marked, Guarded
<1> QED
  BY <1>1, <1>2, <1>3, <1>4, <1>5, <1>6, <1>7, <1>8, <1>9, <1>10, <1>11,
     <1>12, <1>13, <1>14, <1>15, <1>16, <1>17, <1>18, <1>19
     DEF Next, Environment, PassStep

(* The deletion timestamp and the finalizer as the API server, the cache   *)
(* and the pass hold them fit together, whatever goes wrong.               *)
THEOREM FinalizerInvariant == Spec => []FinInv
  BY FinInit, FinStep, TypeCorrect, PTL DEF Spec

(* Whatever goes wrong and however often, a pass only creates something in *)
(* WX-ONE while the API server holds the object with its finalizer.        *)
THEOREM FinalizerFirst == Spec => []CreateUnderFinalizer
<1>1. FinInv /\ Sections => CreateUnderFinalizer
  BY DEF FinInv, PassInv, Guarded, Sections, CreateUnderFinalizer, CallDue,
         Kinds
<1> QED
  BY <1>1, FinalizerInvariant, TypeCorrect, PTL

-----------------------------------------------------------------------------
(* What exists in WX-ONE, as long as only reads, logins and cloud calls    *)
(* fail                                                                    *)

Benign == {"read", "auth", "me", "call"}

IdsInv ==
    /\ next > 0
    /\ \A k \in Kinds : /\ 0 \notin cloud[k]
                        /\ api.ids[k] < next
                        /\ obj.ids[k] < next
                        /\ before.ids[k] < next

(* Between passes the object knows everything that exists, and without     *)
(* the finalizer there is nothing to know.                                 *)
IdleInv ==
    /\ pc = "idle" => \A k \in Kinds : cloud[k] \subseteq {api.ids[k]}
    /\ ~api.exists \/ ~api.fin => \A k \in Kinds : cloud[k] = {}
    /\ failed => ~api.exists

(* In a pass its copy knows everything; it differs from the object by what *)
(* has not been patched yet, and nobody else writes the ids.               *)
Known(k) ==
    /\ cloud[k] \subseteq {obj.ids[k]}
    /\ obj.deleting => \/ obj.ids[k] = 0
                       \/ obj.fin /\ obj.ids[k] = before.ids[k]
    /\ ~obj.deleting => before.ids[k] = 0 \/ before.ids[k] = obj.ids[k]
    /\ api.exists => /\ obj.ids[k] = before.ids[k]
                          => api.ids[k] = before.ids[k]
                     /\ step = "work" => api.ids[k] = obj.ids[k]

KnownInv == pc # "idle" => \A k \in Kinds : Known(k)

OwnInv == IdsInv /\ IdleInv /\ KnownInv

(* None of the other disturbances happens. *)
LEMMA BenignSpend ==
    ASSUME Disturbances \subseteq Benign
    PROVE  /\ ~Spend("crash") /\ ~Spend("stale") /\ ~Spend("lost")
           /\ ~Spend("inband") /\ ~Spend("patch")
  BY DEF Spend, Benign

(* The object that is gone records nothing. *)
LEMMA GoneIds == \A k \in Kinds : Gone.ids[k] = 0
  BY GoneType

(* A pass that ends when all it did is patched, or the object is gone,     *)
(* loses nothing.                                                          *)
LEMMA EndPassOwn ==
    ASSUME TypeOK, OwnInv, EndPass, pc # "idle",
           UNCHANGED <<cloud, next, api>>,
           ~api.exists \/ \A k \in Kinds : api.ids[k] = obj.ids[k]
    PROVE  OwnInv'
<1>1. IdsInv'
  BY GoneIds DEF OwnInv, IdsInv, EndPass
<1>2. IdleInv'
  BY DEF OwnInv, IdleInv, KnownInv, Known, EndPass
<1>3. KnownInv'
  BY DEF KnownInv, EndPass
<1> QED
  BY <1>1, <1>2, <1>3 DEF OwnInv

(* A step of a pass that touches neither ids nor resources.                *)
LEMMA MoveOwn ==
    ASSUME OwnInv, pc # "idle", pc' # "idle",
           UNCHANGED <<cloud, next, before, step, failed>>,
           api' = api, obj'.ids = obj.ids, obj'.fin = obj.fin,
           obj'.deleting = obj.deleting
    PROVE  OwnInv'
<1>1. IdsInv' /\ IdleInv'
  BY DEF OwnInv, IdsInv, IdleInv
<1>2. KnownInv'
  BY DEF OwnInv, KnownInv, Known
<1> QED
  BY <1>1, <1>2 DEF OwnInv

(* If only reads, logins and cloud calls fail, what exists in WX-ONE is    *)
(* known to the object, or to the pass that is about to record it.         *)
THEOREM OwnershipInvariant ==
    ASSUME Disturbances \subseteq Benign
    PROVE  Spec => []OwnInv
<1>1. Init => OwnInv
  BY GoneType, NewObjectType
     DEF Init, OwnInv, IdsInv, IdleInv, KnownInv
<1>2. TypeOK /\ Sections /\ FinInv /\ OwnInv /\ [Next]_vars => OwnInv'
  <2> SUFFICES ASSUME TypeOK, Sections, FinInv, OwnInv, [Next]_vars
               PROVE  OwnInv'
    OBVIOUS
  <2>1. CASE SetOwner
    <3>1. /\ api'.exists = api.exists /\ api'.fin = api.fin
          /\ api'.ids = api.ids
      BY <2>1 DEF SetOwner, TypeOK, Objects
    <3> QED
      BY <2>1, <3>1
         DEF SetOwner, pass, OwnInv, IdsInv, IdleInv, KnownInv, Known
  <2>2. CASE RequestDelete
    <3>1. CASE api.fin
      <4>1. /\ api'.exists = api.exists /\ api'.fin = api.fin
            /\ api'.ids = api.ids
        BY <2>2, <3>1 DEF RequestDelete, TypeOK, Objects
      <4> QED
        BY <2>2, <4>1 DEF RequestDelete, pass, OwnInv, IdsInv, IdleInv,
                          KnownInv, Known
    <3>2. CASE ~api.fin
      <4>1. api' = Gone /\ UNCHANGED <<pass, cloud, next>>
        BY <2>2, <3>2 DEF RequestDelete
      <4>2. IdsInv' /\ IdleInv'
        BY <3>2, <4>1, GoneType, GoneIds DEF pass, OwnInv, IdsInv, IdleInv
      <4>3. KnownInv'
        BY <4>1, GoneType DEF pass, OwnInv, KnownInv, Known
      <4> QED
        BY <4>2, <4>3 DEF OwnInv
    <3> QED
      BY <3>1, <3>2
  <2>3. CASE Deliver \/ Resync \/ StartFails
    BY <2>3 DEF Deliver, Resync, StartFails, pass, OwnInv, IdsInv, IdleInv,
                KnownInv, Known
  <2>4. ~Crash
    BY BenignSpend DEF Crash
  <2>5. CASE Start
    <3>1. cached = api /\ pc = "idle" /\ UNCHANGED <<api, cloud, next, failed>>
      BY <2>5, BenignSpend DEF Start, pass
    <3>2. CASE ~cached.exists \/ ~cached.owned
      BY <2>5, <3>1, <3>2
         DEF Start, pass, OwnInv, IdsInv, IdleInv, KnownInv, Known
    <3>3. CASE cached.exists /\ cached.owned
      <4>1. before' = api /\ obj' = [api EXCEPT !.fin = @ \/ ~api.deleting]
        BY <2>5, <3>1, <3>3 DEF Start
      <4>2. /\ obj'.ids = api.ids /\ obj'.deleting = api.deleting
            /\ obj'.fin = (api.fin \/ ~api.deleting)
        BY <4>1 DEF TypeOK, Objects
      <4>3. obj'.deleting => obj'.fin
        BY <3>1, <3>3, <4>2 DEF FinInv, CacheInv, Marked
      <4>4. IdsInv' /\ IdleInv'
        BY <3>1, <4>1, <4>2 DEF OwnInv, IdsInv, IdleInv
      <4>5. KnownInv'
        BY <3>1, <4>1, <4>2, <4>3 DEF OwnInv, IdleInv, KnownInv, Known
      <4> QED
        BY <4>4, <4>5 DEF OwnInv
    <3> QED
      BY <3>2, <3>3 DEF TypeOK, Objects
  <2>6. CASE GetClient
    BY <2>6, MoveOwn DEF GetClient
  <2>7. CASE SkipSection
    <3>1. pc # "idle" /\ pc' # "idle"
      BY <2>7, AfterType DEF SkipSection, Kinds
    <3> QED
      BY <2>7, <3>1, MoveOwn DEF SkipSection
  <2>8. CASE GetProject
    <3>1. /\ obj'.ids = obj.ids /\ obj'.fin = obj.fin
          /\ obj'.deleting = obj.deleting
      BY <2>8 DEF GetProject, TypeOK, Objects
    <3>2. pc # "idle" /\ pc' # "idle"
      BY <2>8, AfterType DEF GetProject
    <3> QED
      BY <2>8, <3>1, <3>2, MoveOwn DEF GetProject
  <2>9. CASE GetClientFails \/ CallFails
    <3>1. /\ EndPass /\ UNCHANGED <<api, cloud, next>> /\ pc # "idle"
      BY <2>9 DEF GetClientFails, CallFails, CallDue, Abort, Kinds
    <3>2. step = "work"
      BY <2>9 DEF GetClientFails, CallFails, CallDue, Sections, Kinds
    <3> QED
      BY <3>1, <3>2, EndPassOwn DEF OwnInv, KnownInv, Known
  <2>10. ASSUME NEW k \in Kinds, Create(k)
         PROVE  OwnInv'
    <3>1. /\ pc = k /\ pc' = pc /\ pc # "idle" /\ pc # "finalizer"
          /\ step = "work" /\ step' = "main" /\ ~obj.deleting
          /\ obj.ids[k] = 0 /\ next' = next + 1
          /\ cloud' = [cloud EXCEPT ![k] = @ \cup {next}]
          /\ UNCHANGED <<api, before, failed>>
      BY <2>10 DEF Create, CallDue, None, Kinds, TypeOK, Objects
    <3>2. /\ obj'.ids = [obj.ids EXCEPT ![k] = next]
          /\ obj'.fin = obj.fin /\ obj'.deleting = obj.deleting
      BY <2>10 DEF Create, Recorded, TypeOK, Objects
    <3>3. api.exists /\ api.fin
      BY <3>1 DEF FinInv, PassInv, Guarded
    <3>4. /\ obj'.ids[k] = next /\ cloud'[k] = cloud[k] \cup {next}
          /\ \A j \in Kinds \ {k} : /\ obj'.ids[j] = obj.ids[j]
                                   /\ cloud'[j] = cloud[j]
      BY <3>1, <3>2 DEF TypeOK, Objects
    <3>5. /\ next \in Nat
          /\ \A j \in Kinds : /\ api.ids[j] \in Nat /\ before.ids[j] \in Nat
                              /\ obj.ids[j] \in Nat
      BY DEF TypeOK, Objects
    <3>6. IdsInv'
      BY <3>1, <3>4, <3>5 DEF OwnInv, IdsInv
    <3>7. IdleInv'
      BY <3>1, <3>3 DEF OwnInv, IdleInv
    <3>8. cloud[k] = {} /\ before.ids[k] # next
      BY <3>1, <3>5 DEF OwnInv, IdsInv, KnownInv, Known
    <3>9. Known(k)'
      BY <3>1, <3>2, <3>4, <3>8 DEF OwnInv, KnownInv, Known
    <3>10. ASSUME NEW j \in Kinds \ {k} PROVE Known(j)'
      BY <3>1, <3>2, <3>4 DEF OwnInv, KnownInv, Known
    <3> QED
      BY <3>6, <3>7, <3>9, <3>10 DEF OwnInv, KnownInv
  <2>11. ASSUME NEW k \in Kinds, Delete(k)
         PROVE  OwnInv'
    <3>1. /\ pc = k /\ pc' = pc /\ pc # "idle"
          /\ step = "work" /\ step' = "main" /\ obj.deleting
          /\ obj.ids[k] # 0 /\ next' = next
          /\ cloud' = [cloud EXCEPT ![k] = @ \ {obj.ids[k]}]
          /\ UNCHANGED <<api, before, failed>>
      BY <2>11, BenignSpend DEF Delete, CallDue, None, Kinds, TypeOK, Objects
    <3>2. /\ obj'.ids = [obj.ids EXCEPT ![k] = 0]
          /\ obj'.fin = obj.fin /\ obj'.deleting = obj.deleting
      BY <2>11 DEF Delete, Recorded, TypeOK, Objects, None
    <3>3. /\ obj'.ids[k] = 0 /\ cloud'[k] = cloud[k] \ {obj.ids[k]}
          /\ \A j \in Kinds \ {k} : /\ obj'.ids[j] = obj.ids[j]
                                   /\ cloud'[j] = cloud[j]
      BY <3>1, <3>2 DEF TypeOK, Objects
    <3>4. IdsInv'
      BY <3>1, <3>3 DEF OwnInv, IdsInv
    <3>5. IdleInv'
      BY <3>1, <3>3 DEF OwnInv, IdleInv
    <3>6. cloud'[k] = {} /\ before.ids[k] # 0
      BY <3>1, <3>3 DEF OwnInv, KnownInv, Known
    <3>7. Known(k)'
      BY <3>1, <3>2, <3>3, <3>6 DEF OwnInv, KnownInv, Known
    <3>8. ASSUME NEW j \in Kinds \ {k} PROVE Known(j)'
      BY <3>1, <3>2, <3>3 DEF OwnInv, KnownInv, Known
    <3> QED
      BY <3>4, <3>5, <3>7, <3>8 DEF OwnInv, KnownInv
  <2>12. ASSUME NEW k \in Kinds PROVE ~CreateLost(k) /\ ~DeleteLost(k)
    BY BenignSpend DEF CreateLost, DeleteLost
  <2>13. CASE Finish
    <3>1. /\ obj'.ids = obj.ids /\ obj'.deleting = obj.deleting
          /\ obj'.fin = obj.fin \/ \A k \in Kinds : obj.ids[k] = 0
      BY <2>13 DEF Finish, TypeOK, Objects, None
    <3> QED
      BY <2>13, <3>1 DEF Finish, OwnInv, IdsInv, IdleInv, KnownInv, Known
  <2>14. CASE PatchMain
    <3>1. /\ UNCHANGED <<cloud, next, before, obj, pc>>
          /\ pc # "idle" /\ step' = "status"
      BY <2>14 DEF PatchMain, Sections, Kinds
    <3>2. CASE api' = MergeMain(api) /\ api.exists /\ failed' = failed
      <4>1. CASE /\ MergeMain(api) = Gone /\ api.deleting
                 /\ before.fin /\ ~obj.fin
        <5>1. obj.deleting
          BY <3>1, <4>1 DEF FinInv, PassInv
        <5>2. \A k \in Kinds : cloud[k] = {}
          BY <3>1, <4>1, <5>1 DEF OwnInv, IdsInv, KnownInv, Known
        <5>3. IdsInv' /\ IdleInv'
          BY <3>1, <3>2, <4>1, <5>2, GoneType, GoneIds
             DEF OwnInv, IdsInv, IdleInv
        <5>4. KnownInv'
          BY <3>1, <3>2, <4>1, GoneType DEF OwnInv, KnownInv, Known
        <5> QED
          BY <5>3, <5>4 DEF OwnInv
      <4>2. CASE MergeMain(api) # Gone
        <5>1. /\ api'.exists = api.exists /\ api'.ids = api.ids
          BY <3>2, <4>2 DEF MergeMain, TypeOK, Objects
        <5>2. /\ api'.fin = Merged(before.fin, obj.fin, api.fin)
          BY <3>2, <4>2, MergeMainFields DEF FinInv, CacheInv
        <5>3. api.fin => api'.fin \/ (obj.deleting /\ ~obj.fin)
          BY <3>1, <5>2 DEF Merged, FinInv, PassInv, TypeOK, Objects
        <5>4. obj.deleting /\ ~obj.fin => \A k \in Kinds : cloud[k] = {}
          BY <3>1 DEF OwnInv, IdsInv, KnownInv, Known
        <5>5. IdsInv' /\ IdleInv'
          BY <3>1, <3>2, <5>1, <5>3, <5>4 DEF OwnInv, IdsInv, IdleInv
        <5>6. KnownInv'
          BY <3>1, <5>1 DEF OwnInv, KnownInv, Known
        <5> QED
          BY <5>5, <5>6 DEF OwnInv
      <4> QED
        BY <3>2, <4>1, <4>2, MergeMainFields, GoneType DEF FinInv, CacheInv
    <3>3. CASE api' = api /\ ~MainDiffers /\ failed' = failed
      BY <3>1, <3>3 DEF OwnInv, IdsInv, IdleInv, KnownInv, Known
    <3>4. CASE api' = api /\ ~api.exists
      BY <3>1, <3>4 DEF OwnInv, IdsInv, IdleInv, KnownInv, Known
    <3> QED
      BY <2>14, <3>2, <3>3, <3>4, BenignSpend DEF PatchMain
  <2>15. CASE PatchStatus
    <3>1. pc # "idle" /\ UNCHANGED <<cloud, next>>
      BY <2>15 DEF PatchStatus, Sections, Kinds
    <3>2. /\ api'.exists = api.exists /\ api'.fin = api.fin
      BY <2>15, MergeStatusFields DEF PatchStatus
    <3>3. ~api.exists => api' = api
      BY <2>15 DEF PatchStatus
    <3>4. ASSUME api.exists, NEW k \in Kinds PROVE api'.ids[k] = obj.ids[k]
      <4>1. obj.ids[k] = before.ids[k] => api.ids[k] = obj.ids[k]
        BY <3>1, <3>4 DEF OwnInv, KnownInv, Known
      <4>2. MergeStatus(api).ids[k]
              = Merged(before.ids[k], obj.ids[k], api.ids[k])
        BY DEF MergeStatus, TypeOK, Objects
      <4>3. CASE StatusDiffers
        BY <2>15, <3>4, <4>1, <4>2, <4>3 DEF PatchStatus, Merged
      <4>4. CASE ~StatusDiffers
        BY <2>15, <4>1, <4>4 DEF PatchStatus, StatusDiffers
      <4> QED
        BY <4>3, <4>4
    <3>5. CASE pc = "finish"
      <4>1. EndPass
        BY <2>15, <3>5 DEF PatchStatus
      <4>2. IdsInv'
        BY <3>1, <3>3, <3>4, <4>1, GoneIds DEF OwnInv, IdsInv, EndPass
      <4>3. IdleInv'
        BY <3>1, <3>2, <3>3, <3>4, <4>1
           DEF OwnInv, IdleInv, KnownInv, Known, EndPass
      <4>4. KnownInv'
        BY <4>1 DEF KnownInv, EndPass
      <4> QED
        BY <4>2, <4>3, <4>4 DEF OwnInv
    <3>6. CASE pc # "finish"
      <4>1. UNCHANGED <<obj, before, failed>> /\ step' = "work"
        BY <2>15, <3>6 DEF PatchStatus
      <4>2. pc' # "idle"
        BY <2>15, <3>6, AfterType DEF PatchStatus, Sections
      <4>3. IdsInv'
        BY <3>1, <3>3, <3>4, <4>1 DEF OwnInv, IdsInv
      <4>4. IdleInv'
        BY <3>1, <3>2, <4>1, <4>2 DEF OwnInv, IdleInv
      <4>5. KnownInv'
        BY <3>1, <3>2, <3>4, <4>1 DEF OwnInv, KnownInv, Known
      <4> QED
        BY <4>3, <4>4, <4>5 DEF OwnInv
    <3> QED
      BY <3>5, <3>6
  <2>16. CASE PatchStatusFails
    <3>1. ~api.exists
      BY <2>16, BenignSpend DEF PatchStatusFails, OwnInv, IdleInv
    <3> QED
      BY <2>16, <3>1, EndPassOwn DEF PatchStatusFails, Abort, Sections, Kinds
  <2>17. CASE UNCHANGED vars
    BY <2>17 DEF vars, OwnInv, IdsInv, IdleInv, KnownInv, Known
  <2> QED
    BY <2>1, <2>2, <2>3, <2>4, <2>5, <2>6, <2>7, <2>8, <2>9, <2>10, <2>11,
       <2>12, <2>13, <2>14, <2>15, <2>16, <2>17
       DEF Next, Environment, PassStep
<1> QED
  BY <1>1, <1>2, TypeCorrect, FinalizerInvariant, PTL DEF Spec

(* Failing reads, logins and cloud calls never leave a resource in WX-ONE  *)
(* that neither the object nor the pass that is running knows, ...         *)
THEOREM NothingOrphaned ==
    ASSUME Disturbances \subseteq Benign
    PROVE  Spec => []NoOrphans
<1>1. TypeOK /\ OwnInv => NoOrphans
  BY DEF OwnInv, IdleInv, KnownInv, Known, NoOrphans, Orphans
<1> QED
  BY <1>1, OwnershipInvariant, TypeCorrect, PTL

(* ... and the object only goes away when nothing of it is left there.     *)
THEOREM ObjectOutlivesResources ==
    ASSUME Disturbances \subseteq Benign
    PROVE  Spec => []CleanedUp
<1>1. OwnInv => CleanedUp
  BY DEF OwnInv, IdleInv, CleanedUp
<1> QED
  BY <1>1, OwnershipInvariant, PTL

-----------------------------------------------------------------------------
(* What a ready cluster reports, as long as only reads, logins and cloud   *)
(* calls fail                                                              *)

(* An object that is ready records all of its resources, and the floating  *)
(* IP is its endpoint.                                                     *)
Serving(o) ==
    ~o.deleting /\ o.ready => /\ \A k \in Kinds : o.ids[k] # 0
                              /\ o.endpoint = o.ids["floatingIP"]

(* What is recorded exists. *)
HeldInv ==
    \A k \in Kinds :
      /\ pc = "idle" /\ api.exists /\ api.ids[k] # 0
           => api.ids[k] \in cloud[k]
      /\ pc # "idle" /\ obj.ids[k] # 0 => obj.ids[k] \in cloud[k]

(* Between passes what is ready serves. *)
ReadyInv ==
    /\ pc = "idle" /\ api.exists => Serving(api)
    /\ ~api.exists \/ ~api.fin => ~api.ready

(* Only the last section writes the endpoint and the announcement, in two  *)
(* calls, and the object follows its copy.                                 *)
AnnounceInv ==
    /\ obj.deleting = before.deleting
    /\ Serving(before) /\ Serving(obj)
    /\ obj.deleting \/ pc # "finish" \/ step = "work"
         => obj.ready = before.ready /\ obj.endpoint = before.endpoint
    /\ ~obj.deleting /\ before.ready => obj.ready
    /\ api.exists =>
         /\ api.ready = before.ready
         /\ api.endpoint = IF step = "main" THEN before.endpoint
                                            ELSE obj.endpoint

ServeInv == /\ HeldInv /\ ReadyInv
            /\ pc # "idle" => AnnounceInv

(* A pass that ends with everything patched, or whose object is gone.      *)
LEMMA EndPassServe ==
    ASSUME TypeOK, FinInv, OwnInv, ServeInv, EndPass, pc # "idle",
           UNCHANGED <<cloud, api, cached>>, ~api.exists \/ step = "work"
    PROVE  ServeInv'
<1>1. api.exists => /\ obj.ids = api.ids /\ obj.ready = api.ready
                    /\ obj.endpoint = api.endpoint
                    /\ ~api.deleting => ~obj.deleting
  BY DEF FinInv, CacheInv, PassInv, OwnInv, KnownInv, Known, ServeInv,
         AnnounceInv, TypeOK, Objects
<1>2. HeldInv'
  BY <1>1 DEF ServeInv, HeldInv, EndPass
<1>3. ReadyInv'
  BY <1>1 DEF ServeInv, ReadyInv, AnnounceInv, Serving, EndPass
<1> QED
  BY <1>2, <1>3 DEF ServeInv, EndPass

(* A step that only moves on.                                              *)
LEMMA MoveServe ==
    ASSUME ServeInv, pc # "idle", pc' # "idle", step = "work",
           UNCHANGED <<cloud, api, before, step>>, obj'.ids = obj.ids,
           obj'.deleting = obj.deleting, obj'.ready = obj.ready,
           obj'.endpoint = obj.endpoint
    PROVE  ServeInv'
  BY DEF ServeInv, HeldInv, ReadyInv, AnnounceInv, Serving

(* Only the finalizer and the deletion timestamp of the object change, or  *)
(* it goes without ever having had the finalizer.                          *)
LEMMA OutsideServe ==
    ASSUME ServeInv, UNCHANGED <<pass, cloud>>,
           \/ /\ api'.exists = api.exists /\ api'.fin = api.fin
              /\ api'.ids = api.ids /\ api'.ready = api.ready
              /\ api'.endpoint = api.endpoint
              /\ api.deleting => api'.deleting
           \/ ~api'.exists /\ ~api'.ready
    PROVE  ServeInv'
  BY DEF ServeInv, HeldInv, ReadyInv, AnnounceInv, Serving, pass

(* The status patch writes what the pass has found, on an object that is   *)
(* there.                                                                  *)
LEMMA PatchStatusWrites ==
    ASSUME TypeOK, OwnInv, ServeInv, PatchStatus, api.exists, pc # "idle"
    PROVE  /\ api'.exists = api.exists /\ api'.fin = api.fin
           /\ api'.deleting = api.deleting /\ api'.endpoint = api.endpoint
           /\ \A k \in Kinds : api'.ids[k] = obj.ids[k]
           /\ api'.ready = obj.ready
<1>1. ASSUME NEW k \in Kinds
      PROVE  /\ obj.ids[k] = before.ids[k] => api.ids[k] = obj.ids[k]
             /\ MergeStatus(api).ids[k]
                  = Merged(before.ids[k], obj.ids[k], api.ids[k])
  BY DEF OwnInv, KnownInv, Known, MergeStatus, TypeOK, Objects
<1>2. /\ MergeStatus(api).ready = Merged(before.ready, obj.ready, api.ready)
      /\ MergeStatus(api).endpoint = api.endpoint
      /\ api.ready = before.ready
  BY DEF MergeStatus, TypeOK, Objects, ServeInv, AnnounceInv
<1>3. CASE StatusDiffers
  BY <1>1, <1>2, <1>3, MergeStatusFields DEF PatchStatus, Merged
<1>4. CASE ~StatusDiffers
  BY <1>1, <1>2, <1>4 DEF PatchStatus, StatusDiffers
<1> QED
  BY <1>3, <1>4

(* If only reads, logins and cloud calls fail, what is recorded exists and *)
(* what is announced is recorded.                                          *)
THEOREM ServingInvariant ==
    ASSUME Disturbances \subseteq Benign
    PROVE  Spec => []ServeInv
<1>1. Init => ServeInv
  BY GoneType, NewObjectType
     DEF Init, ServeInv, HeldInv, ReadyInv, Serving
<1>2. TypeOK /\ Sections /\ FinInv /\ OwnInv /\ ServeInv /\ [Next]_vars
        => ServeInv'
  <2> SUFFICES ASSUME TypeOK, Sections, FinInv, OwnInv, ServeInv, [Next]_vars
               PROVE  ServeInv'
    OBVIOUS
  <2>1. CASE SetOwner \/ RequestDelete
    <3>1. \/ /\ api'.exists = api.exists /\ api'.fin = api.fin
             /\ api'.ids = api.ids /\ api'.ready = api.ready
             /\ api'.endpoint = api.endpoint
             /\ api.deleting => api'.deleting
          \/ ~api'.exists /\ ~api'.ready
      BY <2>1, GoneType DEF SetOwner, RequestDelete, TypeOK, Objects
    <3> QED
      BY <2>1, <3>1, OutsideServe DEF SetOwner, RequestDelete
  <2>2. CASE Deliver \/ Resync \/ StartFails \/ UNCHANGED vars
    BY <2>2, OutsideServe DEF Deliver, Resync, StartFails, vars, pass
  <2>3. ~Crash
    BY BenignSpend DEF Crash
  <2>4. CASE Start
    <3>1. cached = api /\ pc = "idle" /\ UNCHANGED <<api, cloud>>
      BY <2>4, BenignSpend DEF Start
    <3>2. CASE ~cached.exists \/ ~cached.owned
      BY <2>4, <3>1, <3>2, OutsideServe DEF Start
    <3>3. CASE cached.exists /\ cached.owned
      <4>1. before' = api /\ obj' = [api EXCEPT !.fin = @ \/ ~api.deleting]
        BY <2>4, <3>1, <3>3 DEF Start
      <4>2. /\ obj'.ids = api.ids /\ obj'.deleting = api.deleting
            /\ obj'.ready = api.ready /\ obj'.endpoint = api.endpoint
        BY <4>1 DEF TypeOK, Objects
      <4>3. HeldInv' /\ ReadyInv'
        BY <3>1, <3>3, <4>2 DEF ServeInv, HeldInv, ReadyInv, Serving
      <4>4. pc' # "idle"
        BY <2>4, <3>3 DEF Start, FirstSection
      <4>5. pc' = "finalizer" \/ pc' = "client"
        BY <2>4, <3>3 DEF Start, FirstSection
      <4>6. AnnounceInv'
        BY <3>1, <3>3, <4>1, <4>2, <4>5
           DEF ServeInv, ReadyInv, AnnounceInv, Serving, TypeOK, Objects
      <4> QED
        BY <4>3, <4>6 DEF ServeInv
    <3> QED
      BY <3>2, <3>3 DEF TypeOK, Objects
  <2>5. CASE GetClient \/ SkipSection \/ GetProject
    <3>1. pc # "idle" /\ pc' # "idle"
      BY <2>5, AfterType DEF GetClient, SkipSection, GetProject, Kinds
    <3>2. step = "work"
      BY <2>5 DEF GetClient, SkipSection, GetProject, CallDue, Sections, Kinds
    <3>3. /\ obj'.ids = obj.ids /\ obj'.deleting = obj.deleting
          /\ obj'.ready = obj.ready /\ obj'.endpoint = obj.endpoint
      BY <2>5 DEF GetClient, SkipSection, GetProject, TypeOK, Objects
    <3> QED
      BY <2>5, <3>1, <3>2, <3>3, MoveServe
         DEF GetClient, SkipSection, GetProject
  <2>6. CASE GetClientFails \/ CallFails
    <3>1. /\ EndPass /\ UNCHANGED <<api, cached, cloud>> /\ pc # "idle"
      BY <2>6 DEF GetClientFails, CallFails, CallDue, Abort, Kinds
    <3>2. step = "work"
      BY <2>6 DEF GetClientFails, CallFails, CallDue, Sections, Kinds
    <3> QED
      BY <3>1, <3>2, EndPassServe
  <2>7. ASSUME NEW k \in Kinds, Create(k)
        PROVE  ServeInv'
    <3>1. /\ pc = k /\ pc' = pc /\ pc \notin {"idle", "finish"}
          /\ step = "work" /\ step' = "main" /\ ~obj.deleting
          /\ obj.ids[k] = 0
          /\ cloud' = [cloud EXCEPT ![k] = @ \cup {next}]
          /\ UNCHANGED <<api, before>>
      BY <2>7 DEF Create, CallDue, None, Kinds, TypeOK, Objects
    <3>2. /\ obj'.ids = [obj.ids EXCEPT ![k] = next]
          /\ obj'.deleting = obj.deleting /\ obj'.ready = obj.ready
          /\ obj'.endpoint = obj.endpoint
      BY <2>7 DEF Create, Recorded, TypeOK, Objects
    <3>3. /\ obj'.ids[k] = next /\ cloud'[k] = cloud[k] \cup {next}
          /\ \A j \in Kinds \ {k} : /\ obj'.ids[j] = obj.ids[j]
                                   /\ cloud'[j] = cloud[j]
      BY <3>1, <3>2 DEF TypeOK, Objects
    <3>4. HeldInv' /\ ReadyInv'
      BY <3>1, <3>3 DEF ServeInv, HeldInv, ReadyInv
    <3>5. ~obj.ready
      BY <3>1 DEF ServeInv, AnnounceInv, Serving, TypeOK, Objects
    <3>6. AnnounceInv'
      BY <3>1, <3>2, <3>5 DEF ServeInv, AnnounceInv, Serving
    <3> QED
      BY <3>4, <3>6 DEF ServeInv
  <2>8. ASSUME NEW k \in Kinds, Delete(k)
        PROVE  ServeInv'
    <3>1. /\ pc = k /\ pc' = pc /\ pc \notin {"idle", "finish"}
          /\ step = "work" /\ step' = "main" /\ obj.deleting
          /\ cloud' = [cloud EXCEPT ![k] = @ \ {obj.ids[k]}]
          /\ UNCHANGED <<api, before>>
      BY <2>8, BenignSpend DEF Delete, CallDue, Kinds
    <3>2. /\ obj'.ids = [obj.ids EXCEPT ![k] = 0]
          /\ obj'.deleting = obj.deleting /\ obj'.ready = obj.ready
          /\ obj'.endpoint = obj.endpoint
      BY <2>8 DEF Delete, Recorded, TypeOK, Objects, None
    <3>3. /\ obj'.ids[k] = 0
          /\ \A j \in Kinds \ {k} : /\ obj'.ids[j] = obj.ids[j]
                                   /\ cloud'[j] = cloud[j]
      BY <3>1, <3>2 DEF TypeOK, Objects
    <3>4. HeldInv' /\ ReadyInv'
      BY <3>1, <3>3 DEF ServeInv, HeldInv, ReadyInv
    <3>5. AnnounceInv'
      BY <3>1, <3>2 DEF ServeInv, AnnounceInv, Serving
    <3> QED
      BY <3>4, <3>5 DEF ServeInv
  <2>9. ASSUME NEW k \in Kinds PROVE ~CreateLost(k) /\ ~DeleteLost(k)
    BY BenignSpend DEF CreateLost, DeleteLost
  <2>10. CASE Finish
    <3>1. /\ pc = "finish" /\ pc' = pc /\ step = "work" /\ step' = "main"
          /\ UNCHANGED <<api, before, cloud>>
      BY <2>10 DEF Finish
    <3>2. /\ obj'.ids = obj.ids /\ obj'.deleting = obj.deleting
          /\ \/ /\ ~obj.deleting /\ \A k \in Kinds : obj.ids[k] # 0
                /\ obj'.ready /\ obj'.endpoint = obj.ids["floatingIP"]
             \/ /\ obj.deleting /\ obj'.ready = obj.ready
                /\ obj'.endpoint = obj.endpoint
      BY <2>10 DEF Finish, TypeOK, Objects, None
    <3>3. HeldInv' /\ ReadyInv'
      BY <3>1, <3>2 DEF ServeInv, HeldInv, ReadyInv
    <3>4. AnnounceInv'
      BY <3>1, <3>2 DEF ServeInv, AnnounceInv, Serving
    <3> QED
      BY <3>3, <3>4 DEF ServeInv
  <2>11. CASE PatchMain
    <3>1. /\ UNCHANGED <<cloud, before, obj, pc>>
          /\ pc # "idle" /\ step = "main" /\ step' = "status"
      BY <2>11 DEF PatchMain, Sections, Kinds
    <3>2. CASE api' = MergeMain(api) /\ api.exists /\ api' # Gone
      <4>1. /\ api'.exists = api.exists /\ api'.ready = api.ready
            /\ api'.endpoint = Merged(before.endpoint, obj.endpoint,
                                      api.endpoint)
        BY <3>2 DEF MergeMain, TypeOK, Objects
      <4>2. /\ api'.fin = Merged(before.fin, obj.fin, api.fin)
            /\ api.deleting => api'.fin
        BY <3>2, <4>1, MergeMainFields, GoneType DEF FinInv, CacheInv
      <4>3. api.fin => api'.fin
        BY <3>1, <3>2, <4>2
           DEF Merged, FinInv, CacheInv, PassInv, TypeOK, Objects
      <4>4. api'.endpoint = obj.endpoint
        BY <3>1, <3>2, <4>1 DEF Merged, ServeInv, AnnounceInv
      <4>5. HeldInv' /\ ReadyInv'
        BY <3>1, <4>1, <4>3 DEF ServeInv, HeldInv, ReadyInv
      <4>6. AnnounceInv'
        BY <3>1, <4>1, <4>4 DEF ServeInv, AnnounceInv, Serving
      <4> QED
        BY <4>5, <4>6 DEF ServeInv
    <3>3. CASE ~api'.exists /\ ~api'.ready
      BY <3>1, <3>3
         DEF ServeInv, HeldInv, ReadyInv, AnnounceInv, Serving
    <3>4. CASE api' = api /\ before.endpoint = obj.endpoint
      BY <3>1, <3>4
         DEF ServeInv, HeldInv, ReadyInv, AnnounceInv, Serving
    <3>5. CASE api' = api /\ ~api.exists
      BY <3>1, <3>5
         DEF ServeInv, HeldInv, ReadyInv, AnnounceInv, Serving
    <3> QED
      BY <2>11, <3>2, <3>3, <3>4, <3>5, BenignSpend, GoneType
         DEF PatchMain, MainDiffers
  <2>12. CASE PatchStatus
    <3>1. /\ pc # "idle" /\ step = "status" /\ ~failed
          /\ UNCHANGED <<cloud, cached>>
      BY <2>12 DEF PatchStatus, Sections, Kinds
    <3>2. CASE ~api.exists
      <4>1. api' = api
        BY <2>12, <3>2 DEF PatchStatus
      <4>2. HeldInv' /\ ReadyInv'
        BY <2>12, <3>1, <3>2, <4>1
           DEF PatchStatus, EndPass, ServeInv, HeldInv, ReadyInv
      <4>3. pc' # "idle" => AnnounceInv'
        BY <2>12, <3>1, <3>2, <4>1
           DEF PatchStatus, EndPass, ServeInv, AnnounceInv, Serving
      <4> QED
        BY <4>2, <4>3 DEF ServeInv
    <3>3. CASE api.exists
      <4>1. /\ api'.exists = api.exists /\ api'.fin = api.fin
            /\ api'.deleting = api.deleting
            /\ api'.endpoint = api.endpoint
            /\ \A k \in Kinds : api'.ids[k] = obj.ids[k]
            /\ api'.ready = obj.ready
        BY <2>12, <3>1, <3>3, PatchStatusWrites
      <4>2. api.fin
        BY <3>1, <3>3 DEF FinInv, CacheInv, PassInv, Guarded, Marked
      <4>3. /\ ~api.deleting => ~obj.deleting
            /\ api'.endpoint = obj.endpoint
        BY <3>1, <3>3, <4>1
           DEF FinInv, CacheInv, PassInv, ServeInv, AnnounceInv
      <4>4. Serving(api')
        BY <3>1, <4>1, <4>3 DEF ServeInv, AnnounceInv, Serving, Kinds
      <4>5. HeldInv'
        BY <2>12, <3>1, <4>1 DEF PatchStatus, EndPass, ServeInv, HeldInv
      <4>6. ReadyInv'
        BY <3>3, <4>1, <4>2, <4>4 DEF ReadyInv, Serving
      <4>7. CASE pc = "finish"
        BY <2>12, <4>5, <4>6, <4>7 DEF PatchStatus, EndPass, ServeInv
      <4>8. CASE pc # "finish"
        <5>1. UNCHANGED <<obj, before>> /\ step' = "work"
          BY <2>12, <4>8 DEF PatchStatus
        <5>2. AnnounceInv'
          BY <3>1, <3>3, <4>1, <4>3, <4>8, <5>1
             DEF ServeInv, AnnounceInv, Serving
        <5> QED
          BY <4>5, <4>6, <5>2 DEF ServeInv
      <4> QED
        BY <4>7, <4>8
    <3> QED
      BY <3>2, <3>3
  <2>13. CASE PatchStatusFails
    <3>1. ~api.exists
      BY <2>13, BenignSpend DEF PatchStatusFails, OwnInv, IdleInv
    <3>2. pc # "idle" /\ EndPass /\ UNCHANGED <<cloud, api, cached>>
      BY <2>13, <3>1 DEF PatchStatusFails, Abort, Sections, Kinds
    <3> QED
      BY <3>1, <3>2, EndPassServe
  <2> QED
    BY <2>1, <2>2, <2>3, <2>4, <2>5, <2>6, <2>7, <2>8, <2>9, <2>10, <2>11,
       <2>12, <2>13 DEF Next, Environment, PassStep
<1> QED
  BY <1>1, <1>2, OwnershipInvariant, FinalizerInvariant, TypeCorrect, PTL
     DEF Spec

(* A cluster that is ready reports the floating IP it records, whatever    *)
(* part of a pass has been patched.                                        *)
THEOREM ReadyReports ==
    ASSUME Disturbances \subseteq Benign
    PROVE  Spec => []ReadyHasEndpoint
<1>1. TypeOK /\ FinInv /\ OwnInv /\ ServeInv => ReadyHasEndpoint
  <2> SUFFICES ASSUME TypeOK, FinInv, OwnInv, ServeInv, api.ready,
                      ~api.deleting
               PROVE  /\ api.endpoint # 0
                      /\ api.endpoint = api.ids["floatingIP"]
    BY DEF ReadyHasEndpoint, None
  <2>1. api.exists
    BY DEF ServeInv, ReadyInv
  <2>2. CASE pc = "idle"
    BY <2>1, <2>2 DEF ServeInv, ReadyInv, Serving, Kinds
  <2>3. CASE pc # "idle"
    <3>1. ~obj.deleting /\ before.ready /\ obj.ready
      BY <2>1, <2>3 DEF FinInv, CacheInv, PassInv, ServeInv, AnnounceInv
    <3>2. /\ Serving(before) /\ Serving(obj) /\ ~before.deleting
          /\ api.endpoint \in {obj.endpoint, before.endpoint}
      BY <2>1, <2>3, <3>1 DEF ServeInv, AnnounceInv
    <3>3. "floatingIP" \in Kinds
      BY DEF Kinds
    <3>4. /\ before.ids["floatingIP"] # 0
          /\ obj.ids["floatingIP"] = before.ids["floatingIP"]
          /\ api.ids["floatingIP"] = before.ids["floatingIP"]
      BY <2>1, <2>3, <3>1, <3>2, <3>3 DEF Serving, OwnInv, KnownInv, Known
    <3> QED
      BY <3>1, <3>2, <3>4 DEF Serving
  <2> QED
    BY <2>2, <2>3
<1> QED
  BY <1>1, ServingInvariant, OwnershipInvariant, FinalizerInvariant,
     TypeCorrect, PTL

-----------------------------------------------------------------------------
(* The reconciler implements ResourceLifecycle. *)

Phase(o) == IF ~o.exists THEN "gone"
            ELSE IF ~o.fin THEN "open"
            ELSE IF o.deleting THEN "leaving" ELSE "guarded"

(* What no part of the abstract state shows is a stutter. *)
LEMMA LifecycleStutter ==
    ASSUME UNCHANGED cloud, Phase(api') = Phase(api), api'.ready = api.ready
    PROVE  UNCHANGED Lifecycle!vars
  BY DEF Lifecycle!vars, Phase

(* A patch of the metadata sets the finalizer or lets the object go. *)
LEMMA LifecyclePatchMain ==
    ASSUME Disturbances \subseteq Benign, TypeOK, Sections, FinInv, OwnInv,
           PatchMain
    PROVE  Lifecycle!Next \/ UNCHANGED Lifecycle!vars
<1>1. UNCHANGED cloud /\ pc # "idle"
  BY DEF PatchMain, Sections, Kinds
<1>2. api' = api \/ (api' = MergeMain(api) /\ api.exists)
  BY DEF PatchMain
<1>3. CASE api' = api
  BY <1>1, <1>3, LifecycleStutter
<1>4. CASE api' = MergeMain(api) /\ api' = Gone /\ api.exists
  <2>1. ~api'.exists /\ ~api'.ready
    BY <1>4, GoneType
  <2>2. api.deleting /\ before.fin /\ ~obj.fin
    BY <1>4, <2>1, MergeMainFields DEF FinInv, CacheInv
  <2>3. obj.deleting
    BY <1>1, <2>2 DEF FinInv, PassInv
  <2>4. \A k \in Kinds : cloud[k] = {}
    BY <1>1, <2>2, <2>3 DEF OwnInv, IdsInv, KnownInv, Known
  <2>5. api.fin
    BY <1>4, <2>2 DEF FinInv, CacheInv, Marked
  <2>6. Lifecycle!Remove
    BY <1>1, <1>4, <2>1, <2>2, <2>4, <2>5 DEF Lifecycle!Remove
  <2> QED
    BY <2>6 DEF Lifecycle!Next
<1>5. CASE api' = MergeMain(api) /\ api' # Gone /\ api.exists
  <2>1. /\ api'.exists = api.exists /\ api'.deleting = api.deleting
        /\ api'.ready = api.ready
    BY <1>5 DEF MergeMain, TypeOK, Objects
  <2>2. /\ api'.fin = Merged(before.fin, obj.fin, api.fin)
        /\ api.deleting => api'.fin
    BY <1>5, <2>1, MergeMainFields, GoneType DEF FinInv, CacheInv
  <2>3. api.fin => api'.fin
    BY <1>1, <1>5, <2>2
       DEF Merged, FinInv, CacheInv, PassInv, TypeOK, Objects
  <2>4. CASE api'.fin /\ ~api.fin
    <3>1. ~api.deleting
      BY <1>5, <2>4 DEF FinInv, CacheInv, Marked
    <3>2. Lifecycle!Guard
      BY <1>1, <1>5, <2>1, <2>4, <3>1 DEF Lifecycle!Guard
    <3> QED
      BY <3>2 DEF Lifecycle!Next
  <2>5. CASE api'.fin <=> api.fin
    BY <1>1, <2>1, <2>5, LifecycleStutter DEF Phase
  <2> QED
    BY <2>3, <2>4, <2>5
<1> QED
  BY <1>2, <1>3, <1>4, <1>5

(* A patch of the status announces at most, and only what is there. *)
LEMMA LifecyclePatchStatus ==
    ASSUME Disturbances \subseteq Benign, TypeOK, Sections, FinInv, OwnInv,
           ServeInv, PatchStatus \/ PatchStatusFails
    PROVE  Lifecycle!Next \/ UNCHANGED Lifecycle!vars
<1>1. UNCHANGED cloud /\ pc # "idle" /\ step = "status"
  BY DEF PatchStatus, PatchStatusFails, Sections, Kinds
<1>2. api' = api \/ (api' = MergeStatus(api) /\ api.exists /\ PatchStatus)
  BY DEF PatchStatus, PatchStatusFails, OwnInv, IdleInv
<1>3. CASE api' = api
  BY <1>1, <1>3, LifecycleStutter
<1>4. CASE api' = MergeStatus(api) /\ api.exists /\ PatchStatus
  <2>1. /\ api'.exists = api.exists /\ api'.deleting = api.deleting
        /\ api'.fin = api.fin /\ api'.ready = obj.ready
    BY <1>1, <1>4, PatchStatusWrites
  <2>2. Phase(api') = Phase(api)
    BY <2>1 DEF Phase
  <2>3. CASE api'.ready = api.ready
    BY <1>1, <2>2, <2>3, LifecycleStutter
  <2>4. CASE api'.ready # api.ready
    <3>1. ~obj.deleting /\ obj.ready
      BY <1>1, <1>4, <2>1, <2>4 DEF ServeInv, AnnounceInv, TypeOK, Objects
    <3>2. \A k \in Kinds : cloud[k] # {}
      BY <1>1, <3>1 DEF ServeInv, AnnounceInv, Serving, HeldInv
    <3>3. api.fin
      BY <1>1, <1>4, <3>1 DEF FinInv, PassInv, Guarded, PatchStatus
    <3>4. Lifecycle!Announce
      BY <1>1, <1>4, <2>1, <3>1, <3>2, <3>3 DEF Lifecycle!Announce
    <3> QED
      BY <3>4 DEF Lifecycle!Next
  <2> QED
    BY <2>3, <2>4
<1> QED
  BY <1>2, <1>3, <1>4

(* If only reads, logins and cloud calls fail, the reconciler keeps what   *)
(* ResourceLifecycle promises of an object and its resources.              *)
THEOREM LifecycleImplemented ==
    ASSUME Disturbances \subseteq Benign
    PROVE  Spec => ImplementsLifecycle
<1>1. Init => Lifecycle!Init
  BY GoneType, NewObjectType DEF Init, Lifecycle!Init
<1>2. TypeOK /\ Sections /\ FinInv /\ OwnInv /\ ServeInv /\ [Next]_vars
        => Lifecycle!Next \/ UNCHANGED Lifecycle!vars
  <2> SUFFICES ASSUME TypeOK, Sections, FinInv, OwnInv, ServeInv, [Next]_vars
               PROVE  Lifecycle!Next \/ UNCHANGED Lifecycle!vars
    OBVIOUS
  <2>1. ASSUME NEW k \in Kinds, Create(k)
        PROVE  Lifecycle!Next
    <3>1. /\ ~obj.deleting /\ obj.ids[k] = 0 /\ pc # "idle"
          /\ pc # "finalizer"
          /\ cloud' = [cloud EXCEPT ![k] = @ \cup {next}]
          /\ UNCHANGED api
      BY <2>1 DEF Create, CallDue, None, Kinds, TypeOK, Objects
    <3>2. api.exists /\ api.fin
      BY <3>1 DEF FinInv, PassInv, Guarded
    <3>3. cloud[k] = {}
      BY <3>1 DEF OwnInv, IdsInv, KnownInv, Known
    <3>4. cloud' = [cloud EXCEPT ![k] = {next}] /\ cloud'[k] = {next}
      BY <3>1, <3>3 DEF TypeOK
    <3>5. Lifecycle!Acquire(k)
      BY <3>1, <3>2, <3>3, <3>4 DEF Lifecycle!Acquire
    <3> QED
      BY <3>5 DEF Lifecycle!Next
  <2>2. ASSUME NEW k \in Kinds, Delete(k)
        PROVE  Lifecycle!Next
    <3>1. /\ obj.deleting /\ obj.ids[k] # 0 /\ pc = k /\ pc # "idle"
          /\ cloud' = [cloud EXCEPT ![k] = @ \ {obj.ids[k]}]
          /\ UNCHANGED api
      BY <2>2, BenignSpend DEF Delete, CallDue, None, Kinds, TypeOK, Objects
    <3>2. cloud[k] = {obj.ids[k]}
      BY <3>1 DEF OwnInv, KnownInv, Known, ServeInv, HeldInv
    <3>3. api.exists /\ api.fin
      BY <3>2 DEF OwnInv, IdleInv
    <3>4. api.deleting
      BY <3>1, <3>3 DEF FinInv, CacheInv, PassInv
    <3>5. cloud' = [cloud EXCEPT ![k] = {}]
      BY <3>1, <3>2
    <3>6. Lifecycle!Release(k)
      BY <3>1, <3>3, <3>4, <3>5 DEF Lifecycle!Release
    <3> QED
      BY <3>6 DEF Lifecycle!Next
  <2>3. ASSUME NEW k \in Kinds PROVE ~CreateLost(k) /\ ~DeleteLost(k)
    BY BenignSpend DEF CreateLost, DeleteLost
  <2>4. CASE PatchMain \/ PatchStatus \/ PatchStatusFails
    BY <2>4, LifecyclePatchMain, LifecyclePatchStatus
  <2>5. CASE RequestDelete
    <3>1. CASE api.fin
      <4>1. /\ api'.exists = api.exists /\ api'.fin = api.fin
            /\ api'.deleting /\ api'.ready = api.ready
        BY <2>5, <3>1 DEF RequestDelete, TypeOK, Objects
      <4>2. Lifecycle!Leave
        BY <2>5, <3>1, <4>1 DEF RequestDelete, Lifecycle!Leave
      <4> QED
        BY <4>2 DEF Lifecycle!Next
    <3>2. CASE ~api.fin
      <4>1. ~api'.exists /\ ~api'.ready /\ ~api.ready
        BY <2>5, <3>2, GoneType DEF RequestDelete, ServeInv, ReadyInv
      <4>2. api'.ready = api.ready
        BY <2>5, <3>2, <4>1, GoneType
           DEF RequestDelete, TypeOK, Objects
      <4>3. Lifecycle!Drop
        BY <2>5, <3>2, <4>1, <4>2 DEF RequestDelete, Lifecycle!Drop
      <4> QED
        BY <4>3 DEF Lifecycle!Next
    <3> QED
      BY <3>1, <3>2
  <2>6. CASE SetOwner
    <3>1. Phase(api') = Phase(api) /\ api'.ready = api.ready
      BY <2>6 DEF SetOwner, Phase, TypeOK, Objects
    <3> QED
      BY <2>6, <3>1, LifecycleStutter DEF SetOwner
  <2>7. CASE UNCHANGED vars \/ Start \/ StartFails \/ Deliver \/ Resync
               \/ Crash \/ GetClient \/ GetClientFails \/ SkipSection
               \/ GetProject \/ CallFails \/ Finish
    <3>1. UNCHANGED <<api, cloud>>
      BY <2>7 DEF vars, Start, StartFails, Deliver, Resync, Crash, GetClient,
                  GetClientFails, SkipSection, GetProject, CallFails, Finish
    <3> QED
      BY <3>1, LifecycleStutter
  <2> QED
    BY <2>1, <2>2, <2>3, <2>4, <2>5, <2>6, <2>7
       DEF Next, Environment, PassStep
<1> QED
  BY <1>1, <1>2, ServingInvariant, OwnershipInvariant, FinalizerInvariant,
     TypeCorrect, PTL DEF Spec, ImplementsLifecycle, Lifecycle!Spec

-----------------------------------------------------------------------------
(* The control plane endpoint, whatever goes wrong                         *)

(* The endpoint that is written is the floating IP that is recorded. *)
Published(o) ==
    ~o.deleting /\ o.endpoint # 0 => o.ids["floatingIP"] = o.endpoint

(* Before its last section, a pass neither changes the endpoint nor an id  *)
(* that was recorded; in the last one it writes what all sections before   *)
(* it have patched.                                                        *)
EndpointPass ==
    /\ Published(before) /\ obj.deleting = before.deleting
    /\ ~obj.deleting =>
         /\ before.ids["floatingIP"] \in {0, obj.ids["floatingIP"]}
         /\ before.endpoint \in {0, obj.endpoint}
         /\ obj.endpoint # 0 => obj.endpoint = obj.ids["floatingIP"]
    /\ obj.deleting \/ pc # "finish" \/ step = "work"
         => obj.endpoint = before.endpoint
    /\ api.exists =>
         /\ api.endpoint \in {before.endpoint, obj.endpoint}
         /\ ~obj.deleting =>
              /\ api.ids["floatingIP"] \in {before.ids["floatingIP"],
                                            obj.ids["floatingIP"]}
              /\ pc # "floatingIP" \/ step = "work"
                   => api.ids["floatingIP"] = obj.ids["floatingIP"]

EndpointInv ==
    ~budget.misread =>
      /\ api.exists => Published(api)
      /\ pc # "idle" => EndpointPass

(* That an object was read that is behind is never forgotten. *)
LEMMA SpendMisread ==
    ASSUME TypeOK, NEW d, Spend(d)
    PROVE  /\ budget.misread => budget'.misread
           /\ d = "stale" => budget'.misread
  BY DEF Spend, TypeOK, Budgets

(* Wherever a pass stops, the endpoint that is written is recorded. *)
LEMMA PassPublished ==
    ASSUME TypeOK, FinInv, EndpointPass, pc # "idle", api.exists
    PROVE  Published(api)
<1> SUFFICES ASSUME ~api.deleting, api.endpoint # 0
             PROVE  api.ids["floatingIP"] = api.endpoint
  BY DEF Published
<1>1. ~obj.deleting /\ ~before.deleting
  BY DEF FinInv, CacheInv, PassInv, EndpointPass
<1>2. /\ before.endpoint \in {0, obj.endpoint}
      /\ api.endpoint \in {before.endpoint, obj.endpoint}
  BY <1>1 DEF EndpointPass
<1>3. api.endpoint = obj.endpoint /\ obj.endpoint = obj.ids["floatingIP"]
  BY <1>1, <1>2 DEF EndpointPass
<1>4. CASE before.endpoint = obj.endpoint
  BY <1>1, <1>3, <1>4 DEF EndpointPass, Published
<1>5. CASE before.endpoint # obj.endpoint
  BY <1>1, <1>3, <1>5 DEF EndpointPass
<1> QED
  BY <1>4, <1>5

(* A pass that stops with the object as it is.                             *)
LEMMA EndPassEndpoint ==
    ASSUME TypeOK, FinInv, EndpointInv, EndPass, pc # "idle", api' = api,
           budget.misread => budget'.misread
    PROVE  EndpointInv'
<1>1. ~budget'.misread /\ api.exists => Published(api)
  BY PassPublished DEF EndpointInv
<1> QED
  BY <1>1 DEF EndpointInv, EndPass, Published

(* A step that only moves on.                                              *)
LEMMA MoveEndpoint ==
    ASSUME EndpointInv, pc # "idle", pc' # "idle", step = "work",
           UNCHANGED <<api, before, step>>, obj'.ids = obj.ids,
           obj'.deleting = obj.deleting, obj'.endpoint = obj.endpoint,
           budget.misread => budget'.misread
    PROVE  EndpointInv'
  BY DEF EndpointInv, EndpointPass, Published

(* A step of somebody else.                                                *)
LEMMA OutsideEndpoint ==
    ASSUME EndpointInv, UNCHANGED pass, budget.misread => budget'.misread,
           \/ /\ api'.exists = api.exists /\ api'.ids = api.ids
              /\ api'.endpoint = api.endpoint
              /\ api.deleting => api'.deleting
           \/ ~api'.exists
    PROVE  EndpointInv'
  BY DEF EndpointInv, EndpointPass, Published, pass

(* In the beginning there is no endpoint.                                  *)
LEMMA EndpointInit == Init => EndpointInv
  BY DEF Init, EndpointInv, Published, NewObject, None

(* No step parts the endpoint from the floating IP.                        *)
LEMMA EndpointStep ==
    ASSUME TypeOK, Sections, FinInv, EndpointInv, [Next]_vars
    PROVE  EndpointInv'
<1>1. CASE SetOwner \/ RequestDelete
  <2>1. \/ /\ api'.exists = api.exists /\ api'.ids = api.ids
           /\ api'.endpoint = api.endpoint
           /\ api.deleting => api'.deleting
        \/ ~api'.exists
    BY <1>1, GoneType DEF SetOwner, RequestDelete, TypeOK, Objects
  <2> QED
    BY <1>1, <2>1, OutsideEndpoint DEF SetOwner, RequestDelete
<1>2. CASE Deliver \/ Resync \/ StartFails \/ UNCHANGED vars
  BY <1>2, OutsideEndpoint, SpendMisread
     DEF Deliver, Resync, StartFails, vars, pass
<1>3. CASE Crash
  <2>1. EndPass /\ api' = api /\ (budget.misread => budget'.misread)
    BY <1>3, SpendMisread DEF Crash, Abort
  <2>2. CASE pc # "idle"
    BY <2>1, <2>2, EndPassEndpoint
  <2>3. CASE pc = "idle"
    BY <2>1, <2>3 DEF EndpointInv, EndPass, Published
  <2> QED
    BY <2>2, <2>3
<1>4. CASE Start
  <2>1. /\ pc = "idle" /\ api' = api /\ (budget.misread => budget'.misread)
        /\ cached = api \/ budget'.misread
    BY <1>4, SpendMisread DEF Start
  <2>2. CASE ~cached.exists \/ ~cached.owned
    BY <1>4, <2>1, <2>2, OutsideEndpoint DEF Start
  <2>3. CASE cached.exists /\ cached.owned /\ cached = api
    <3>1. before' = api /\ obj' = [api EXCEPT !.fin = @ \/ ~api.deleting]
      BY <1>4, <2>3 DEF Start
    <3>2. /\ obj'.ids = api.ids /\ obj'.deleting = api.deleting
          /\ obj'.endpoint = api.endpoint
      BY <3>1 DEF TypeOK, Objects
    <3>3. ASSUME ~budget'.misread PROVE EndpointPass'
      <4>1. Published(api)
        BY <2>1, <2>3, <3>3 DEF EndpointInv
      <4> QED
        BY <2>1, <3>1, <3>2, <4>1 DEF EndpointPass, Published
    <3> QED
      BY <2>1, <3>3 DEF EndpointInv, Published
  <2>4. CASE budget'.misread
    BY <2>4 DEF EndpointInv
  <2> QED
    BY <2>1, <2>2, <2>3, <2>4 DEF TypeOK, Objects
<1>5. CASE GetClient \/ SkipSection \/ GetProject
  <2>1. pc # "idle" /\ pc' # "idle"
    BY <1>5, AfterType DEF GetClient, SkipSection, GetProject, Kinds
  <2>2. step = "work"
    BY <1>5 DEF GetClient, SkipSection, GetProject, CallDue, Sections, Kinds
  <2>3. /\ obj'.ids = obj.ids /\ obj'.deleting = obj.deleting
        /\ obj'.endpoint = obj.endpoint
    BY <1>5 DEF GetClient, SkipSection, GetProject, TypeOK, Objects
  <2>4. budget.misread => budget'.misread
    BY <1>5, SpendMisread DEF GetClient, SkipSection, GetProject
  <2> QED
    BY <1>5, <2>1, <2>2, <2>3, <2>4, MoveEndpoint
       DEF GetClient, SkipSection, GetProject
<1>6. ASSUME NEW k \in Kinds,
             \/ GetClientFails \/ CallFails
             \/ CreateLost(k) \/ DeleteLost(k)
      PROVE  EndpointInv'
  <2>1. EndPass /\ api' = api /\ pc # "idle"
    BY <1>6 DEF GetClientFails, CallFails, CreateLost, DeleteLost, CallDue,
                Abort, Kinds
  <2>2. budget.misread => budget'.misread
    BY <1>6, SpendMisread
       DEF GetClientFails, CallFails, CreateLost, DeleteLost
  <2> QED
    BY <2>1, <2>2, EndPassEndpoint
<1>7. ASSUME NEW k \in Kinds, Create(k)
      PROVE  EndpointInv'
  <2>1. /\ pc = k /\ pc' = pc /\ pc \notin {"idle", "finish"}
        /\ step = "work" /\ step' = "main" /\ ~obj.deleting
        /\ obj.ids[k] = 0 /\ UNCHANGED <<api, before, budget>>
    BY <1>7 DEF Create, CallDue, None, Kinds, TypeOK, Objects
  <2>2. /\ obj'.ids = [obj.ids EXCEPT ![k] = next]
        /\ obj'.deleting = obj.deleting /\ obj'.endpoint = obj.endpoint
    BY <1>7 DEF Create, Recorded, TypeOK, Objects
  <2>3. \/ obj'.ids["floatingIP"] = obj.ids["floatingIP"]
             /\ k # "floatingIP"
        \/ k = "floatingIP" /\ obj'.ids["floatingIP"] = next
    BY <2>2 DEF TypeOK, Objects, Kinds
  <2>4. ASSUME ~budget'.misread PROVE EndpointPass'
    <3>1. EndpointPass
      BY <2>1, <2>4 DEF EndpointInv
    <3>2. CASE /\ obj'.ids["floatingIP"] = obj.ids["floatingIP"]
               /\ k # "floatingIP"
      BY <2>1, <2>2, <3>1, <3>2 DEF EndpointPass, Published
    <3>3. CASE k = "floatingIP" /\ obj'.ids["floatingIP"] = next
      <4>1. /\ before.ids["floatingIP"] = 0 /\ obj.endpoint = 0
            /\ before.endpoint = 0
            /\ api.exists => api.ids["floatingIP"] = 0
        BY <2>1, <3>1, <3>3 DEF EndpointPass
      <4> QED
        BY <2>1, <2>2, <3>1, <3>3, <4>1 DEF EndpointPass, Published
    <3> QED
      BY <2>3, <3>2, <3>3
  <2> QED
    BY <2>1, <2>4 DEF EndpointInv, Published
<1>8. ASSUME NEW k \in Kinds, Delete(k)
      PROVE  EndpointInv'
  <2>1. /\ pc = k /\ pc' = pc /\ pc \notin {"idle", "finish"}
        /\ step = "work" /\ step' = "main" /\ obj.deleting
        /\ UNCHANGED <<api, before>> /\ (budget.misread => budget'.misread)
    BY <1>8, SpendMisread DEF Delete, CallDue, Kinds
  <2>2. obj'.deleting = obj.deleting /\ obj'.endpoint = obj.endpoint
    BY <1>8 DEF Delete, Recorded, TypeOK, Objects
  <2> QED
    BY <2>1, <2>2 DEF EndpointInv, EndpointPass, Published
<1>9. CASE Finish
  <2>1. /\ pc = "finish" /\ pc' = pc /\ step = "work" /\ step' = "main"
        /\ UNCHANGED <<api, before, budget>>
    BY <1>9 DEF Finish
  <2>2. /\ obj'.ids = obj.ids /\ obj'.deleting = obj.deleting
        /\ \/ /\ ~obj.deleting
              /\ obj'.endpoint = obj.ids["floatingIP"]
           \/ obj.deleting /\ obj'.endpoint = obj.endpoint
    BY <1>9 DEF Finish, TypeOK, Objects
  <2>3. ASSUME EndpointPass PROVE EndpointPass'
    BY <2>1, <2>2, <2>3 DEF EndpointPass, Published
  <2> QED
    BY <2>1, <2>3 DEF EndpointInv, Published
<1>10. CASE PatchMain
  <2>1. /\ UNCHANGED <<before, obj, pc>> /\ pc # "idle" /\ step = "main"
        /\ step' = "status" /\ (budget.misread => budget'.misread)
    BY <1>10, SpendMisread DEF PatchMain, Sections, Kinds
  <2>2. CASE api' = api
    BY <2>1, <2>2 DEF EndpointInv, EndpointPass, Published
  <2>3. CASE api' = Gone
    BY <2>1, <2>3, GoneType DEF EndpointInv, EndpointPass, Published
  <2>4. CASE api' = MergeMain(api) /\ api' # Gone /\ api.exists
    <3>1. /\ api'.exists = api.exists /\ api'.ids = api.ids
          /\ api'.deleting = api.deleting
          /\ api'.endpoint = Merged(before.endpoint, obj.endpoint,
                                    api.endpoint)
      BY <2>4 DEF MergeMain, TypeOK, Objects
    <3>2. ASSUME ~budget'.misread PROVE EndpointPass'
      BY <2>1, <2>4, <3>1, <3>2
         DEF EndpointInv, EndpointPass, Published, Merged
    <3>3. ASSUME ~budget'.misread PROVE Published(api)'
      <4>1. EndpointPass /\ Published(api)
        BY <2>1, <2>4, <3>3 DEF EndpointInv
      <4>2. ~api.deleting => ~obj.deleting
        BY <2>1, <2>4 DEF FinInv, CacheInv, PassInv
      <4>3. CASE obj.endpoint = before.endpoint
        BY <3>1, <4>1, <4>3 DEF Merged, Published
      <4>4. CASE obj.endpoint # before.endpoint
        BY <2>1, <2>4, <3>1, <4>1, <4>2, <4>4
           DEF Merged, Published, EndpointPass
      <4> QED
        BY <4>3, <4>4
    <3> QED
      BY <2>1, <3>2, <3>3 DEF EndpointInv
  <2> QED
    BY <1>10, <2>2, <2>3, <2>4 DEF PatchMain
<1>11. CASE PatchStatus \/ PatchStatusFails
  <2>1. /\ pc # "idle" /\ step = "status"
        /\ budget.misread => budget'.misread
    BY <1>11, SpendMisread DEF PatchStatus, PatchStatusFails, Sections, Kinds
  <2>2. \/ EndPass
        \/ /\ PatchStatus /\ UNCHANGED <<obj, before>> /\ step' = "work"
           /\ pc # "finish"
    BY <1>11 DEF PatchStatus, PatchStatusFails, Abort
  <2>3. CASE api' = MergeStatus(api) /\ api.exists
    <3>1. /\ api'.exists = api.exists /\ api'.deleting = api.deleting
          /\ api'.endpoint = api.endpoint
          /\ api'.ids["floatingIP"]
               = Merged(before.ids["floatingIP"], obj.ids["floatingIP"],
                        api.ids["floatingIP"])
      BY <2>3 DEF MergeStatus, TypeOK, Objects, Kinds
    <3>2. ASSUME EndpointPass, ~obj.deleting
          PROVE  api'.ids["floatingIP"] = obj.ids["floatingIP"]
      BY <2>3, <3>1, <3>2 DEF EndpointPass, Merged
    <3>3. ASSUME ~budget'.misread PROVE Published(api)'
      <4>1. EndpointPass /\ Published(api)
        BY <2>1, <2>3, <3>3, PassPublished DEF EndpointInv
      <4>2. ~api.deleting => ~obj.deleting
        BY <2>1, <2>3 DEF FinInv, CacheInv, PassInv
      <4> QED
        BY <3>1, <3>2, <4>1, <4>2, <2>3 DEF EndpointPass, Published
    <3>4. ASSUME ~budget'.misread, pc' # "idle" PROVE EndpointPass'
      <4>1. EndpointPass
        BY <2>1, <3>4 DEF EndpointInv
      <4>2. UNCHANGED <<obj, before>> /\ step' = "work" /\ pc # "finish"
        BY <2>2, <3>4 DEF EndPass
      <4> QED
        BY <2>1, <2>3, <3>1, <3>2, <4>1, <4>2 DEF EndpointPass, Published
    <3> QED
      BY <3>3, <3>4 DEF EndpointInv
  <2>4. CASE api' = api
    <3>1. CASE EndPass
      BY <2>1, <2>4, <3>1, EndPassEndpoint
    <3>2. CASE /\ PatchStatus /\ UNCHANGED <<obj, before>> /\ step' = "work"
               /\ pc # "finish"
      <4>1. api.exists => obj.ids = before.ids \/ api = MergeStatus(api)
        BY <2>4, <3>2 DEF PatchStatus, StatusDiffers
      <4>2. ASSUME api.exists, EndpointPass, ~obj.deleting
            PROVE  api.ids["floatingIP"] = obj.ids["floatingIP"]
        <5>1. MergeStatus(api).ids["floatingIP"]
                = Merged(before.ids["floatingIP"], obj.ids["floatingIP"],
                         api.ids["floatingIP"])
          BY DEF MergeStatus, TypeOK, Objects, Kinds
        <5> QED
          BY <4>1, <4>2, <5>1 DEF EndpointPass, Merged
      <4>3. ASSUME EndpointPass PROVE EndpointPass'
        BY <2>1, <2>4, <3>2, <4>2, <4>3 DEF EndpointPass, Published
      <4> QED
        BY <2>1, <2>4, <4>3 DEF EndpointInv, Published
    <3> QED
      BY <2>2, <3>1, <3>2
  <2> QED
    BY <1>11, <2>3, <2>4 DEF PatchStatus, PatchStatusFails
<1> QED
  BY <1>1, <1>2, <1>3, <1>4, <1>5, <1>6, <1>7, <1>8, <1>9, <1>10, <1>11
     DEF Next, Environment, PassStep, Kinds

(* As long as passes read fresh copies, no crash, no lost answer and no    *)
(* patch that fails half-way parts the endpoint from the floating IP.      *)
THEOREM EndpointInvariant == Spec => []EndpointInv
  BY EndpointInit, EndpointStep, FinalizerInvariant, TypeCorrect, PTL DEF Spec

(* Once written, the control plane endpoint is never changed, whatever     *)
(* goes wrong but the reading of an old copy.                              *)
THEOREM EndpointFinal == Spec => EndpointStable
<1>1. TypeOK /\ Sections /\ EndpointInv /\ [Next]_vars
        => [api.endpoint # None /\ api'.exists /\ ~budget.misread
              => api'.endpoint = api.endpoint]_vars
  <2> SUFFICES ASSUME TypeOK, Sections, EndpointInv, [Next]_vars,
                      api.endpoint # 0, api'.exists, ~budget.misread
               PROVE  api'.endpoint = api.endpoint
    BY DEF None
  <2>1. CASE PatchMain
    <3>1. CASE api' = MergeMain(api) /\ api.exists
      <4>1. api'.endpoint = Merged(before.endpoint, obj.endpoint,
                                   api.endpoint)
        BY <3>1, GoneType DEF MergeMain, TypeOK, Objects
      <4>2. pc # "idle"
        BY <2>1 DEF PatchMain, Sections, Kinds
      <4> QED
        BY <3>1, <4>1, <4>2 DEF Merged, EndpointInv, EndpointPass
    <3> QED
      BY <2>1, <3>1 DEF PatchMain
  <2>2. CASE PatchStatus \/ PatchStatusFails
    BY <2>2 DEF PatchStatus, PatchStatusFails, MergeStatus, TypeOK, Objects
  <2>3. CASE SetOwner \/ RequestDelete
    BY <2>3, GoneType DEF SetOwner, RequestDelete, TypeOK, Objects
  <2>4. CASE UNCHANGED vars \/ Start \/ StartFails \/ Deliver \/ Resync
               \/ Crash \/ GetClient \/ GetClientFails \/ SkipSection
               \/ GetProject \/ CallFails \/ Finish
    BY <2>4 DEF vars, Start, StartFails, Deliver, Resync, Crash, GetClient,
                GetClientFails, SkipSection, GetProject, CallFails, Finish
  <2>5. ASSUME NEW k \in Kinds,
               \/ Create(k) \/ CreateLost(k) \/ Delete(k) \/ DeleteLost(k)
        PROVE  api' = api
    BY <2>5 DEF Create, CreateLost, Delete, DeleteLost
  <2> QED
    BY <2>1, <2>2, <2>3, <2>4, <2>5 DEF Next, Environment, PassStep
<1> QED
  BY <1>1, EndpointInvariant, TypeCorrect, PTL DEF Spec, EndpointStable

-----------------------------------------------------------------------------
(* What is left behind, whatever goes wrong                                *)

(* An id that was recorded or cleared differs from what was read, so that  *)
(* the patch sends it; it differs from the object in no section but this.  *)
Patched(k) ==
    /\ obj.deleting => obj.ids[k] \in {0, before.ids[k]}
    /\ ~obj.deleting => before.ids[k] \in {0, obj.ids[k]}
    /\ obj.ids[k] = before.ids[k] => api.ids[k] = before.ids[k]
    /\ step = "work" \/ pc # k => api.ids[k] = obj.ids[k]

(* Without the finalizer nothing is recorded, and it is taken off at the   *)
(* end only, with nothing recorded any more; until then the object stays.  *)
Trail ==
    /\ IdsInv
    /\ ~api.fin => \A k \in Kinds : api.ids[k] = 0
    /\ pc # "idle" => \A k \in Kinds : Patched(k)
    /\ pc # "idle" /\ ~obj.fin =>
         /\ pc = "finish" /\ step # "work"
         /\ \A k \in Kinds : obj.ids[k] = 0
    /\ pc = "finalizer" => ~obj.deleting
    /\ pc \notin {"idle", "finalizer"} =>
         api.exists \/ (step = "status" /\ ~obj.fin)

TrailInv == ~budget.misread => Trail

(* As long as the object has no finalizer, no pass gets anywhere.          *)
LEMMA UnguardedPass ==
    ASSUME TypeOK, FinInv, pc # "idle", api.exists, ~api.fin
    PROVE  pc = "finalizer"
  BY DEF FinInv, CacheInv, PassInv, Marked, Guarded, TypeOK, Objects

(* A pass that ends leaves the ids as they were, or as it has them.        *)
LEMMA EndPassTrail ==
    ASSUME TypeOK, FinInv, Trail, EndPass, next' \in {next, next + 1},
           \A k \in Kinds : 0 \notin cloud'[k],
           api'.exists = api.exists, api'.fin = api.fin,
           \/ api'.ids = api.ids
           \/ /\ pc # "idle" /\ api.exists
              /\ \A k \in Kinds : api'.ids[k] = obj.ids[k]
    PROVE  Trail'
<1>1. \A k \in Kinds : api'.ids[k] \in {api.ids[k], obj.ids[k]}
  OBVIOUS
<1>2. IdsInv'
  BY <1>1, GoneIds DEF TypeOK, Objects, EndPass, Trail, IdsInv
<1>3. ~api'.fin => \A k \in Kinds : api'.ids[k] = 0
  BY UnguardedPass DEF Trail, Patched, Kinds
<1> QED
  BY <1>2, <1>3 DEF Trail, EndPass

(* A step of a pass that touches neither ids nor resources.                *)
LEMMA MoveTrail ==
    ASSUME Trail, pc \notin {"idle", "finalizer", "finish"},
           pc' \notin {"idle", "finalizer"}, step = "work",
           UNCHANGED <<cloud, next, before, step, api>>,
           obj'.ids = obj.ids, obj'.fin = obj.fin,
           obj'.deleting = obj.deleting
    PROVE  Trail'
  BY DEF Trail, IdsInv, Patched

(* What happens to the object from outside.                                *)
LEMMA OutsideTrail ==
    ASSUME TypeOK, FinInv, Trail, SetOwner \/ RequestDelete
    PROVE  Trail'
<1>1. UNCHANGED <<cloud, next, pass>> /\ api.exists
  BY DEF SetOwner, RequestDelete
<1>2. CASE /\ api'.exists = api.exists /\ api'.fin = api.fin
           /\ api'.ids = api.ids
  BY <1>1, <1>2 DEF Trail, IdsInv, Patched, pass
<1>3. CASE api' = Gone /\ ~api.fin
  <2>1. pc \in {"idle", "finalizer"}
    BY <1>1, <1>3, UnguardedPass
  <2>2. \A k \in Kinds : api'.ids[k] = api.ids[k]
    BY <1>3, GoneIds DEF Trail
  <2> QED
    BY <1>1, <1>3, <2>1, <2>2, GoneType DEF Trail, IdsInv, Patched, pass
<1> QED
  BY <1>2, <1>3 DEF SetOwner, RequestDelete, TypeOK, Objects

(* A pass that begins has the ids of the object it has read.               *)
LEMMA StartTrail ==
    ASSUME TypeOK, FinInv, Trail, Start, cached = api
    PROVE  Trail'
<1>1. /\ pc = "idle" /\ UNCHANGED <<api, cloud, next>>
  BY DEF Start
<1>2. CASE ~cached.exists \/ ~cached.owned
  BY <1>1, <1>2 DEF Start, pass, Trail, IdsInv, Patched
<1>3. CASE cached.exists /\ cached.owned
  <2>1. /\ before' = api /\ obj' = [api EXCEPT !.fin = @ \/ ~api.deleting]
        /\ pc' = IF api.deleting THEN "client" ELSE "finalizer"
    BY <1>3 DEF Start, FirstSection
  <2>2. /\ obj'.ids = api.ids /\ obj'.deleting = api.deleting
        /\ obj'.fin = (api.fin \/ ~api.deleting)
    BY <2>1 DEF TypeOK, Objects
  <2>3. obj'.fin
    BY <1>3, <2>2 DEF FinInv, CacheInv, Marked
  <2> QED
    BY <1>1, <1>3, <2>1, <2>2, <2>3
       DEF Trail, IdsInv, Patched, TypeOK, Objects
<1> QED
  BY <1>2, <1>3 DEF TypeOK, Objects

(* A call records or clears the id of its section only.                    *)
LEMMA CallTrail ==
    ASSUME TypeOK, Sections, FinInv, Trail, NEW k \in Kinds,
           Create(k) \/ Delete(k)
    PROVE  Trail'
<1>1. /\ pc = k /\ pc' = pc /\ pc \notin {"idle", "finalizer", "finish"}
      /\ step = "work" /\ step' = "main"
      /\ UNCHANGED <<api, before>>
  BY DEF Create, Delete, CallDue, Kinds
<1>2. /\ api.exists /\ obj.fin
      /\ next \in Nat /\ next' \in Nat /\ next <= next'
      /\ \A j \in Kinds : /\ api.ids[j] \in Nat /\ before.ids[j] \in Nat
                          /\ obj.ids[j] \in Nat
  BY <1>1 DEF Create, Delete, Trail, TypeOK, Objects
<1> DEFINE id == IF obj.deleting THEN 0 ELSE next
<1>3. /\ obj' = [obj EXCEPT !.ids[k] = id] /\ id < next'
      /\ obj.deleting <=> obj.ids[k] # 0
  BY <1>1, <1>2 DEF Create, Delete, CallDue, Recorded, None, Kinds, Trail,
                    IdsInv, TypeOK, Objects
<1>4. /\ obj'.ids = [obj.ids EXCEPT ![k] = id]
      /\ obj'.fin = obj.fin /\ obj'.deleting = obj.deleting
  BY <1>3 DEF TypeOK, Objects
<1>5. /\ obj'.ids[k] = id
      /\ \A j \in Kinds \ {k} : obj'.ids[j] = obj.ids[j]
  BY <1>4 DEF TypeOK, Objects
<1>6. \A j \in Kinds : 0 \notin cloud'[j]
  BY <1>2 DEF Create, Delete, Trail, IdsInv, TypeOK
<1>7. IdsInv'
  BY <1>1, <1>2, <1>3, <1>5, <1>6 DEF Trail, IdsInv
<1>8. before.ids[k] # id
  BY <1>1, <1>2, <1>3 DEF Trail, IdsInv, Patched
<1>9. Patched(k)'
  BY <1>1, <1>3, <1>4, <1>5, <1>8 DEF Trail, Patched
<1>10. ASSUME NEW j \in Kinds \ {k} PROVE Patched(j)'
  BY <1>1, <1>4, <1>5, <1>10 DEF Trail, Patched
<1> QED
  BY <1>1, <1>2, <1>4, <1>7, <1>9, <1>10 DEF Trail

(* The first call of Patch writes no id.                                   *)
LEMMA PatchMainTrail ==
    ASSUME TypeOK, Sections, FinInv, Trail, PatchMain
    PROVE  Trail'
<1>1. /\ UNCHANGED <<cloud, next, before, obj, pc>> /\ pc # "idle"
      /\ step = "main" /\ step' = "status"
  BY DEF PatchMain, Sections, Kinds
<1>2. CASE api' = MergeMain(api) /\ api.exists
  <2>1. CASE MergeMain(api) = Gone /\ ~obj.fin
    BY <1>1, <1>2, <2>1, GoneType, GoneIds DEF Trail, IdsInv, Patched
  <2>2. CASE MergeMain(api) # Gone
    <3>1. /\ api'.exists = api.exists /\ api'.ids = api.ids
      BY <1>2, <2>2 DEF MergeMain, TypeOK, Objects
    <3>2. api'.fin = Merged(before.fin, obj.fin, api.fin)
      BY <1>2, <2>2, MergeMainFields DEF FinInv, CacheInv
    <3>3. ~api'.fin => ~api.fin \/ ~obj.fin
      BY <1>1, <3>2 DEF Merged, TypeOK, Objects
    <3>4. ~obj.fin => \A k \in Kinds : api.ids[k] = 0
      BY <1>1 DEF Trail, Patched, Kinds
    <3> QED
      BY <1>1, <1>2, <3>1, <3>3, <3>4 DEF Trail, IdsInv, Patched
  <2> QED
    BY <1>2, <2>1, <2>2, MergeMainFields, GoneType DEF FinInv, CacheInv
<1>3. CASE api' = api
  BY <1>1, <1>3 DEF Trail, IdsInv, Patched
<1> QED
  BY <1>2, <1>3 DEF PatchMain

(* The second call of Patch writes every id that differs.                  *)
LEMMA StatusWrites ==
    ASSUME TypeOK, Trail, pc # "idle"
    PROVE  /\ \A k \in Kinds : MergeStatus(api).ids[k] = obj.ids[k]
           /\ ~StatusDiffers => \A k \in Kinds : api.ids[k] = obj.ids[k]
<1>1. \A k \in Kinds : obj.ids[k] = before.ids[k] => api.ids[k] = obj.ids[k]
  BY DEF Trail, Patched
<1>2. \A k \in Kinds : MergeStatus(api).ids[k]
                         = Merged(before.ids[k], obj.ids[k], api.ids[k])
  BY DEF MergeStatus, TypeOK, Objects
<1> QED
  BY <1>1, <1>2 DEF Merged, StatusDiffers

(* After a patch all ids of the pass are those of the object.              *)
LEMMA PatchStatusIds ==
    ASSUME TypeOK, Sections, FinInv, Trail, PatchStatus
    PROVE  /\ pc # "idle" /\ api'.exists = api.exists /\ api'.fin = api.fin
           /\ \A k \in Kinds : api'.ids[k] = obj.ids[k]
<1>1. pc # "idle" /\ step = "status"
  BY DEF PatchStatus, Sections, Kinds
<1>2. CASE ~api.exists
  <2>1. \A k \in Kinds : api.ids[k] = obj.ids[k]
    BY <1>1, <1>2 DEF Trail, Patched, Kinds
  <2> QED
    BY <1>1, <1>2, <2>1 DEF PatchStatus
<1>3. CASE api.exists
  BY <1>1, <1>3, StatusWrites, MergeStatusFields DEF PatchStatus
<1> QED
  BY <1>2, <1>3

(* A patch that succeeds leaves nothing unpatched.                         *)
LEMMA PatchStatusTrail ==
    ASSUME TypeOK, Sections, FinInv, Trail, PatchStatus
    PROVE  Trail'
<1>1. /\ pc # "idle" /\ UNCHANGED <<cloud, next>> /\ step = "status"
      /\ api'.exists = api.exists /\ api'.fin = api.fin
      /\ \A k \in Kinds : api'.ids[k] = obj.ids[k]
      /\ ~failed
  BY PatchStatusIds DEF PatchStatus
<1>2. CASE pc = "finish"
  <2>1. \/ api'.ids = api.ids
        \/ api.exists /\ \A k \in Kinds : api'.ids[k] = obj.ids[k]
    BY <1>1 DEF PatchStatus
  <2> QED
    BY <1>1, <1>2, <2>1, EndPassTrail DEF PatchStatus, Trail, IdsInv
<1>3. CASE pc # "finish"
  <2>1. UNCHANGED <<obj, before, failed>> /\ step' = "work" /\ pc' = After[pc]
    BY <1>3 DEF PatchStatus
  <2>2. pc' \notin {"idle", "finalizer"}
    BY <1>1, <1>3, <2>1, AfterType DEF Sections, After, Kinds
  <2>3. obj.fin /\ api.exists
    BY <1>1, <1>3 DEF Trail, FinInv, PassInv, Guarded
  <2>4. api'.fin \/ \A k \in Kinds : obj.ids[k] = 0
    BY <1>1, <2>3, UnguardedPass DEF Trail, Patched, Kinds
  <2> QED
    BY <1>1, <2>1, <2>2, <2>3, <2>4 DEF Trail, IdsInv, Patched
<1> QED
  BY <1>2, <1>3

(* That an object was read that is behind is not forgotten by any step.    *)
LEMMA MisreadStays ==
    ASSUME TypeOK, [Next]_vars, budget.misread
    PROVE  budget'.misread
<1>1. CASE UNCHANGED budget
  BY <1>1
<1>2. ASSUME NEW d, Spend(d) PROVE budget'.misread
  BY <1>2, SpendMisread
<1> QED
  BY <1>1, <1>2
     DEF Next, Environment, SetOwner, RequestDelete, Deliver, Resync, Crash,
         Start, StartFails, PassStep, GetClient, GetClientFails, SkipSection,
         GetProject, CallFails, Create, CreateLost, Delete, DeleteLost,
         Finish, PatchMain, PatchStatus, PatchStatusFails, vars

(* Every step of the specification leaves the trail in order, unless an    *)
(* old copy has been read.                                                 *)
LEMMA TrailStep ==
    ASSUME TypeOK, Sections, FinInv, TrailInv, [Next]_vars
    PROVE  TrailInv'
<1> SUFFICES ASSUME ~budget'.misread PROVE Trail'
  BY DEF TrailInv
<1>1. ~budget.misread
  BY MisreadStays
<1>2. Trail
  BY <1>1 DEF TrailInv
<1>3. CASE SetOwner \/ RequestDelete
  BY <1>2, <1>3, OutsideTrail
<1>4. CASE Deliver \/ Resync \/ StartFails \/ UNCHANGED vars
  BY <1>2, <1>4 DEF Deliver, Resync, StartFails, vars, pass, Trail, IdsInv,
                    Patched
<1>5. CASE Start
  BY <1>2, <1>5, StartTrail, SpendMisread DEF Start
<1>6. CASE Crash \/ GetClientFails \/ CallFails
  BY <1>2, <1>6, EndPassTrail
     DEF Crash, GetClientFails, CallFails, Abort, Trail, IdsInv
<1>7. CASE GetClient
  BY <1>2, <1>7, MoveTrail DEF GetClient, Sections, Kinds
<1>8. CASE SkipSection
  BY <1>2, <1>8, MoveTrail, AfterType DEF SkipSection, Kinds
<1>9. CASE GetProject
  <2>1. /\ obj'.ids = obj.ids /\ obj'.fin = obj.fin
        /\ obj'.deleting = obj.deleting
    BY <1>9 DEF GetProject, TypeOK, Objects
  <2> QED
    BY <1>2, <1>9, <2>1, MoveTrail, AfterType DEF GetProject, CallDue
<1>10. ASSUME NEW k \in Kinds, Create(k) \/ Delete(k) PROVE Trail'
  BY <1>2, <1>10, CallTrail
<1>11. ASSUME NEW k \in Kinds, CreateLost(k) \/ DeleteLost(k)
       PROVE  Trail'
  <2>1. \A j \in Kinds : 0 \notin cloud'[j]
    BY <1>2, <1>11 DEF CreateLost, DeleteLost, Trail, IdsInv, TypeOK
  <2> QED
    BY <1>2, <1>11, <2>1, EndPassTrail DEF CreateLost, DeleteLost, Abort
<1>12. CASE Finish
  <2>1. /\ pc = "finish" /\ pc' = pc /\ step = "work" /\ step' = "main"
        /\ UNCHANGED <<api, before, cloud, next>>
        /\ obj'.ids = obj.ids /\ obj'.deleting = obj.deleting
        /\ ~obj'.fin => ~obj.fin \/ \A k \in Kinds : obj.ids[k] = 0
    BY <1>12 DEF Finish, TypeOK, Objects, None
  <2> QED
    BY <1>2, <2>1 DEF Trail, IdsInv, Patched, Kinds
<1>13. CASE PatchMain
  BY <1>2, <1>13, PatchMainTrail
<1>14. CASE PatchStatus
  BY <1>2, <1>14, PatchStatusTrail
<1>15. CASE PatchStatusFails
  <2>1. /\ pc # "idle" /\ EndPass /\ UNCHANGED <<cloud, next>>
    BY <1>15 DEF PatchStatusFails, Abort, Sections, Kinds
  <2>2. api' = api \/ (api.exists /\ api' = MergeStatus(api))
    BY <1>15 DEF PatchStatusFails
  <2> QED
    BY <1>2, <2>1, <2>2, StatusWrites, MergeStatusFields, EndPassTrail
       DEF Trail, IdsInv
<1> QED
  BY <1>3, <1>4, <1>5, <1>6, <1>7, <1>8, <1>9, <1>10, <1>11, <1>12, <1>13,
     <1>14, <1>15 DEF Next, Environment, PassStep

(* In the beginning nothing is recorded.                                   *)
LEMMA TrailInit == Init => TrailInv
  BY NewObjectType, GoneType
     DEF Init, TrailInv, Trail, IdsInv, FirstSection

(* As long as passes read fresh copies the object, and the pass that is    *)
(* about to record, agree on every id but the one that is not patched yet. *)
THEOREM TrailInvariant == Spec => []TrailInv
  BY TrailInit, TrailStep, TypeCorrect, FinalizerInvariant, PTL DEF Spec

(* No step gives a disturbance back.                                       *)
LEMMA BudgetFalls ==
    ASSUME TypeOK, [Next]_vars
    PROVE  budget'.left <= budget.left
<1>1. CASE UNCHANGED budget
  BY <1>1 DEF TypeOK, Budgets
<1>2. ASSUME NEW d, Spend(d) PROVE budget'.left <= budget.left
  BY <1>2 DEF Spend, TypeOK, Budgets
<1> QED
  BY <1>1, <1>2
     DEF Next, Environment, SetOwner, RequestDelete, Deliver, Resync, Crash,
         Start, StartFails, PassStep, GetClient, GetClientFails, SkipSection,
         GetProject, CallFails, Create, CreateLost, Delete, DeleteLost,
         Finish, PatchMain, PatchStatus, PatchStatusFails, vars

(* Where no copy that is behind is ever read, none has been.               *)
LEMMA StaysFresh ==
    ASSUME "stale" \notin Disturbances, TypeOK, [Next]_vars, ~budget.misread
    PROVE  ~budget'.misread
<1>1. CASE UNCHANGED budget
  BY <1>1
<1>2. ASSUME NEW d, Spend(d) PROVE ~budget'.misread
  BY <1>2 DEF Spend, TypeOK, Budgets
<1> QED
  BY <1>1, <1>2
     DEF Next, Environment, SetOwner, RequestDelete, Deliver, Resync, Crash,
         Start, StartFails, PassStep, GetClient, GetClientFails, SkipSection,
         GetProject, CallFails, Create, CreateLost, Delete, DeleteLost,
         Finish, PatchMain, PatchStatus, PatchStatusFails, vars

(* The ids that were handed out stay so.                                   *)
LEMMA NextGrows ==
    ASSUME TypeOK, [Next]_vars
    PROVE  next' \in {next, next + 1}
  BY DEF Next, Environment, SetOwner, RequestDelete, Deliver, Resync, Crash,
         Start, StartFails, PassStep, GetClient, GetClientFails, SkipSection,
         GetProject, CallFails, Create, CreateLost, Delete, DeleteLost,
         Finish, PatchMain, PatchStatus, PatchStatusFails, vars

-----------------------------------------------------------------------------
(* What others can build on                                                *)

(* The key is recorded after all else.                                     *)
KeyLast(ids) ==
    ids["sshKey"] # 0 => ids["network"] # 0 /\ ids["floatingIP"] # 0

(* The pass has gone through the section that creates k. *)
Made(k) ==
    \/ pc = k /\ step # "work"
    \/ pc = "floatingIP" /\ k = "network"
    \/ pc = "sshKey" /\ k # "sshKey"
    \/ pc = "finish"

(* Until somebody deletes the object, what it records exists and is never  *)
(* recorded anew: a copy that is behind lacks ids, the key first.          *)
Ground ==
    /\ \A k \in Kinds : /\ api.ids[k] \in cloud[k] \cup {0}
                        /\ cached.ids[k] \in {0, api.ids[k]}
    /\ KeyLast(api.ids) /\ KeyLast(cached.ids)
    /\ pc # "idle" =>
         /\ \A k \in Kinds : /\ obj.ids[k] \in cloud[k] \cup {0}
                             /\ api.ids[k] \in {0, obj.ids[k]}
                             /\ Made(k) => obj.ids[k] # 0
         /\ KeyLast(obj.ids)

Live == api.exists /\ ~api.deleting

GroundInv == ~budget.misread /\ Live => Ground

(* In the beginning nothing is recorded.                                   *)
LEMMA GroundInit == Init => GroundInv
  BY NewObjectType, GoneType DEF Init, GroundInv, Ground, KeyLast, Kinds

(* A patch neither revives an object nor takes a deletion back.            *)
LEMMA LiveBefore ==
    ASSUME TypeOK, FinInv, [Next]_vars, Live'
    PROVE  Live /\ (pc # "idle" => ~obj.deleting)
<1>1. Live
  <2>1. CASE UNCHANGED api
    BY <2>1 DEF Live
  <2>2. CASE SetOwner \/ RequestDelete
    BY <2>2, GoneType DEF SetOwner, RequestDelete, Live, TypeOK, Objects
  <2>3. CASE api.exists /\ (api' = MergeMain(api) \/ api' = MergeStatus(api))
    BY <2>3, MergeMainFields, MergeStatusFields, GoneType
       DEF Live, FinInv, CacheInv, TypeOK, Objects
  <2> QED
    BY <2>1, <2>2, <2>3
       DEF Next, Environment, Deliver, Resync, Crash, Start, StartFails,
           PassStep, GetClient, GetClientFails, SkipSection, GetProject,
           CallFails, Create, CreateLost, Delete, DeleteLost, Finish,
           PatchMain, PatchStatus, PatchStatusFails, vars, MainDiffers
<1> QED
  BY <1>1 DEF Live, FinInv, CacheInv, PassInv

(* Only a deletion ends that: nothing a pass does.                         *)
LEMMA LiveStays ==
    ASSUME TypeOK, FinInv, Live,
           SetOwner \/ Deliver \/ Crash \/ Start \/ PassStep
    PROVE  Live'
<1>1. CASE UNCHANGED api
  BY <1>1 DEF Live
<1>2. CASE SetOwner
  BY <1>2 DEF SetOwner, Live, TypeOK, Objects
<1>3. CASE api' = MergeMain(api) \/ api' = MergeStatus(api)
  BY <1>3, MergeMainFields, MergeStatusFields DEF Live, FinInv, CacheInv
<1> QED
  BY <1>1, <1>2, <1>3
     DEF Deliver, Crash, Start, PassStep, GetClient, GetClientFails,
         SkipSection, GetProject, CallFails, Create, CreateLost, Delete,
         DeleteLost, Finish, PatchMain, PatchStatus, PatchStatusFails

(* Nothing goes from WX-ONE before somebody deletes the object.            *)
LEMMA ErasedOnDeletion ==
    ASSUME TypeOK, FinInv, [Next]_vars, NEW k \in Kinds,
           ~(cloud[k] \subseteq cloud'[k])
    PROVE  ~Live
<1>1. \E j \in Kinds : Delete(j) \/ DeleteLost(j)
  <2>1. ASSUME NEW j \in Kinds, Create(j) \/ CreateLost(j) PROVE FALSE
    BY <2>1 DEF Create, CreateLost, TypeOK
  <2> QED
    BY <2>1
       DEF Next, Environment, SetOwner, RequestDelete, Deliver, Resync,
           Crash, Start, StartFails, PassStep, GetClient, GetClientFails,
           SkipSection, GetProject, CallFails, Finish, PatchMain,
           PatchStatus, PatchStatusFails, vars
<1>2. pc # "idle" /\ obj.deleting
  BY <1>1 DEF Delete, DeleteLost, Kinds
<1> QED
  BY <1>2 DEF FinInv, CacheInv, PassInv, Live

(* What the informer has is what it had, or the object.                    *)
LEMMA CacheSteps ==
    ASSUME [Next]_vars
    PROVE  cached' \in {cached, api}
  BY DEF Next, Environment, SetOwner, RequestDelete, Deliver, Resync, Crash,
         Start, StartFails, PassStep, GetClient, GetClientFails, SkipSection,
         GetProject, CallFails, Create, CreateLost, Delete, DeleteLost,
         Finish, PatchMain, PatchStatus, PatchStatusFails, vars

(* A pass that ends leaves the ids as they were, or as it has them.        *)
LEMMA EndPassGround ==
    ASSUME TypeOK, Ground, EndPass, cached' \in {cached, api},
           \A k \in Kinds : cloud[k] \subseteq cloud'[k],
           \/ api' = api
           \/ /\ pc # "idle" /\ cached' = cached
              /\ \A k \in Kinds : api'.ids[k] = obj.ids[k]
    PROVE  Ground'
<1>1. CASE api' = api
  BY <1>1 DEF Ground, EndPass
<1>2. CASE /\ pc # "idle" /\ cached' = cached
           /\ \A k \in Kinds : api'.ids[k] = obj.ids[k]
  BY <1>2 DEF Ground, EndPass, KeyLast, Kinds
<1> QED
  BY <1>1, <1>2

(* A step that leaves the ids alone and goes on only if there is one.      *)
LEMMA MoveGround ==
    ASSUME Ground, pc # "idle", UNCHANGED <<cached, cloud>>,
           api'.ids = api.ids, obj'.ids = obj.ids,
           \A k \in Kinds : Made(k)' => Made(k) \/ obj.ids[k] # 0
    PROVE  Ground'
  BY DEF Ground

(* While nobody deletes the object, every step leaves what others build on.*)
LEMMA GroundStep ==
    ASSUME TypeOK, Sections, FinInv, TrailInv, GroundInv, [Next]_vars
    PROVE  GroundInv'
<1> SUFFICES ASSUME ~budget'.misread, Live' PROVE Ground'
  BY DEF GroundInv
<1>1. ~budget.misread /\ Live /\ (pc # "idle" => ~obj.deleting)
  BY MisreadStays, LiveBefore
<1>2. Ground /\ Trail
  BY <1>1 DEF GroundInv, TrailInv
<1>3. CASE SetOwner \/ RequestDelete
  <2>1. api'.ids = api.ids /\ UNCHANGED <<cached, cloud, pass>>
    BY <1>1, <1>3, GoneType
       DEF SetOwner, RequestDelete, Live, TypeOK, Objects
  <2> QED
    BY <1>2, <2>1 DEF Ground, Made, pass
<1>4. CASE Deliver \/ Resync \/ StartFails \/ UNCHANGED vars
  BY <1>2, <1>4 DEF Deliver, Resync, StartFails, vars, pass, Ground, Made
<1>5. CASE Start
  <2>1. cached = api /\ UNCHANGED <<api, cached, cloud>>
    BY <1>5, SpendMisread DEF Start
  <2>2. CASE UNCHANGED pass
    BY <1>2, <2>1, <2>2 DEF pass, Ground, Made
  <2>3. CASE ~UNCHANGED pass
    <3>1. /\ obj'.ids = api.ids /\ pc' = "finalizer"
      BY <1>1, <1>5, <2>1, <2>3 DEF Start, FirstSection, Live, TypeOK, Objects
    <3> QED
      BY <1>2, <2>1, <3>1 DEF Ground, Made, Kinds
  <2> QED
    BY <2>2, <2>3
<1>6. CASE Crash \/ GetClientFails \/ CallFails
  BY <1>2, <1>6, EndPassGround DEF Crash, GetClientFails, CallFails, Abort
<1>7. CASE GetClient
  BY <1>1, <1>2, <1>7, MoveGround DEF GetClient, Made, Kinds
<1>8. CASE SkipSection
  <2>1. /\ pc # "idle" /\ UNCHANGED <<cached, cloud, api, obj, step>>
        /\ step = "work" /\ pc \in Kinds \cup {"project"}
        /\ pc' = After[pc] /\ ~CallDue
    BY <1>8 DEF SkipSection, Kinds
  <2>2. pc \in Kinds => obj.ids[pc] # 0
    BY <1>1, <2>1 DEF CallDue, None, Kinds
  <2>3. \A k \in Kinds : Made(k)' => Made(k) \/ k = pc
    BY <2>1 DEF Made, After, Kinds
  <2> QED
    BY <1>2, <2>1, <2>2, <2>3, MoveGround
<1>9. CASE GetProject
  <2>1. /\ pc = "project" /\ pc' = "network" /\ UNCHANGED <<cached, cloud, api>>
        /\ step = "work" /\ step' = "work" /\ obj'.ids = obj.ids
    BY <1>9 DEF GetProject, CallDue, After, TypeOK, Objects
  <2> QED
    BY <1>2, <2>1, MoveGround DEF Made, Kinds
<1>10. ASSUME NEW k \in Kinds, Create(k) PROVE Ground'
  <2>1. /\ pc = k /\ pc' = k /\ CallDue /\ ~obj.deleting
        /\ UNCHANGED <<api, cached>> /\ pc # "idle"
        /\ cloud' = [cloud EXCEPT ![k] = @ \cup {next}]
    BY <1>10 DEF Create, Kinds
  <2>2. step = "work" /\ obj.ids[k] = 0 /\ next # 0
    BY <1>2, <2>1 DEF CallDue, None, Kinds, Trail, IdsInv, TypeOK, Objects
  <2>3. /\ obj'.ids[k] = next
        /\ \A j \in Kinds \ {k} : obj'.ids[j] = obj.ids[j]
    BY <1>10 DEF Create, Recorded, TypeOK, Objects
  <2>4. /\ cloud'[k] = cloud[k] \cup {next}
        /\ \A j \in Kinds \ {k} : cloud'[j] = cloud[j]
    BY <2>1, <2>2 DEF TypeOK
  <2>5. api.ids[k] = 0
    BY <1>2, <2>1, <2>2 DEF Ground
  <2>6. KeyLast(obj'.ids)
    BY <1>2, <2>1, <2>2, <2>3 DEF Ground, KeyLast, Made, Kinds
  <2>7. \A j \in Kinds : Made(j)' => Made(j) \/ j = k
    BY <2>1, <2>2 DEF Made, Kinds
  <2> QED
    BY <1>2, <2>1, <2>2, <2>3, <2>4, <2>5, <2>6, <2>7 DEF Ground
<1>11. ASSUME NEW k \in Kinds, CreateLost(k) PROVE Ground'
  <2>1. \A j \in Kinds : cloud[j] \subseteq cloud'[j]
    BY <1>11 DEF CreateLost, TypeOK
  <2> QED
    BY <1>2, <1>11, <2>1, EndPassGround DEF CreateLost, Abort
<1>12. ASSUME NEW k \in Kinds, Delete(k) \/ DeleteLost(k) PROVE FALSE
  BY <1>1, <1>12 DEF Delete, DeleteLost, Kinds
<1>13. CASE Finish
  <2>1. /\ pc = "finish" /\ pc' = pc /\ UNCHANGED <<cached, cloud, api>>
        /\ obj'.ids = obj.ids
    BY <1>13 DEF Finish, TypeOK, Objects
  <2> QED
    BY <1>2, <2>1, MoveGround DEF Made
<1>14. CASE PatchMain
  <2>1. /\ pc # "idle" /\ step = "main" /\ step' = "status"
        /\ UNCHANGED <<cached, cloud, obj, pc>>
    BY <1>14 DEF PatchMain, Sections, Kinds
  <2>2. api' # Gone
    BY GoneType DEF Live
  <2>3. api'.ids = api.ids
    BY <1>14, <2>2 DEF PatchMain, MergeMain, TypeOK, Objects
  <2> QED
    BY <1>2, <2>1, <2>3, MoveGround DEF Made
<1>15. CASE PatchStatus
  <2>1. /\ pc # "idle" /\ \A k \in Kinds : api'.ids[k] = obj.ids[k]
        /\ UNCHANGED <<cached, cloud>> /\ step = "status"
    BY <1>2, <1>15, PatchStatusIds DEF PatchStatus
  <2>2. CASE pc = "finish"
    BY <1>2, <1>15, <2>1, <2>2, EndPassGround DEF PatchStatus
  <2>3. CASE pc # "finish"
    <3>1. /\ UNCHANGED obj /\ step' = "work" /\ pc' = After[pc]
      BY <1>15, <2>3 DEF PatchStatus
    <3>2. \A k \in Kinds : Made(k)' => Made(k)
      BY <2>1, <2>3, <3>1 DEF Made, After, Sections, Kinds
    <3> QED
      BY <1>2, <2>1, <3>1, <3>2 DEF Ground, KeyLast, Kinds
  <2> QED
    BY <2>2, <2>3
<1>16. CASE PatchStatusFails
  <2>1. /\ pc # "idle" /\ EndPass /\ UNCHANGED <<cached, cloud>>
        /\ api' = api \/ api' = MergeStatus(api)
    BY <1>16 DEF PatchStatusFails, Abort, Sections, Kinds
  <2> QED
    BY <1>2, <2>1, StatusWrites, EndPassGround
<1> QED
  BY <1>3, <1>4, <1>5, <1>6, <1>7, <1>8, <1>9, <1>10, <1>11, <1>12, <1>13,
     <1>14, <1>15, <1>16 DEF Next, Environment, PassStep

(* Until somebody deletes the object, and as long as passes read fresh     *)
(* copies, everything it records exists, and an informer's copy of it,     *)
(* however far behind, records nothing else and no key without the rest.   *)
THEOREM GroundInvariant == Spec => []GroundInv
  BY GroundInit, GroundStep, TypeCorrect, FinalizerInvariant, TrailInvariant,
     PTL DEF Spec

-----------------------------------------------------------------------------
(* Counting it *)

(* The ids that count: those of the pass, or of the object between passes. *)
Holder == IF pc = "idle" THEN api.ids ELSE obj.ids

(* What will be orphaned if nothing else goes wrong *)
Forgotten == UNION {cloud[k] \ {Holder[k]} : k \in Kinds}

(* What is forgotten has been paid for; a patch of which the first call    *)
(* failed has been paid for in advance.                                    *)
Paid ==
    /\ IsFiniteSet(Forgotten)
    /\ Cardinality(Forgotten) + budget.left <= MaxDisturb
    /\ failed /\ pc # "finalizer" =>
         Cardinality(Forgotten) + budget.left < MaxDisturb

PaidInv == ~budget.misread => Paid

(* A step forgets nothing, or forgets one thing and pays for it, or it has *)
(* been paid for.                                                          *)
LEMMA Paying ==
    ASSUME TypeOK, TypeOK', Paid, NEW x,
           Forgotten' \subseteq Forgotten \cup {x},
           budget'.left <= budget.left,
           \/ Forgotten' \subseteq Forgotten
           \/ budget'.left < budget.left
           \/ failed /\ pc # "finalizer" /\ ~failed',
           failed' /\ pc' # "finalizer" =>
             \/ failed /\ pc # "finalizer"
             \/ Forgotten' \subseteq Forgotten /\ budget'.left < budget.left
    PROVE  Paid'
<1>1. /\ IsFiniteSet(Forgotten') /\ Cardinality(Forgotten') \in Nat
      /\ Cardinality(Forgotten) \in Nat
      /\ Cardinality(Forgotten') <= Cardinality(Forgotten) + 1
      /\ Forgotten' \subseteq Forgotten =>
           Cardinality(Forgotten') <= Cardinality(Forgotten)
  BY OneMore DEF Paid
<1>2. budget.left \in Nat /\ budget'.left \in Nat /\ MaxDisturb \in Nat
  BY ConstantsAssumption DEF TypeOK, Budgets
<1> QED
  BY <1>1, <1>2 DEF Paid

(* What is spent is one disturbance.                                       *)
LEMMA SpendOne ==
    ASSUME TypeOK, NEW d, Spend(d)
    PROVE  budget'.left < budget.left
  BY DEF Spend, TypeOK, Budgets

(* A pass that ends forgets at most the id it has not patched.             *)
LEMMA EndPassForgets ==
    ASSUME TypeOK, Sections, Trail, EndPass,
           \A k \in Kinds : cloud'[k] \subseteq cloud[k],
           \A k \in Kinds :
             api'.ids[k] \in {api.ids[k], IF pc = "idle" THEN api.ids[k]
                                                         ELSE obj.ids[k]}
    PROVE  /\ \E x : Forgotten' \subseteq Forgotten \cup {x}
           /\ \/ pc \in {"idle", "finalizer"} \/ step = "work"
              \/ \A k \in Kinds : api'.ids[k] = obj.ids[k]
              => Forgotten' \subseteq Forgotten
<1>1. Holder' = api'.ids
  BY DEF Holder, EndPass
<1>2. ASSUME NEW k \in Kinds, api'.ids[k] # Holder[k]
      PROVE  /\ pc \notin {"idle", "finalizer"} /\ step # "work" /\ k = pc
             /\ api'.ids[k] # obj.ids[k]
  BY <1>2 DEF Holder, Trail, Patched, Kinds
<1>3. ASSUME NEW i \in Forgotten', i \notin Forgotten
      PROVE  /\ pc \in Kinds /\ i = Holder[pc] /\ i # api'.ids[pc]
  BY <1>1, <1>2, <1>3 DEF Forgotten
<1>4. Forgotten' \subseteq Forgotten \cup {Holder[pc]}
  BY <1>3
<1> QED
  BY <1>2, <1>3, <1>4

(* What exists beyond what is known has been paid for at every step.       *)
LEMMA PaidStep ==
    ASSUME TypeOK, TypeOK', Sections, FinInv, Trail, Paid,
           ~budget'.misread, [Next]_vars
    PROVE  Paid'
<1>1. CASE UNCHANGED vars \/ SetOwner \/ RequestDelete \/ Deliver \/ Resync
             \/ StartFails
  <2>1. UNCHANGED <<cloud, pc, obj, failed>> /\ budget'.left <= budget.left
    BY <1>1, SpendOne DEF vars, SetOwner, RequestDelete, Deliver, Resync,
                          StartFails, pass, TypeOK, Budgets
  <2>2. \A k \in Kinds : Holder'[k] = Holder[k]
    BY <1>1, GoneIds DEF vars, SetOwner, RequestDelete, Deliver, Resync,
                         StartFails, pass, Trail, TypeOK, Objects, Holder
  <2>3. Forgotten' \subseteq Forgotten
    BY <2>1, <2>2 DEF Forgotten
  <2> QED
    BY <2>1, <2>3, Paying
<1>2. CASE Start
  <2>1. /\ cached = api /\ pc = "idle" /\ UNCHANGED <<cloud, failed, api>>
        /\ budget' = budget
    BY <1>2, SpendMisread DEF Start, pass
  <2>2. pc' = "idle" \/ obj'.ids = api.ids
    BY <1>2, <2>1 DEF Start, pass, TypeOK, Objects
  <2>3. Forgotten' \subseteq Forgotten
    BY <2>1, <2>2 DEF Forgotten, Holder
  <2> QED
    BY <2>1, <2>3, Paying DEF TypeOK, Budgets
<1>3. CASE GetClient \/ SkipSection \/ GetProject \/ Finish
  <2>1. /\ UNCHANGED <<cloud, failed>>
        /\ pc \notin {"idle", "finalizer"} /\ pc' # "idle"
        /\ budget'.left <= budget.left
    BY <1>3, AfterType, SpendOne
       DEF GetClient, SkipSection, GetProject, Finish, CallDue, Kinds,
           TypeOK, Budgets
  <2>2. obj'.ids = obj.ids
    BY <1>3 DEF GetClient, SkipSection, GetProject, Finish, TypeOK, Objects
  <2>3. Forgotten' \subseteq Forgotten
    BY <2>1, <2>2 DEF Forgotten, Holder
  <2> QED
    BY <2>1, <2>3, Paying
<1>4. CASE GetClientFails \/ CallFails
  <2>1. /\ EndPass /\ UNCHANGED <<api, cloud>> /\ ~failed'
        /\ step = "work" /\ budget'.left <= budget.left
    BY <1>4, SpendOne DEF GetClientFails, CallFails, CallDue, Abort, EndPass,
                          Sections, Kinds, TypeOK, Budgets
  <2>2. Forgotten' \subseteq Forgotten
    BY <2>1, EndPassForgets
  <2> QED
    BY <2>1, <2>2, Paying
<1>5. CASE Crash
  <2>1. /\ EndPass /\ UNCHANGED <<api, cloud>> /\ ~failed'
        /\ budget'.left < budget.left
    BY <1>5, SpendOne DEF Crash, Abort, EndPass
  <2>2. PICK x : Forgotten' \subseteq Forgotten \cup {x}
    BY <2>1, EndPassForgets
  <2> QED
    BY <2>1, <2>2, Paying DEF TypeOK, Budgets
<1>6. ASSUME NEW k \in Kinds, Create(k) PROVE Paid'
  <2>1. /\ pc = k /\ pc' = pc /\ pc # "idle" /\ obj.ids[k] = 0
        /\ cloud' = [cloud EXCEPT ![k] = @ \cup {next}]
        /\ UNCHANGED <<failed, budget>>
        /\ obj'.ids = [obj.ids EXCEPT ![k] = next]
    BY <1>6 DEF Create, CallDue, Recorded, None, Kinds, TypeOK, Objects
  <2>2. \A j \in Kinds : cloud'[j] \ {obj'.ids[j]} \subseteq
                           cloud[j] \ {obj.ids[j]}
    BY <2>1 DEF TypeOK, Objects, Trail, IdsInv
  <2>3. Forgotten' \subseteq Forgotten
    BY <2>1, <2>2 DEF Forgotten, Holder
  <2> QED
    BY <2>1, <2>3, Paying DEF TypeOK, Budgets
<1>7. ASSUME NEW k \in Kinds, CreateLost(k) PROVE Paid'
  <2>1. /\ pc = k /\ pc # "idle" /\ step = "work" /\ EndPass /\ ~failed'
        /\ cloud' = [cloud EXCEPT ![k] = @ \cup {next}]
        /\ budget'.left < budget.left /\ api' = api
    BY <1>7, SpendOne DEF CreateLost, CallDue, Abort, EndPass, Kinds
  <2>2. \A j \in Kinds : api.ids[j] = obj.ids[j]
    BY <2>1 DEF Trail, Patched, Kinds
  <2>3. \A j \in Kinds : /\ Holder'[j] = Holder[j]
                          /\ cloud'[j] \subseteq cloud[j] \cup {next}
    BY <2>1, <2>2 DEF Holder, EndPass, TypeOK
  <2>4. Forgotten' \subseteq Forgotten \cup {next}
    BY <2>3 DEF Forgotten
  <2> QED
    BY <2>1, <2>4, Paying DEF TypeOK, Budgets
<1>8. ASSUME NEW k \in Kinds, Delete(k) PROVE Paid'
  <2>1. /\ pc = k /\ pc' = pc /\ pc # "idle" /\ UNCHANGED failed
        /\ obj'.ids = [obj.ids EXCEPT ![k] = 0]
        /\ \/ /\ cloud' = [cloud EXCEPT ![k] = @ \ {obj.ids[k]}]
              /\ budget' = budget
           \/ cloud' = cloud /\ budget'.left < budget.left
    BY <1>8, SpendOne
       DEF Delete, CallDue, Recorded, None, Kinds, TypeOK, Objects
  <2>2. CASE cloud' = [cloud EXCEPT ![k] = @ \ {obj.ids[k]}]
    <3>1. \A j \in Kinds : cloud'[j] \ {obj'.ids[j]} \subseteq
                             cloud[j] \ {obj.ids[j]}
      BY <2>1, <2>2 DEF TypeOK, Objects
    <3>2. Forgotten' \subseteq Forgotten
      BY <2>1, <3>1 DEF Forgotten, Holder
    <3> QED
      BY <2>1, <3>2, Paying DEF TypeOK, Budgets
  <2>3. CASE cloud' = cloud /\ budget'.left < budget.left
    <3>1. \A j \in Kinds : cloud'[j] \ {obj'.ids[j]} \subseteq
                             (cloud[j] \ {obj.ids[j]}) \cup {obj.ids[k]}
      BY <2>1, <2>3 DEF TypeOK, Objects
    <3>2. Forgotten' \subseteq Forgotten \cup {obj.ids[k]}
      BY <2>1, <3>1 DEF Forgotten, Holder
    <3> QED
      BY <2>1, <2>3, <3>2, Paying DEF TypeOK, Budgets
  <2> QED
    BY <2>1, <2>2, <2>3
<1>9. ASSUME NEW k \in Kinds, DeleteLost(k) PROVE Paid'
  <2>1. /\ step = "work" /\ EndPass /\ ~failed' /\ api' = api
        /\ budget'.left < budget.left
    BY <1>9, SpendOne DEF DeleteLost, CallDue, Abort, EndPass
  <2>2. \A j \in Kinds : cloud'[j] \subseteq cloud[j]
    BY <1>9 DEF DeleteLost, TypeOK
  <2>3. Forgotten' \subseteq Forgotten
    BY <2>1, <2>2, EndPassForgets
  <2> QED
    BY <2>1, <2>3, Paying DEF TypeOK, Budgets
<1>10. CASE PatchMain
  <2>1. /\ pc' = pc /\ pc # "idle" /\ UNCHANGED <<cloud, obj>>
        /\ step = "main"
        /\ \/ UNCHANGED <<failed, budget>>
           \/ ~api.exists /\ budget' = budget
           \/ budget'.left < budget.left
    BY <1>10, SpendOne DEF PatchMain, Sections, Kinds
  <2>2. Forgotten' \subseteq Forgotten
    BY <2>1 DEF Forgotten, Holder
  <2>3. api.exists \/ pc = "finalizer"
    BY <2>1 DEF Trail
  <2> QED
    BY <2>1, <2>2, <2>3, Paying DEF TypeOK, Budgets
<1>11. CASE PatchStatus
  <2>1. /\ pc # "idle" /\ UNCHANGED <<cloud, budget>> /\ ~failed
        /\ \A k \in Kinds : api'.ids[k] = obj.ids[k]
    BY <1>11, PatchStatusIds DEF PatchStatus
  <2>2. \/ EndPass
        \/ UNCHANGED <<obj, failed>> /\ pc' # "idle"
    BY <1>11, <2>1, AfterType DEF PatchStatus, Sections
  <2>3. Forgotten' \subseteq Forgotten /\ ~failed'
    BY <2>1, <2>2, EndPassForgets DEF Forgotten, Holder, EndPass
  <2> QED
    BY <2>1, <2>3, Paying DEF TypeOK, Budgets
<1>12. CASE PatchStatusFails
  <2>1. /\ pc # "idle" /\ step = "status" /\ EndPass /\ UNCHANGED cloud
        /\ ~failed'
        /\ \/ failed /\ budget' = budget
           \/ /\ StatusDiffers /\ ~api.exists /\ ~(obj.deleting /\ ~obj.fin)
              /\ budget' = budget
           \/ budget'.left < budget.left
        /\ \/ api' = api
           \/ api' = MergeStatus(api)
    BY <1>12, SpendOne DEF PatchStatusFails, Abort, EndPass, Sections, Kinds
  <2>2. \A k \in Kinds : api'.ids[k] \in {api.ids[k], obj.ids[k]}
    BY <2>1, StatusWrites
  <2>3. PICK x : Forgotten' \subseteq Forgotten \cup {x}
    BY <2>1, <2>2, EndPassForgets
  <2>4. CASE pc = "finalizer"
    BY <2>1, <2>2, <2>3, <2>4, EndPassForgets, Paying DEF TypeOK, Budgets
  <2>5. CASE pc # "finalizer"
    <3>1. api.exists \/ (obj.deleting /\ ~obj.fin)
      BY <2>1, <2>5 DEF Trail, FinInv, PassInv
    <3> QED
      BY <2>1, <2>3, <2>5, <3>1, Paying DEF TypeOK, Budgets
  <2> QED
    BY <2>4, <2>5
<1> QED
  BY <1>1, <1>2, <1>3, <1>4, <1>5, <1>6, <1>7, <1>8, <1>9, <1>10, <1>11,
     <1>12 DEF Next, Environment, PassStep

(* What is forgotten never exceeds what has gone wrong.                    *)
THEOREM PaidInvariant == Spec => []PaidInv
<1>1. Init => PaidInv
  <2> SUFFICES ASSUME Init PROVE Paid
    BY DEF PaidInv
  <2>1. Forgotten = {}
    BY DEF Init, Forgotten
  <2>2. /\ budget.left = MaxDisturb /\ ~failed /\ MaxDisturb \in Nat
    BY ConstantsAssumption DEF Init
  <2> QED
    BY <2>1, <2>2, FS_EmptySet DEF Paid
<1>2. TypeOK /\ TypeOK' /\ Sections /\ FinInv /\ TrailInv /\ PaidInv
        /\ [Next]_vars => PaidInv'
  <2> SUFFICES ASSUME TypeOK, TypeOK', Sections, FinInv, TrailInv, PaidInv,
                      [Next]_vars, ~budget'.misread
               PROVE  Paid'
    BY DEF PaidInv
  <2>1. ~budget.misread
    BY MisreadStays
  <2> QED
    BY <2>1, PaidStep DEF TrailInv, PaidInv
<1> QED
  BY <1>1, <1>2, TypeCorrect, FinalizerInvariant, TrailInvariant, PTL
     DEF Spec

(* As long as passes read fresh copies, every crash, lost answer, failed   *)
(* patch and ignored error orphans one resource at most, for any number of *)
(* them in any order.                                                      *)
THEOREM LeaksBounded == Spec => []LeakBounded
<1>1. TypeOK /\ PaidInv => LeakBounded
  <2> SUFFICES ASSUME TypeOK, PaidInv, ~budget.misread
               PROVE  Cardinality(Orphans) <= MaxDisturb - budget.left
    BY DEF LeakBounded
  <2>1. Orphans \subseteq Forgotten
    BY DEF Orphans, Forgotten, Holder
  <2>2. /\ Cardinality(Orphans) \in Nat /\ Cardinality(Forgotten) \in Nat
        /\ Cardinality(Orphans) <= Cardinality(Forgotten)
        /\ Cardinality(Forgotten) + budget.left <= MaxDisturb
    BY <2>1, OneMore DEF PaidInv, Paid
  <2>3. budget.left \in Nat /\ MaxDisturb \in Nat
    BY ConstantsAssumption DEF TypeOK, Budgets
  <2> QED
    BY <2>2, <2>3
<1> QED
  BY <1>1, TypeCorrect, PaidInvariant, PTL
=============================================================================
