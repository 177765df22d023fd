------------------------- MODULE ResourceLifecycle --------------------------
(***************************************************************************)
(* What both reconcilers promise about the cloud resources of one object,  *)
(* whatever sections, patches and retries they do it with: a finalizer is  *)
(* set before anything is created (wxonecluster_types.go:25,               *)
(* wxonemachine_types.go:28), there is never a second resource of a kind,  *)
(* the object is only announced ready with all of its resources there,     *)
(* resources are only given up once the deletion was asked for, and the    *)
(* object only goes away when none is left.                                *)
(***************************************************************************)
CONSTANT Kinds  \* the kinds of resources there are

VARIABLES
    needed, \* the kinds the object needs, settled once and for all
    phase,  \* of the object: "open", "guarded", "leaving" or "gone"
    held,   \* the resources of each kind that exist in the cloud
    ready   \* the object is announced ready

vars == <<needed, phase, held, ready>>

Init == /\ needed \in SUBSET Kinds
        /\ phase = "open"
        /\ held = [k \in Kinds |-> {}]
        /\ ready = FALSE

(* The finalizer is set. *)
Guard == /\ phase = "open"
         /\ phase' = "guarded"
         /\ UNCHANGED <<needed, held, ready>>

(* The deletion of an object that has its finalizer, and of one without. *)
Leave == /\ phase = "guarded"
         /\ phase' = "leaving"
         /\ UNCHANGED <<needed, held, ready>>

Drop == /\ phase = "open"
        /\ phase' = "gone"
        /\ UNCHANGED <<needed, held, ready>>

(* A creation that was under way when the deletion was asked for may still *)
(* succeed, so resources are also acquired while leaving.                  *)
Acquire(k) == /\ phase \in {"guarded", "leaving"}
              /\ held[k] = {}
              /\ \E r \in held'[k] : held' = [held EXCEPT ![k] = {r}]
              /\ UNCHANGED <<needed, phase, ready>>

Announce == /\ phase \in {"guarded", "leaving"}
            /\ \A k \in needed : held[k] # {}
            /\ ready' = TRUE
            /\ UNCHANGED <<needed, phase, held>>

Release(k) == /\ phase = "leaving"
              /\ held' = [held EXCEPT ![k] = {}]
              /\ UNCHANGED <<needed, phase, ready>>

(* The finalizer is taken off. *)
Remove == /\ phase = "leaving"
          /\ \A k \in Kinds : held[k] = {}
          /\ phase' = "gone"
          /\ ready' = FALSE
          /\ UNCHANGED <<needed, held>>

Next == \/ Guard \/ Leave \/ Drop \/ Announce \/ Remove
        \/ \E k \in needed : Acquire(k) \/ Release(k)

Spec == Init /\ [][Next]_vars
=============================================================================
